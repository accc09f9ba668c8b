------------------------------- MODULE MCLive -------------------------------
(***************************************************************************)
(* What must happen in the end, on small instances: a publication of       *)
(* exports (ExportPublish), the supervision of a worker (WorkerEvents) and *)
(* its commands (ControlPipe), the reads of the persistent engine          *)
(* (EngineReads), the slots of the processes (ProcessSlots), and the       *)
(* windows (BatchControl, ReviewSession).                                  *)
(*                                                                         *)
(* The instances share nothing, so one run checks them side by side:       *)
(* `part' is fixed in the initial state and says which of them a behaviour *)
(* is about; x1, x2, ... are its variables. Fairness is stated per         *)
(* instance.                                                               *)
(***************************************************************************)
EXTENDS ExportPublish

CONSTANTS
    a1, a2, a3, b1, b2, proposed, other, Nothing, Nobody, Unused

VARIABLES
    part,  \* the instance a behaviour is about
    x1, x2, x3, x4, x5, x6, x7, x8, x9, x10, x11, x12, x13, x14, x15, x16, x17, x18, x19, x20,
    x21, x22

allVars == <<vars, part, x1, x2, x3, x4, x5, x6, x7, x8, x9, x10, x11, x12, x13, x14, x15, x16,
          x17, x18, x19, x20, x21, x22>>

PdfAndIndex == <<"pdf", "xlsx">>
PdfOnly == <<"pdf">>
MCRequests == {a1, a2}
MCThreads == {a1, a2, a3}
MCProcs == {b1, b2}
MCJobs == {a1}

\* One unit, one heartbeat and one fault.
Events == INSTANCE WorkerEvents
    WITH Units <- 1, None <- Nothing, Timeout <- 2, MaxBeats <- 1, Room <- 1, Faults <- 1, main <- x1,
         heart <- x2, ctl <- x3, held <- x4, stop <- x5, broken <- x6, jammed <- x7, seq <- x8,
         beats <- x9, faults <- x10, code <- x11, pipe <- x12, stdin <- x13, session <- x14,
         left <- x15, pipeFailed <- x16, eof <- x17, seen <- x18, reason <- x19,
         outcome <- x20, accepted <- x21, since <- x22

\* Four bytes, frames of at most three.
Pipe == INSTANCE ControlPipe
    WITH MaxFrame <- 3, Chunk <- 2, MaxBytes <- 4, written <- x1, read <- x2, open <- x3,
         buffer <- x4, stop <- x5, turn <- x6, late <- x7, applied <- x8, result <- x9

\* Two requests at one engine, one of which may wait.
Reads == INSTANCE EngineReads
    WITH Requests <- MCRequests, MaxWaiters <- 1, Free <- Nobody, busy <- x1, waiters <- x2, stopped <- x3,
         active <- x4, session <- x5, pc <- x6, lease <- x7, keep <- x8, expired <- x9,
         woken <- x10, exchange <- x11, answer <- x12, closing <- x13, proc <- x14,
         input <- x15, output <- x16

\* Three threads ask for one slot, one of them may wait.
Slots == INSTANCE ProcessSlots
    WITH Threads <- MCThreads, Procs <- MCProcs, max_processes <- 1, max_waiters <- 1,
         active <- x1, waiters <- x2, shutting_down <- x3, thread <- x4, due <- x5, proc <- x6,
         told <- x7, held <- x8, permit <- x9, closing <- x10

\* One job and two operations.
Control == INSTANCE BatchControl
    WITH Jobs <- MCJobs, MaxOps <- 2, MaxLists <- 0, MaxChanges <- 0, MaxFailures <- 0,
         host <- x1, deleted <- x2, window <- x3, flight <- x4, used <- x5

\* One segment whose source changes once, with one error.
Session == INSTANCE ReviewSession
    WITH Segments <- {a1}, Decisions <- {proposed, other}, Default <- proposed,
         HistoryLimit <- 1, MaxOperations <- 2, MaxAnalyses <- 2, MaxOthers <- 0,
         MaxSourceChanges <- 1, MaxErrors <- 1, store <- x1, bound <- x2, session <- x3,
         queue <- x4, checking <- x5, ui <- x6, count <- x7

AllInit ==
    /\ Init
    /\ \/ /\ part = "publish"
          /\ x1 = Unused /\ x2 = Unused /\ x3 = Unused /\ x4 = Unused /\ x5 = Unused
          /\ x6 = Unused /\ x7 = Unused /\ x8 = Unused /\ x9 = Unused /\ x10 = Unused
          /\ x11 = Unused /\ x12 = Unused /\ x13 = Unused /\ x14 = Unused /\ x15 = Unused
          /\ x16 = Unused /\ x17 = Unused /\ x18 = Unused /\ x19 = Unused /\ x20 = Unused
          /\ x21 = Unused /\ x22 = Unused
       \/ /\ part = "events" /\ Events!Init
       \/ /\ part = "pipe" /\ Pipe!Init
          /\ x10 = Unused /\ x11 = Unused /\ x12 = Unused /\ x13 = Unused /\ x14 = Unused
          /\ x15 = Unused /\ x16 = Unused /\ x17 = Unused /\ x18 = Unused /\ x19 = Unused
          /\ x20 = Unused /\ x21 = Unused /\ x22 = Unused
       \/ /\ part = "reads" /\ Reads!Init
          /\ x17 = Unused /\ x18 = Unused /\ x19 = Unused /\ x20 = Unused /\ x21 = Unused
          /\ x22 = Unused
       \/ /\ part = "slots" /\ Slots!Init
          /\ x11 = Unused /\ x12 = Unused /\ x13 = Unused /\ x14 = Unused /\ x15 = Unused
          /\ x16 = Unused /\ x17 = Unused /\ x18 = Unused /\ x19 = Unused /\ x20 = Unused
          /\ x21 = Unused /\ x22 = Unused
       \/ /\ part = "control" /\ Control!ControlInit
          /\ x6 = Unused /\ x7 = Unused /\ x8 = Unused /\ x9 = Unused /\ x10 = Unused
          /\ x11 = Unused /\ x12 = Unused /\ x13 = Unused /\ x14 = Unused /\ x15 = Unused
          /\ x16 = Unused /\ x17 = Unused /\ x18 = Unused /\ x19 = Unused /\ x20 = Unused
          /\ x21 = Unused /\ x22 = Unused
       \/ /\ part = "session" /\ Session!SessionInit
          /\ x8 = Unused /\ x9 = Unused /\ x10 = Unused /\ x11 = Unused /\ x12 = Unused
          /\ x13 = Unused /\ x14 = Unused /\ x15 = Unused /\ x16 = Unused /\ x17 = Unused
          /\ x18 = Unused /\ x19 = Unused /\ x20 = Unused /\ x21 = Unused /\ x22 = Unused

AllNext ==
    /\ UNCHANGED part
    /\ \/ /\ part = "publish" /\ Next
          /\ UNCHANGED <<x1, x2, x3, x4, x5, x6, x7, x8, x9, x10, x11, x12, x13, x14, x15, x16,
                        x17, x18, x19, x20, x21, x22>>
       \/ /\ part = "events" /\ Events!Next
          /\ UNCHANGED vars
       \/ /\ part = "pipe" /\ Pipe!Next
          /\ UNCHANGED <<x10, x11, x12, x13, x14, x15, x16, x17, x18, x19, x20, x21, x22>>
          /\ UNCHANGED vars
       \/ /\ part = "reads" /\ Reads!Next
          /\ UNCHANGED <<x17, x18, x19, x20, x21, x22>>
          /\ UNCHANGED vars
       \/ /\ part = "slots" /\ Slots!Next
          /\ UNCHANGED <<x11, x12, x13, x14, x15, x16, x17, x18, x19, x20, x21, x22>>
          /\ UNCHANGED vars
       \/ /\ part = "control" /\ Control!ControlNext
          /\ UNCHANGED <<x6, x7, x8, x9, x10, x11, x12, x13, x14, x15, x16, x17, x18, x19, x20,
                        x21, x22>>
          /\ UNCHANGED vars
       \/ /\ part = "session" /\ Session!SessionNext
          /\ UNCHANGED <<x8, x9, x10, x11, x12, x13, x14, x15, x16, x17, x18, x19, x20, x21, x22>>
          /\ UNCHANGED vars

AllSpec == AllInit /\ [][AllNext]_allVars

\* A step of one instance alone.
EventsOnly == part = "events" /\ UNCHANGED <<vars, part>>
PipeOnly == part = "pipe" /\ UNCHANGED <<vars, part, x10, x11, x12, x13, x14, x15, x16, x17, x18, x19, x20, x21, x22>>
ReadsOnly == part = "reads" /\ UNCHANGED <<vars, part, x17, x18, x19, x20, x21, x22>>
SlotsOnly == part = "slots" /\ UNCHANGED <<vars, part, x11, x12, x13, x14, x15, x16, x17, x18, x19, x20, x21, x22>>
ControlOnly == part = "control" /\ UNCHANGED <<vars, part, x6, x7, x8, x9, x10, x11, x12, x13, x14, x15, x16, x17, x18, x19, x20,
            x21, x22>>
SessionOnly == part = "session" /\ UNCHANGED <<vars, part, x8, x9, x10, x11, x12, x13, x14, x15, x16, x17, x18, x19, x20, x21, x22>>
PublishOnly == part = "publish" /\ UNCHANGED <<part, x1, x2, x3, x4, x5, x6, x7, x8, x9, x10, x11, x12, x13, x14, x15, x16, x17, x18,
            x19, x20, x21, x22>>

\* The fairness of each module, for the behaviours that are about it.
AllFairness ==
    /\ WF_allVars(PublishOnly /\ ProcessStep)
    /\ SF_allVars(PublishOnly /\ StatusBundle)
    /\ SF_allVars(PublishOnly /\ PublishBundle)
    /\ WF_allVars(EventsOnly /\ Events!Supervise) /\ WF_allVars(EventsOnly /\ Events!Tick)
    /\ WF_allVars(PipeOnly /\ Pipe!Reader)
    /\ \A r \in MCRequests :
         /\ WF_allVars(ReadsOnly /\ Reads!Turn(r)) /\ WF_allVars(ReadsOnly /\ Reads!Expire(r))
         /\ WF_allVars(ReadsOnly /\ Reads!Receive(r)) /\ WF_allVars(ReadsOnly /\ Reads!Break(r))
    /\ \A t \in MCThreads :
         /\ WF_allVars(SlotsOnly /\ Slots!WaiterStep(t)) /\ WF_allVars(SlotsOnly /\ Slots!TimePasses(t))
    /\ \A p \in MCProcs :
         /\ WF_allVars(SlotsOnly /\ Slots!ToldEnds(p)) /\ WF_allVars(SlotsOnly /\ Slots!GiveBack(p))
    /\ WF_allVars(SlotsOnly /\ Slots!CloseNext)
    /\ WF_allVars(ControlOnly /\ Control!Poll)
    /\ WF_allVars(ControlOnly /\ Control!ServeAny) /\ WF_allVars(ControlOnly /\ Control!AnswerAny)
    /\ WF_allVars(SessionOnly /\ Session!Coordinate)
    /\ WF_allVars(SessionOnly /\ Session!CheckedAny) /\ WF_allVars(SessionOnly /\ Session!Commit)

AllFairSpec == AllSpec /\ AllFairness

\* The behaviours of the publication alone.
PublishFairSpec == AllFairSpec /\ part = "publish"

-----------------------------------------------------------------------------
\* The processes come to their end whatever the engine or the worker does: a
\* supervision decides, a stop is obeyed, a read request is answered, a wait for
\* a slot ends, and after a shutdown so does every process.
EnginesEnd ==
    /\ part = "events" ~> part = "events" /\ Events!Decided
    /\ (part = "pipe" /\ Pipe!Stopping) ~> (part = "pipe" /\ ~Pipe!Stopping)
    /\ \A r \in MCRequests : part = "reads" ~> part = "reads" /\ Reads!Done(r)
    /\ \A t \in MCThreads :
         (part = "slots" /\ Slots!Waits(t)) ~> (part = "slots" /\ ~Slots!Waits(t))
    /\ \A p \in MCProcs :
         (part = "slots" /\ Slots!Doomed(p)) ~> (part = "slots" /\ Slots!Gone(p))

\* A window catches up: a job that has come to rest is shown so, and a review
\* window is not busy for ever, though requests fail or time out.
WindowsSettle ==
    /\ \A j \in MCJobs :
         (part = "control" /\ Control!Rests(j)) ~> (part = "control" /\ Control!ShowsRest(j))
    /\ (part = "session" /\ Session!Busy) ~> (part = "session" /\ ~Session!Busy)
=============================================================================
