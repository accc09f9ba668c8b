------------------------------ MODULE MCEngine ------------------------------
(***************************************************************************)
(* Small instances of the modules about processes and what they leave: the *)
(* events of a worker (WorkerEvents) and its commands (ControlPipe), the   *)
(* reads of the persistent engine (EngineReads), the slots of the          *)
(* processes (ProcessSlots), the cache of read pages (OcrCache), private   *)
(* directories (PrivateTemp), the tasks and page queue of a single         *)
(* document (TaskStore, PageQueue), and the cleanup of jobs that executes  *)
(* on through crashes (BatchCleanup).                                      *)
(*                                                                         *)
(* The instances share nothing, so one run checks them side by side:       *)
(* `part' is fixed in the initial state and says which of them a behaviour *)
(* is about; x1, x2, ... are its variables.                                *)
(***************************************************************************)
EXTENDS Integers, Sequences, TLC

CONSTANTS
    a1, a2, a3, b1, b2, c1, c2, t1, q1, d1, d2, e1, e2, Nothing, Nobody,
    Missing, NONE, GONE, SHARED, Unused

VARIABLES
    part,  \* the instance a behaviour is about
    x1, x2, x3, x4, x5, x6, x7, x8, x9, x10, x11, x12, x13, x14, x15, x16, x17, x18, x19, x20,
    x21, x22

vars == <<part, x1, x2, x3, x4, x5, x6, x7, x8, x9, x10, x11, x12, x13, x14, x15, x16, x17,
          x18, x19, x20, x21, x22>>

\* One page is twice as large as the others.
MCSize == [k \in {"wide", "a"} |-> IF k = "wide" THEN 2 ELSE 1]

\* Two units, two heartbeats and one fault.
Events == INSTANCE WorkerEvents
    WITH Units <- 2, None <- Nothing, Timeout <- 2, MaxBeats <- 2, Room <- 2, Faults <- 1, main <- x1,
         heart <- x2, ctl <- x3, held <- x4, stop <- x5, broken <- x6, jammed <- x7, seq <- x8,
         beats <- x9, faults <- x10, code <- x11, pipe <- x12, stdin <- x13, session <- x14,
         left <- x15, pipeFailed <- x16, eof <- x17, seen <- x18, reason <- x19,
         outcome <- x20, accepted <- x21, since <- x22

\* Six bytes, frames of at most three.
Pipe == INSTANCE ControlPipe
    WITH MaxFrame <- 3, Chunk <- 2, MaxBytes <- 6, written <- x1, read <- x2, open <- x3,
         buffer <- x4, stop <- x5, turn <- x6, late <- x7, applied <- x8, result <- x9

\* Three requests at one engine, one of which may wait.
Reads == INSTANCE EngineReads
    WITH Requests <- {a1, a2, a3}, MaxWaiters <- 1, Free <- Nobody, busy <- x1, waiters <- x2, stopped <- x3,
         active <- x4, session <- x5, pc <- x6, lease <- x7, keep <- x8, expired <- x9,
         woken <- x10, exchange <- x11, answer <- x12, closing <- x13, proc <- x14,
         input <- x15, output <- x16

\* Four threads ask for two slots, two of them may wait.
Slots == INSTANCE ProcessSlots
    WITH Threads <- {a1, a2, a3, c1}, Procs <- {b1, b2, c2}, max_processes <- 2,
         max_waiters <- 2, active <- x1, waiters <- x2, shutting_down <- x3, thread <- x4,
         due <- x5, proc <- x6, told <- x7, held <- x8, permit <- x9, closing <- x10

\* Two processes share a cache that holds one page, or one of double size.
Cache == INSTANCE OcrCache
    WITH Procs <- {b1, b2}, Keys <- {"wide", "a"}, Size <- MCSize, MaxBytes <- 2,
         MaxEntries <- 1, Retention <- 1, TempAge <- 0, MaxTime <- 2, MaxWrites <- 3,
         MaxFaults <- 1, now <- x1, files <- x2, orphans <- x3, work <- x4, got <- x5,
         writes <- x6, faults <- x7

\* Three processes with four private directories and one of somebody else.
Temp == INSTANCE PrivateTemp
    WITH Pids <- {a1, a2, a3}, Jobs <- {b1, b2, c1, c2}, Others <- 1, ScanLimit <- 3,
         MaxFailures <- 1, running <- x1, dirs <- x2, uses <- x3, cleaning <- x4, used <- x5,
         failures <- x6

\* One task with one source of two pages, two workers and two clients that retry.
Tasks == INSTANCE TaskStore
    WITH Tasks <- {t1}, Paths <- {q1}, Digests <- {d1, d2}, Numbers <- {1, 2},
         Workers <- {a1, a2}, Clients <- {b1, b2}, MaxRetries <- 2, tasks <- x1, sources <- x2,
         pages <- x3, disk <- x4, working <- x5, listed <- x6, live <- x7, failures <- x8

\* Three items of which two may be pending, one retry and two restarts.
Queue == INSTANCE PageQueue
    WITH MaxRetries <- 1, MaxPerRun <- 2, MaxPending <- 2, MaxItems <- 3, MaxCrashes <- 2,
         items <- x1, paused <- x2, cancelled <- x3, file <- x4, run <- x5, crashes <- x6,
         handled <- x7, asked <- x8

\* Two plans to delete jobs while a window still saves.
Cleanup == INSTANCE BatchCleanup
    WITH Jobs <- {c1, c2}, Windows <- {t1}, Statuses <- {"confirmed"}, Shapes <- {q1},
         MaxRun <- 1, MaxSaves <- 1, Plans <- {b1, b2}, Engines <- {e1}, Tokens <- {},
         job <- x1, context <- x2, rows <- x3, owners <- x4, window <- x5, count <- x6,
         last <- x7, plan <- x8, receipt <- x9, engine <- x10, preview <- x11, file <- x12,
         open <- x13, shown <- x14

\* Two processes execute two plans while two previews are open.
Previews == INSTANCE BatchCleanup
    WITH Jobs <- {d1}, Windows <- {t1}, Statuses <- {"confirmed"}, Shapes <- {q1}, MaxRun <- 2,
         MaxSaves <- 1, Plans <- {b1, b2}, Engines <- {e1, e2}, Tokens <- {c1, c2}, job <- x1,
         context <- x2, rows <- x3, owners <- x4, window <- x5, count <- x6, last <- x7,
         plan <- x8, receipt <- x9, engine <- x10, preview <- x11, file <- x12, open <- x13,
         shown <- x14

Init ==
    \/ /\ part = "events" /\ Events!Init
    \/ /\ part = "pipe" /\ Pipe!Init
       /\ x10 = Unused /\ x11 = Unused /\ x12 = Unused /\ x13 = Unused /\ x14 = Unused
       /\ x15 = Unused /\ x16 = Unused /\ x17 = Unused /\ x18 = Unused /\ x19 = Unused
       /\ x20 = Unused /\ x21 = Unused /\ x22 = Unused
    \/ /\ part = "reads" /\ Reads!Init
       /\ x17 = Unused /\ x18 = Unused /\ x19 = Unused /\ x20 = Unused /\ x21 = Unused
       /\ x22 = Unused
    \/ /\ part = "slots" /\ Slots!Init
       /\ x11 = Unused /\ x12 = Unused /\ x13 = Unused /\ x14 = Unused /\ x15 = Unused
       /\ x16 = Unused /\ x17 = Unused /\ x18 = Unused /\ x19 = Unused /\ x20 = Unused
       /\ x21 = Unused /\ x22 = Unused
    \/ /\ part = "cache" /\ Cache!Init
       /\ x8 = Unused /\ x9 = Unused /\ x10 = Unused /\ x11 = Unused /\ x12 = Unused
       /\ x13 = Unused /\ x14 = Unused /\ x15 = Unused /\ x16 = Unused /\ x17 = Unused
       /\ x18 = Unused /\ x19 = Unused /\ x20 = Unused /\ x21 = Unused /\ x22 = Unused
    \/ /\ part = "temp" /\ Temp!Init
       /\ x7 = Unused /\ x8 = Unused /\ x9 = Unused /\ x10 = Unused /\ x11 = Unused
       /\ x12 = Unused /\ x13 = Unused /\ x14 = Unused /\ x15 = Unused /\ x16 = Unused
       /\ x17 = Unused /\ x18 = Unused /\ x19 = Unused /\ x20 = Unused /\ x21 = Unused
       /\ x22 = Unused
    \/ /\ part = "tasks" /\ Tasks!TaskInit
       /\ x9 = Unused /\ x10 = Unused /\ x11 = Unused /\ x12 = Unused /\ x13 = Unused
       /\ x14 = Unused /\ x15 = Unused /\ x16 = Unused /\ x17 = Unused /\ x18 = Unused
       /\ x19 = Unused /\ x20 = Unused /\ x21 = Unused /\ x22 = Unused
    \/ /\ part = "queue" /\ Queue!Init
       /\ x9 = Unused /\ x10 = Unused /\ x11 = Unused /\ x12 = Unused /\ x13 = Unused
       /\ x14 = Unused /\ x15 = Unused /\ x16 = Unused /\ x17 = Unused /\ x18 = Unused
       /\ x19 = Unused /\ x20 = Unused /\ x21 = Unused /\ x22 = Unused
    \/ /\ part = "cleanup" /\ Cleanup!CleanupInit
       /\ x15 = Unused /\ x16 = Unused /\ x17 = Unused /\ x18 = Unused /\ x19 = Unused
       /\ x20 = Unused /\ x21 = Unused /\ x22 = Unused
    \/ /\ part = "previews" /\ Previews!CleanupInit
       /\ x15 = Unused /\ x16 = Unused /\ x17 = Unused /\ x18 = Unused /\ x19 = Unused
       /\ x20 = Unused /\ x21 = Unused /\ x22 = Unused

Next ==
    /\ UNCHANGED part
    /\ \/ /\ part = "events" /\ Events!Next
       \/ /\ part = "pipe" /\ Pipe!Next
          /\ UNCHANGED <<x10, x11, x12, x13, x14, x15, x16, x17, x18, x19, x20, x21, x22>>
       \/ /\ part = "reads" /\ Reads!Next
          /\ UNCHANGED <<x17, x18, x19, x20, x21, x22>>
       \/ /\ part = "slots" /\ Slots!Next
          /\ UNCHANGED <<x11, x12, x13, x14, x15, x16, x17, x18, x19, x20, x21, x22>>
       \/ /\ part = "cache" /\ Cache!Next
          /\ UNCHANGED <<x8, x9, x10, x11, x12, x13, x14, x15, x16, x17, x18, x19, x20, x21, x22>>
       \/ /\ part = "temp" /\ Temp!Next
          /\ UNCHANGED <<x7, x8, x9, x10, x11, x12, x13, x14, x15, x16, x17, x18, x19, x20, x21,
                        x22>>
       \/ /\ part = "tasks" /\ Tasks!Next
          /\ UNCHANGED <<x9, x10, x11, x12, x13, x14, x15, x16, x17, x18, x19, x20, x21, x22>>
       \/ /\ part = "queue" /\ Queue!Next
          /\ UNCHANGED <<x9, x10, x11, x12, x13, x14, x15, x16, x17, x18, x19, x20, x21, x22>>
       \/ /\ part = "cleanup" /\ Cleanup!CleanupNext
          /\ UNCHANGED <<x15, x16, x17, x18, x19, x20, x21, x22>>
       \/ /\ part = "previews" /\ Previews!CleanupNext
          /\ UNCHANGED <<x15, x16, x17, x18, x19, x20, x21, x22>>

Spec == Init /\ [][Next]_vars

-----------------------------------------------------------------------------
\* What a worker and its host tell each other is understood as it was meant,
\* whatever was cut, delayed or lost: no unit outlives its deadline, a run counts
\* as complete or failed only when it is, a command is applied as it was written.
\* And the engines stay within their limits: an answer goes to its own request, a
\* slot is counted exactly once, nobody sleeps beside a free one, and after a
\* shutdown no engine is left (WorkerEvents, ControlPipe, EngineReads, ProcessSlots).
EnginesAreHeard ==
    /\ part = "events" =>
         /\ Events!EventsTypeOK /\ Events!NoUnitOutstays
         /\ Events!CompleteIsComplete /\ Events!NoFalseFailure
    /\ part = "pipe" =>
         /\ Pipe!PipeTypeOK /\ Pipe!AppliedAsWritten
         /\ Pipe!BrokenForAReason /\ Pipe!AtMostOneLate
    /\ part = "reads" =>
         /\ Reads!ReadsTypeOK /\ Reads!AdmissionIsExact
         /\ Reads!AnswerIsOwn /\ Reads!ShutdownEndsEngines
    /\ part = "slots" =>
         /\ Slots!SlotsTypeOK /\ Slots!CountsAreExact
         /\ Slots!NoSleepBesideFree /\ Slots!NoneSlipsPast

\* What processes that may die keep on disk stays usable: the cache of read pages
\* keeps its capacity and returns what was stored, a private directory is removed
\* only when nobody uses it, a task resumes where it stopped, and a page is
\* worked on by one worker at a time and once per try (OcrCache, PrivateTemp,
\* TaskStore, PageQueue).  And what they remove they account for: a cleanup that
\* races saves, other cleanups, crashes and open previews records the rows it kept
\* or released, leaves no review without an owner, and a preview it reports as
\* swept is gone (BatchCleanup).
FilesSurvive ==
    /\ part = "cache" =>
         /\ Cache!CacheTypeOK /\ Cache!CapacityKept /\ Cache!HitIsTrue
         /\ Cache!ClearedIsGone /\ Cache!OnlySlowLoseTheirs
    /\ part = "temp" =>
         Temp!TempTypeOK /\ Temp!InUseIsKept /\ Temp!LeftoversGo
    /\ part = "tasks" =>
         /\ Tasks!TaskTypeOK /\ Tasks!ResumesWhereItStopped
         /\ Tasks!OneWorkerPerPage /\ Tasks!OneRetryPerFailure
    /\ part = "queue" =>
         Queue!QueueTypeOK /\ Queue!HandledOncePerTry
    /\ part = "cleanup" =>
         Cleanup!EverySaveCounts /\ Cleanup!ReviewsAreOwned /\ Cleanup!ReleaseIsRecorded
    /\ part = "previews" => Previews!CleanupTypeOK /\ Previews!SweptIsGone

\* What was promised holds from then on: once pause or cancel of a page queue has
\* returned, no further item is begun until it is resumed (PageQueue); a cleanup
\* deletes what its plan showed and is over once it is done (BatchCleanup).
PromisesHold ==
    [][/\ part = "queue" => Queue!PauseHolds
       /\ part = "cleanup" => Cleanup!DeletedAsShown
       /\ part = "previews" => Previews!DoneIsDone]_vars

Symmetry == Permutations({a1, a2, a3}) \cup Permutations({b1, b2})
=============================================================================
