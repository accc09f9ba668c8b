----------------------------- MODULE EngineReads -----------------------------
(***************************************************************************)
(* The one engine process that serves frequent reads                       *)
(* (src/src-tauri/src/engine_read_service.rs, engine.py serve).            *)
(*                                                                         *)
(* Requests queue for admission up to their deadline; the one admitted     *)
(* uses the idle engine or starts one, and exchanges one line with it      *)
(* through a thread of its own.  A request that runs out of time, or meets *)
(* anything but one valid line, ends the process, so that an answer can    *)
(* never be taken for the answer to a later request.  The process answers  *)
(* each line in turn; it may hang, die, or write something else.           *)
(***************************************************************************)
EXTENDS Integers, Sequences, FiniteSets

CONSTANTS
    Requests,      \* the requests, each of which may start one process
    MaxWaiters,    \* how many may wait for admission
    Free           \* nobody, no process

ReadsAssumption == MaxWaiters \in Nat /\ Free \notin Requests

VARIABLES
    \* State of the service, under its lock.
    busy,      \* whether a request is admitted
    waiters,   \* how many wait
    stopped,   \* whether the service is shut down
    active,    \* the process of the admitted request
    session,   \* the idle process
    \* The threads.
    pc,        \* where each request is
    lease,     \* the process a request holds
    keep,      \* whether its process may be used again
    expired,   \* whether its deadline has passed
    woken,     \* whether a waiting request was notified
    exchange,  \* its I/O thread: what it does or has
    answer,    \* what the request returned
    closing,   \* the shutdown: how far it is, the processes it ends
    \* The processes, each named after the request that started it.
    proc,
    input,
    output

vars == <<busy, waiters, stopped, active, session, pc, lease, keep, expired, woken,
          exchange, answer, closing, proc, input, output>>
procVars == <<proc, input, output>>

Invalid == "invalid"     \* a line that is no valid response

Init ==
    /\ busy = FALSE /\ waiters = 0 /\ stopped = FALSE /\ active = Free /\ session = Free
    /\ pc = [r \in Requests |-> "new"]
    /\ lease = [r \in Requests |-> Free]
    /\ keep = [r \in Requests |-> FALSE]
    /\ expired = [r \in Requests |-> FALSE]
    /\ woken = [r \in Requests |-> FALSE]
    /\ exchange = [r \in Requests |-> "none"]
    /\ answer = [r \in Requests |-> "none"]
    /\ closing = [at |-> "open", set |-> {}]
    /\ proc = [p \in Requests |-> "none"]
    /\ input = [p \in Requests |-> Free]
    /\ output = [p \in Requests |-> <<>>]

Goto(r, l)  == pc' = [pc EXCEPT ![r] = l]
WakeAll     == woken' = [r \in Requests |-> pc[r] = "waiting" \/ woken[r]]
Kill(set)   == proc' = [p \in Requests |-> IF p \in set THEN "dead" ELSE proc[p]]
Alive(p)    == p # Free /\ proc[p] = "alive"

-----------------------------------------------------------------------------
(* Admission.                                                              *)

Expire(r) ==
    /\ ~expired[r] /\ pc[r] # "done"
    /\ expired' = [expired EXCEPT ![r] = TRUE]
    /\ UNCHANGED <<busy, waiters, stopped, active, session, pc, lease, keep, woken, exchange,
                   answer, closing, procVars>>

\* How many wait once r no longer does.
Without(r) == IF pc[r] = "waiting" THEN waiters - 1 ELSE waiters

\* Fault: one request too many may wait.
RoomMutant == waiters <= MaxWaiters
Room == waiters < MaxWaiters

\* One turn of a request at the lock; a waiting one turns when it is notified
\* or out of time.
Acquire(r) ==
    /\ pc[r] \in {"new", "waiting"}
    /\ pc[r] = "waiting" => woken[r] \/ expired[r]
    /\ woken' = [woken EXCEPT ![r] = FALSE]
    /\ \/ /\ stopped \/ expired[r]
          /\ waiters' = Without(r)
          /\ Goto(r, "done") /\ answer' = [answer EXCEPT ![r] = "error"]
          /\ UNCHANGED <<busy, session, lease>>
       \/ /\ ~stopped /\ ~expired[r] /\ ~busy
          /\ busy' = TRUE /\ waiters' = Without(r)
          /\ lease' = [lease EXCEPT ![r] = session] /\ session' = Free
          /\ Goto(r, "leased")
          /\ UNCHANGED answer
       \/ /\ ~stopped /\ ~expired[r] /\ busy
          /\ IF pc[r] = "waiting" THEN UNCHANGED <<waiters, pc, answer>>
             ELSE IF Room
             THEN waiters' = waiters + 1 /\ Goto(r, "waiting") /\ UNCHANGED answer
             ELSE Goto(r, "done") /\ answer' = [answer EXCEPT ![r] = "error"] /\ UNCHANGED waiters
          /\ UNCHANGED <<busy, session, lease>>
    /\ UNCHANGED <<stopped, active, keep, expired, exchange, closing, procVars>>

-----------------------------------------------------------------------------
(* The request that is admitted.                                           *)

\* An engine that died while idle is replaced; a start may fail.
Prepare(r) ==
    /\ pc[r] = "leased"
    /\ \/ /\ Alive(lease[r]) /\ Goto(r, "attach")
          /\ UNCHANGED <<lease, proc>>
       \/ /\ ~Alive(lease[r]) /\ ~expired[r]
          /\ lease' = [lease EXCEPT ![r] = r]
          /\ proc' = [proc EXCEPT ![r] = "alive"]
          /\ Goto(r, "attach")
       \/ /\ ~Alive(lease[r])
          /\ lease' = [lease EXCEPT ![r] = Free]
          /\ Goto(r, "leaving")
          /\ UNCHANGED proc
    /\ UNCHANGED <<busy, waiters, stopped, active, session, keep, expired, woken, exchange,
                   answer, closing, input, output>>

\* The process becomes known to a shutdown, unless there was one.
MayAttach == ~stopped

Attach(r) ==
    /\ pc[r] = "attach"
    /\ IF MayAttach
       THEN /\ active' = lease[r]
            /\ exchange' = [exchange EXCEPT ![r] = "writing"]
            /\ Goto(r, "awaiting")
       ELSE Goto(r, "leaving") /\ UNCHANGED <<active, exchange>>
    /\ UNCHANGED <<busy, waiters, stopped, session, lease, keep, expired, woken, answer,
                   closing, procVars>>

\* The I/O thread: the line goes out when the process takes it in, ...
Write(r) ==
    /\ exchange[r] = "writing" /\ Alive(lease[r])
    /\ input' = [input EXCEPT ![lease[r]] = r]
    /\ exchange' = [exchange EXCEPT ![r] = "reading"]
    /\ UNCHANGED <<busy, waiters, stopped, active, session, pc, lease, keep, expired, woken,
                   answer, closing, proc, output>>

\* What one valid line and nothing after it answers.
Frame(lines) == IF Len(lines) = 1 /\ Head(lines) # Invalid THEN Head(lines) ELSE "failed"

\* ... and a line comes back, ...
Receive(r) ==
    /\ exchange[r] = "reading" /\ output[lease[r]] # <<>>
    /\ exchange' = [exchange EXCEPT ![r] = Frame(output[lease[r]])]
    /\ output' = [output EXCEPT ![lease[r]] = Tail(@)]
    /\ UNCHANGED <<busy, waiters, stopped, active, session, pc, lease, keep, expired, woken,
                   answer, closing, proc, input>>

\* ... or the pipe breaks.
Break(r) ==
    /\ \/ exchange[r] = "writing"
       \/ exchange[r] = "reading" /\ output[lease[r]] = <<>>
    /\ ~Alive(lease[r])
    /\ exchange' = [exchange EXCEPT ![r] = "failed"]
    /\ UNCHANGED <<busy, waiters, stopped, active, session, pc, lease, keep, expired, woken,
                   answer, closing, procVars>>

Answered(r) == exchange[r] \in Requests

\* The processes ended when a request fails or runs out of time.
Ended(r) == {lease[r]}

Await(r) ==
    /\ pc[r] = "awaiting"
    /\ \/ Answered(r) /\ Goto(r, "joining") /\ UNCHANGED proc
       \/ (exchange[r] = "failed" \/ expired[r]) /\ Kill(Ended(r)) /\ Goto(r, "ending")
    /\ UNCHANGED <<busy, waiters, stopped, active, session, lease, keep, expired, woken,
                   exchange, answer, closing, input, output>>

\* The request waits for its I/O thread; only a whole answer keeps the process.
Join(r) ==
    /\ pc[r] \in {"joining", "ending"}
    /\ Answered(r) \/ exchange[r] = "failed"
    /\ IF pc[r] = "joining"
       THEN /\ keep' = [keep EXCEPT ![r] = Alive(lease[r])]
            /\ answer' = [answer EXCEPT ![r] = exchange[r]]
       ELSE UNCHANGED <<keep, answer>>
    /\ Goto(r, "leaving")
    /\ UNCHANGED <<busy, waiters, stopped, active, session, lease, expired, woken, exchange,
                   closing, procVars>>

\* The lease ends a process that may not be used again, ...
Dropped(r) == IF keep[r] THEN {} ELSE {lease[r]} \ {Free}

Drop(r) ==
    /\ pc[r] = "leaving"
    /\ Kill(Dropped(r))
    /\ answer' = [answer EXCEPT ![r] = IF @ = "none" THEN "error" ELSE @]
    /\ Goto(r, "releasing")
    /\ UNCHANGED <<busy, waiters, stopped, active, session, lease, keep, expired, woken,
                   exchange, closing, input, output>>

\* ... then gives back admission, and the process unless the service is shut down.
Release(r) ==
    /\ pc[r] = "releasing"
    /\ active' = Free /\ busy' = FALSE
    /\ session' = IF stopped THEN session ELSE IF keep[r] THEN lease[r] ELSE Free
    /\ lease' = [lease EXCEPT ![r] = IF stopped /\ keep[r] THEN @ ELSE Free]
    /\ WakeAll
    /\ Goto(r, IF stopped /\ keep[r] THEN "discarding" ELSE "done")
    /\ UNCHANGED <<waiters, stopped, keep, expired, exchange, answer, closing, procVars>>

Discard(r) ==
    /\ pc[r] = "discarding"
    /\ Kill({lease[r]})
    /\ lease' = [lease EXCEPT ![r] = Free]
    /\ Goto(r, "done")
    /\ UNCHANGED <<busy, waiters, stopped, active, session, keep, expired, woken, exchange,
                   answer, closing, input, output>>

-----------------------------------------------------------------------------
(* Shutdown, and the process.                                              *)

Shutdown ==
    /\ ~stopped /\ stopped' = TRUE
    /\ closing' = [at |-> "ending", set |-> {session, active} \ {Free}]
    /\ session' = Free
    /\ WakeAll
    /\ UNCHANGED <<busy, waiters, active, pc, lease, keep, expired, exchange, answer, procVars>>

EndShutdown ==
    /\ closing.at = "ending"
    /\ Kill(closing.set)
    /\ closing' = [at |-> "closed", set |-> {}]
    /\ UNCHANGED <<busy, waiters, stopped, active, session, pc, lease, keep, expired, woken,
                   exchange, answer, input, output>>

\* The engine answers the line it has; it should write one line, but may write
\* something else, or one line more.
Serve(p) ==
    /\ Alive(p) /\ input[p] # Free
    /\ \E lines \in {<<input[p]>>, <<Invalid>>, <<input[p], input[p]>>} :
          output' = [output EXCEPT ![p] = @ \o lines]
    /\ input' = [input EXCEPT ![p] = Free]
    /\ UNCHANGED <<busy, waiters, stopped, active, session, pc, lease, keep, expired, woken,
                   exchange, answer, closing, proc>>

Die(p) ==
    /\ Alive(p) /\ Kill({p})
    /\ UNCHANGED <<busy, waiters, stopped, active, session, pc, lease, keep, expired, woken,
                   exchange, answer, closing, input, output>>

Turn(r) ==
    \/ Acquire(r) \/ Prepare(r) \/ Attach(r) \/ Await(r) \/ Join(r)
    \/ Drop(r) \/ Release(r) \/ Discard(r)

Next ==
    \/ \E r \in Requests :
        Turn(r) \/ Expire(r) \/ Write(r) \/ Receive(r) \/ Break(r) \/ Serve(r) \/ Die(r)
    \/ Shutdown \/ EndShutdown

Spec == Init /\ [][Next]_vars

\* Threads run and time passes; nothing is assumed of the process.
Fairness ==
    \A r \in Requests :
        WF_vars(Turn(r)) /\ WF_vars(Expire(r)) /\ WF_vars(Receive(r)) /\ WF_vars(Break(r))

FairSpec == Spec /\ Fairness

-----------------------------------------------------------------------------
(* Properties.                                                             *)

\* The types of the state; no more requests wait than may.
ReadsTypeOK ==
    /\ waiters \in 0 .. MaxWaiters
    /\ \A r \in Requests :
        /\ pc[r] \in {"new", "waiting", "leased", "attach", "awaiting", "joining", "ending",
                      "leaving", "releasing", "discarding", "done"}
        /\ exchange[r] \in {"none", "writing", "reading", "failed"} \cup Requests
        /\ proc[r] \in {"none", "alive", "dead"}
        /\ pc[r] = "done" => answer[r] # "none"

\* A place in the queue is held by a request that waits, and admission by one
\* that works: whoever gives up, times out or is shut out gives it back, and no
\* second engine runs meanwhile.
AdmissionIsExact ==
    /\ waiters = Cardinality({r \in Requests : pc[r] = "waiting"})
    /\ LET admitted == {r \in Requests : pc[r] \notin {"new", "waiting", "discarding", "done"}}
       IN  Cardinality(admitted) = IF busy THEN 1 ELSE 0
    /\ Cardinality({p \in Requests : proc[p] = "alive"}) <= 1

\* A request returns the answer to its own line, never one left by another that
\* timed out, failed or was answered twice.
AnswerIsOwn == \A r \in Requests : answer[r] \in {"none", "error", r}

\* After a shutdown no request talks to a live engine, and once the requests are
\* over none is left.
ShutdownEndsEngines ==
    closing.at = "closed" =>
        /\ \A r \in Requests : pc[r] \in {"awaiting", "ending"} => ~Alive(lease[r])
        /\ (\A r \in Requests : pc[r] \in {"new", "done"}) => \A p \in Requests : ~Alive(p)

\* Every request ends, though the engine hangs while it is written to or read
\* from, and though others wait before it.
Done(r) == pc[r] = "done"
EveryRequestEnds == \A r \in Requests : <>Done(r)

=============================================================================
