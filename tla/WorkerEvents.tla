---------------------------- MODULE WorkerEvents ----------------------------
(***************************************************************************)
(* The event stream of one worker process (src/engine/batch_worker.py,     *)
(* batch_protocol.py) and the host's supervision of it (src/src-tauri/src/ *)
(* batch_protocol.rs, batch_service.rs).  In the worker, computation and   *)
(* heartbeat write to one stream while a third thread watches the control  *)
(* pipe; the host reads the stream, holds each unit of work to a deadline  *)
(* and decides how the worker ended.                                       *)
(*                                                                         *)
(* What the worker does in a unit is in BatchRun; here a unit ends, fails, *)
(* or never ends.  The pipe and the host's channel are one bounded queue.  *)
(***************************************************************************)
EXTENDS Integers, Sequences

CONSTANTS
    Units,    \* units of work of the run
    Timeout,  \* UNIT_TIMEOUT, in ticks
    MaxBeats, \* bound: heartbeats written
    Room,     \* bound: events between the two processes
    Faults,   \* bound: writes of the worker that fail
    None

EventsAssumption ==
    /\ Units \in Nat /\ Timeout \in Nat \ {0}
    /\ MaxBeats \in Nat /\ Room \in Nat \ {0} /\ Faults \in Nat

VARIABLES
    main,     \* the computing thread: where it is, in which unit
    heart,    \* the heartbeat thread: "wait" or "ended"
    ctl,      \* the control thread: "reading" or "ended"
    held,     \* per emitting thread, the event that passed check_health
    stop,     \* Event: the emitters are to end
    broken,   \* Event: the host's channel failed
    jammed,   \* EventWriter._broken
    seq,      \* EventWriter._seq
    beats,    \* used up bound
    faults,   \* used up bound
    code,     \* how the process ended: None, "ok", "failed", "killed"
    pipe,     \* events written and not read, Torn for a part of one
    stdin,    \* is the control pipe open
    session,  \* EventSession
    left,     \* ticks until the deadline
    pipeFailed, \* set by a reader that found the stream unusable
    eof,      \* the stream ended
    seen,     \* the monitor has observed the exit
    reason,   \* why the loop ended, None while it runs
    outcome,  \* MonitorOutcome, None before
    accepted, \* history: the types of the events accepted
    since     \* history: ticks since a unit began or ended, as accepted

worker == <<main, heart, ctl, held, stop, broken, jammed, seq, beats, faults>>
monitor == <<session, left, pipeFailed, eof, seen, reason, outcome, accepted, since>>
vars == <<worker, code, pipe, stdin, monitor>>

Threads == {"main", "heart"}
Running == code = None
Event(n, type, unit) == [seq |-> n, type |-> type, unit |-> unit]
Torn == Event(0, "torn", 0)

Init ==
    /\ main = [at |-> "start", unit |-> 1]
    /\ heart = "wait" /\ ctl = "reading"
    /\ held = [t \in Threads |-> None]
    /\ stop = FALSE /\ broken = FALSE /\ jammed = FALSE
    /\ seq = 0 /\ beats = 0 /\ faults = 0
    /\ code = None /\ pipe = <<>> /\ stdin = TRUE
    /\ session = [next |-> 1, unit |-> None, completed |-> FALSE]
    /\ left = Timeout
    /\ pipeFailed = FALSE /\ eof = FALSE /\ seen = FALSE
    /\ reason = None /\ outcome = None
    /\ accepted = <<>> /\ since = 0

-----------------------------------------------------------------------------
(* The worker. *)

\* What the computing thread has to say next.
Say ==
    CASE main.at = "start" /\ main.unit <= Units -> "unit_start"
      [] main.at = "end" -> "unit_end"
      [] main.at = "final" -> "completed"
      [] OTHER -> None

\* emit, first half: a thread that has something to say looks at `broken`.
MainCheck ==
    /\ Running /\ held["main"] = None /\ Say # None /\ ~broken
    /\ held' = [held EXCEPT !["main"] = Say]
    /\ UNCHANGED <<main, heart, ctl, stop, broken, jammed, seq, beats, faults, code, pipe, stdin, monitor>>

BeatCheck ==
    /\ Running /\ heart = "wait" /\ held["heart"] = None /\ ~stop
    /\ \/ /\ ~broken /\ beats < MaxBeats
          /\ held' = [held EXCEPT !["heart"] = "heartbeat"]
          /\ beats' = beats + 1
          /\ UNCHANGED heart
       \/ /\ broken /\ heart' = "ended"
          /\ UNCHANGED <<held, beats>>
    /\ UNCHANGED <<main, ctl, stop, broken, jammed, seq, faults, code, pipe, stdin, monitor>>

\* After the event, or with the failure of it.
Advance(t, written) ==
    /\ held' = [held EXCEPT ![t] = None]
    /\ IF t = "heart"
         THEN /\ heart' = IF written THEN "wait" ELSE "ended"
              /\ UNCHANGED main
         ELSE /\ main' = CASE ~written -> [main EXCEPT !.at = "giveup"]
                           [] main.at = "start" -> [main EXCEPT !.at = "busy"]
                           [] main.at = "end" -> [at |-> "start", unit |-> main.unit + 1]
                           [] main.at = "final" -> [main EXCEPT !.at = "exit"]
              /\ UNCHANGED heart

\* emit, second half: EventWriter.emit under its lock.
Write(t) ==
    /\ Running /\ held[t] # None
    /\ \/ /\ ~jammed /\ Len(pipe) < Room /\ outcome = None
          /\ pipe' = Append(pipe, Event(seq + 1, held[t], main.unit))
          /\ seq' = seq + 1
          /\ Advance(t, TRUE)
          /\ UNCHANGED <<broken, jammed, faults>>
       \/ /\ ~jammed /\ faults < Faults /\ outcome = None
          /\ \/ UNCHANGED pipe
             \/ /\ Len(pipe) < Room
                /\ pipe' \in {Append(pipe, Torn), Append(pipe, Event(seq + 1, held[t], main.unit))}
          /\ faults' = faults + 1
          /\ jammed' = TRUE /\ broken' = TRUE
          /\ Advance(t, FALSE)
          /\ UNCHANGED seq
       \/ /\ jammed \/ outcome # None
          /\ jammed' = TRUE /\ broken' = TRUE
          /\ Advance(t, FALSE)
          /\ UNCHANGED <<pipe, seq, faults>>
    /\ UNCHANGED <<ctl, stop, beats, code, stdin, monitor>>

\* A unit of work ends, or fails; unit_end is said either way.
Work ==
    /\ Running /\ main.at = "busy"
    /\ main' = [main EXCEPT !.at = "end"]
    /\ UNCHANGED <<heart, ctl, held, stop, broken, jammed, seq, beats, faults, code, pipe, stdin, monitor>>

\* The run is over, by its last unit, by an error or for want of a channel.
Over ==
    \/ main.at = "giveup"
    \/ /\ Say # None /\ held["main"] = None
       /\ broken
    \/ /\ main.at = "start"
       /\ main.unit > Units

Finish ==
    /\ Running /\ ~stop /\ Over
    /\ stop' = TRUE
    /\ main' = [main EXCEPT !.at = IF main.at = "start" /\ main.unit > Units THEN "join" ELSE "giveup"]
    /\ UNCHANGED <<heart, ctl, held, broken, jammed, seq, beats, faults, code, pipe, stdin, monitor>>

HeartEnds ==
    /\ Running /\ heart = "wait" /\ held["heart"] = None /\ stop
    /\ heart' = "ended"
    /\ UNCHANGED <<main, ctl, held, stop, broken, jammed, seq, beats, faults, code, pipe, stdin, monitor>>

\* The control thread ends when it is told to or finds its pipe closed.
ControlEnds ==
    /\ Running /\ ctl = "reading"
    /\ stop \/ ~stdin
    /\ ctl' = "ended"
    /\ broken' = (broken \/ ~stop)
    /\ UNCHANGED <<main, heart, held, stop, jammed, seq, beats, faults, code, pipe, stdin, monitor>>

Joined == heart = "ended" /\ ctl = "ended"

Join ==
    /\ Running /\ main.at = "join" /\ Joined
    /\ main' = [main EXCEPT !.at = "final"]
    /\ UNCHANGED <<heart, ctl, held, stop, broken, jammed, seq, beats, faults, code, pipe, stdin, monitor>>

\* The process ends, and with it its end of the pipe.
Exit ==
    /\ Running
    /\ \/ /\ main.at = "exit"
          /\ code' = "ok"
       \/ /\ \/ main.at = "giveup"
             \/ /\ main.at = "final" /\ held["main"] = None
                /\ broken
          /\ stop /\ Joined
          /\ code' = "failed"
    /\ UNCHANGED <<worker, pipe, stdin, monitor>>

\* It dies of its own, perhaps in the middle of a write.
Die ==
    /\ Running /\ faults < Faults
    /\ faults' = faults + 1
    /\ code' = "failed"
    /\ pipe' \in {pipe} \cup (IF Len(pipe) < Room THEN {Append(pipe, Torn)} ELSE {})
    /\ UNCHANGED <<main, heart, ctl, held, stop, broken, jammed, seq, beats, stdin, monitor>>

-----------------------------------------------------------------------------
(* The host. *)

Loops == reason = None /\ outcome = None /\ ~(seen /\ eof)

\* Only the beginning or the end of a unit moves the deadline.
MovesDeadline(type) == type \in {"unit_start", "unit_end"}

Acceptable(e) ==
    /\ ~session.completed /\ e.seq = session.next
    /\ e.type = "unit_start" => session.unit = None
    /\ e.type = "unit_end" => session.unit = e.unit
    /\ e.type = "completed" => session.unit = None

\* The type of an accepted event moves the session on.

NextSession(e) ==
    [next |-> session.next + 1,
     unit |-> CASE e.type = "unit_start" -> e.unit
                [] e.type = "unit_end" -> None
                [] OTHER -> session.unit,
     completed |-> e.type = "completed"]

Accept(e) ==
    /\ session' = NextSession(e)
    /\ left' = IF MovesDeadline(e.type) THEN Timeout ELSE left
    /\ since' = IF e.type \in {"unit_start", "unit_end"} THEN 0 ELSE since
    /\ accepted' = Append(accepted, e.type)
    /\ UNCHANGED reason

\* One turn of the loop that finds a message of the reader's.
Receive ==
    /\ Loops /\ pipe # <<>> /\ ~eof
    /\ pipe' = Tail(pipe)
    /\ LET e == Head(pipe)
       IN IF e = Torn
            THEN /\ reason' = "protocol" /\ pipeFailed' = TRUE
                 /\ UNCHANGED <<session, left, since, accepted>>
            ELSE /\ UNCHANGED pipeFailed
                 /\ IF left = 0 \/ ~Acceptable(e)
                      THEN /\ reason' = IF left = 0 THEN "timeout" ELSE "protocol"
                           /\ UNCHANGED <<session, left, since, accepted>>
                      ELSE Accept(e)
    /\ UNCHANGED <<worker, code, stdin, eof, seen, outcome>>

ReceiveEnd ==
    /\ Loops /\ pipe = <<>> /\ ~Running /\ ~eof
    /\ eof' = TRUE
    /\ UNCHANGED <<worker, code, pipe, stdin, session, left, pipeFailed, seen, reason, outcome, accepted, since>>

\* The worker says too much on its error stream.
Noise ==
    /\ outcome = None /\ ~pipeFailed /\ faults < Faults
    /\ faults' = faults + 1
    /\ pipeFailed' = TRUE
    /\ reason' \in (IF Loops THEN {"protocol", None} ELSE {reason})
    /\ UNCHANGED <<main, heart, ctl, held, stop, broken, jammed, seq, beats, code, pipe, stdin, session, left, eof, seen, outcome, accepted, since>>

\* Fault: the deadline is looked at only when an event arrives.
DueMutant == left = 0 /\ pipe # <<>>

Due == left = 0

TimesOut ==
    /\ Loops /\ Due
    /\ reason' = "timeout"
    /\ UNCHANGED <<worker, code, pipe, stdin, session, left, pipeFailed, eof, seen, outcome, accepted, since>>

\* A cancellation whose grace is over, or the end of the application.
Interrupt ==
    /\ Loops
    /\ reason' \in {"cancelled", "closing"}
    /\ UNCHANGED <<worker, code, pipe, stdin, session, left, pipeFailed, eof, seen, outcome, accepted, since>>

SeeExit ==
    /\ Loops /\ ~Running /\ ~seen
    /\ seen' = TRUE
    /\ UNCHANGED <<worker, code, pipe, stdin, session, left, pipeFailed, eof, reason, outcome, accepted, since>>

Drained == seen /\ eof

Succeeded(ended) == session.completed /\ ended = "ok"

\* After the loop: the whole tree is ended, the pipes are closed, the readers
\* joined; a process that does not end in time leaves the stop unconfirmed.
Conclude ==
    /\ outcome = None
    /\ reason # None \/ Drained
    /\ LET ended == IF Running THEN "killed" ELSE code
           why == IF reason # None THEN reason ELSE IF pipeFailed THEN "protocol" ELSE None
           complete == why = None /\ Succeeded(ended)
           report(stopped) == [complete |-> complete, stopped |-> stopped,
                               reason |-> IF why = None /\ ~complete THEN "process" ELSE why]
       IN \/ /\ outcome' = report(TRUE)
             /\ code' = ended
          \/ /\ Running /\ outcome' = report(FALSE)
             /\ UNCHANGED code
    /\ pipe' = <<>> /\ stdin' = FALSE
    /\ UNCHANGED <<worker, session, left, pipeFailed, eof, seen, reason, accepted, since>>

\* Time passes while the monitor loops; it looks at the deadline on every turn.
Tick ==
    /\ Loops /\ left > 0
    /\ left' = left - 1 /\ since' = since + 1
    /\ UNCHANGED <<worker, code, pipe, stdin, session, pipeFailed, eof, seen, reason, outcome, accepted>>

WorkerNext ==
    \/ MainCheck \/ BeatCheck \/ Work \/ Finish \/ HeartEnds \/ ControlEnds \/ Join \/ Exit \/ Die
    \/ \E t \in Threads : Write(t)

\* Turns of the monitor's loop, and what follows it.
Supervise == Receive \/ ReceiveEnd \/ SeeExit \/ TimesOut \/ Conclude

Next == WorkerNext \/ Supervise \/ Noise \/ Interrupt \/ Tick

Spec == Init /\ [][Next]_vars

\* The monitor's thread runs and time passes; of the worker nothing is assumed.
FairSpec == Spec /\ WF_vars(Supervise) /\ WF_vars(Tick)

-----------------------------------------------------------------------------
\* Types, and that the session agrees with the events accepted so far.
EventsTypeOK ==
    /\ main.unit \in 1..(Units + 1)
    /\ Len(pipe) <= Room
    /\ left \in 0..Timeout
    /\ session.next = Len(accepted) + 1
    /\ session.unit \in 1..Units \cup {None}
    /\ session.completed <=> (accepted # <<>> /\ accepted[Len(accepted)] = "completed")
    /\ broken \in BOOLEAN
    /\ jammed => broken

\* A unit that makes no progress is ended: however many heartbeats arrive, the
\* loop never waits longer than the timeout for a unit to begin or end.
NoUnitOutstays == outcome = None => since <= Timeout

\* "Complete" is reported only of a worker that ended well after its last unit
\* and whose whole stream was read, the final event being its last.
CompleteIsComplete ==
    outcome # None /\ outcome.complete =>
      /\ code = "ok"
      /\ Len(accepted) = seq /\ accepted[seq] = "completed"
      /\ main.unit = Units + 1 /\ main.at = "exit"

\* A worker is said to have failed only when it did, or a write or a pipe did:
\* no order of threads, events and exit makes a good run look like a failure.
NoFalseFailure ==
    outcome # None /\ outcome.reason \in {"process", "protocol"} => faults > 0

\* Whatever the worker does, its supervision comes to a decision.
Decided == outcome # None
MonitorEnds == <>Decided
=============================================================================
