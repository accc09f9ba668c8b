---------------------------- MODULE ProcessSlots ----------------------------
(***************************************************************************)
(* The host's engine processes (ProcessSupervisor, OwnedProcess and their    *)
(* leases in src-tauri/src/engine_process.rs): a bounded number of slots and *)
(* of threads waiting for one behind a mutex and a condition variable, slots *)
(* that come back only when the owner and every pipe of a process are let   *)
(* go, by different threads, and a shutdown at any moment.                  *)
(*                                                                          *)
(* A process has one pipe besides its owner.  Terminating a process works;   *)
(* the process may still take its time to end.                              *)
(***************************************************************************)
EXTENDS Integers, FiniteSets, FiniteSetsExt

CONSTANTS
    Threads,       \* threads of the host that ask for a process
    Procs,         \* processes; each is started once, which bounds the model
    max_processes,
    max_waiters

SlotsAssumption == max_processes \in Nat \ {0} /\ max_waiters \in Nat

VARIABLES
    active,         \* SupervisorState: slots taken,
    waiters,        \* threads registered as waiting,
    shutting_down,  \* and whether the host shuts down
    thread,        \* what each thread is doing
    due,           \* threads whose deadline has passed
    proc,          \* each process: "no", "runs", "ended"
    told,          \* processes that were terminated
    held,          \* who holds each process's lease: subset of "owner", "pipe"
    permit,        \* processes whose permit is not given back
    closing        \* processes the shutdown has found and not yet terminated

vars == <<active, waiters, shutting_down, thread, due, proc, told, held, permit, closing>>
processes == <<proc, told, held, permit, closing>>

Init ==
    /\ active = 0 /\ waiters = 0 /\ shutting_down = FALSE
    /\ thread = [t \in Threads |-> "idle"]
    /\ due = {}
    /\ proc = [p \in Procs |-> "no"]
    /\ told = {} /\ permit = {} /\ closing = {}
    /\ held = [p \in Procs |-> {}]

\* A thread in wait_timeout is asleep; one that was notified or whose time is
\* over is awake and has yet to take the lock.
Asleep == {t \in Threads : thread[t] = "asleep"}
Registered == {t \in Threads : thread[t] \in {"asleep", "awake", "expired"}}
Fresh == {p \in Procs : proc[p] = "no"}
Free == active < max_processes

AllAwake(f) == [t \in Threads |-> IF f[t] = "asleep" THEN "awake" ELSE f[t]]
Set(t, s) == thread' = [thread EXCEPT ![t] = s]

-----------------------------------------------------------------------------
(***************************************************************************)
(* spawn.  Everything between two waits is one step under the lock, the      *)
(* creation of the process and its registration included.                   *)
(***************************************************************************)
Unregister(t) == waiters' = waiters - (IF t \in Registered THEN 1 ELSE 0)

Enters(t) == thread[t] \in {"idle", "awake", "expired"}

Refused(t) ==
    /\ Enters(t) /\ shutting_down
    /\ Unregister(t)
    /\ Set(t, "refused")
    /\ UNCHANGED <<active, shutting_down, due, processes>>

MayTake(t) == Free /\ ~shutting_down

Take(t) ==
    /\ Enters(t) /\ MayTake(t)
    /\ Unregister(t)
    /\ \/ \E p \in Fresh :
            /\ proc' = [proc EXCEPT ![p] = "runs"]
            /\ held' = [held EXCEPT ![p] = {"owner", "pipe"}]
            /\ permit' = permit \cup {p}
            /\ active' = active + 1
            /\ Set(t, "idle")
            /\ due' = due \ {t}
            /\ UNCHANGED <<told, closing>>
       \* The process cannot be created: the slot is free again.
       \/ /\ thread' = [AllAwake(thread) EXCEPT ![t] = "refused"]
          /\ UNCHANGED <<active, due, processes>>
    /\ UNCHANGED shutting_down

Crowded(t) == t \notin Registered /\ waiters >= max_waiters

TurnedAway(t) ==
    /\ Enters(t) /\ ~shutting_down /\ ~Free /\ Crowded(t)
    /\ Set(t, "refused")
    /\ UNCHANGED <<active, waiters, shutting_down, due, processes>>

OutOfTime(t) == t \in due

Sleep(t) ==
    /\ Enters(t) /\ ~shutting_down /\ ~Free /\ ~Crowded(t) /\ ~OutOfTime(t)
    /\ waiters' = waiters + (IF t \in Registered THEN 0 ELSE 1)
    /\ Set(t, "asleep")
    /\ UNCHANGED <<active, shutting_down, due, processes>>

\* No slot and no time left; a thread whose wait ran out looks for a slot first.
GiveUp(t) ==
    /\ Enters(t) /\ ~shutting_down /\ ~Free /\ ~Crowded(t)
    /\ OutOfTime(t)
    /\ Unregister(t)
    /\ Set(t, "refused")
    /\ UNCHANGED <<active, shutting_down, due, processes>>

TimePasses(t) ==
    /\ t \notin due /\ t \in Registered
    /\ due' = due \cup {t}
    /\ thread' = [thread EXCEPT ![t] = IF @ = "asleep" THEN "expired" ELSE @]
    /\ UNCHANGED <<active, waiters, shutting_down, processes>>

\* The caller has its answer and may ask again.
AskAgain(t) ==
    /\ thread[t] = "refused" /\ ~shutting_down /\ Fresh # {}
    /\ Set(t, "idle") /\ due' = due \ {t}
    /\ UNCHANGED <<active, waiters, shutting_down, processes>>

-----------------------------------------------------------------------------
(***************************************************************************)
(* A process and its lease.                                                 *)
(***************************************************************************)
EndProcess(p) ==
    /\ proc[p] = "runs"
    /\ proc' = [proc EXCEPT ![p] = "ended"]
    /\ UNCHANGED <<active, waiters, shutting_down, thread, due, told, held, permit, closing>>

\* The owner is dropped: the process is told to end first.
DropOwner(p) ==
    /\ "owner" \in held[p]
    /\ told' = told \cup {p}
    /\ held' = [held EXCEPT ![p] = @ \ {"owner"}]
    /\ UNCHANGED <<active, waiters, shutting_down, thread, due, proc, permit, closing>>

\* The thread that reads or writes lets its pipe go, at its end or on an error.
DropPipe(p) ==
    /\ "pipe" \in held[p]
    /\ held' = [held EXCEPT ![p] = @ \ {"pipe"}]
    /\ UNCHANGED <<active, waiters, shutting_down, thread, due, proc, told, permit, closing>>

GivesBack(p) == p \in permit /\ held[p] = {}

Notified(f) == AllAwake(f)

\* The last holder drops the permit, which takes the lock for itself.
GiveBack(p) ==
    /\ GivesBack(p)
    /\ permit' = permit \ {p}
    /\ active' = active - 1
    /\ thread' = Notified(thread)
    /\ UNCHANGED <<waiters, shutting_down, due, proc, told, held, closing>>

-----------------------------------------------------------------------------

\* The registry holds a process as long as its lease does.
Found == {p \in Procs : held[p] # {}}

Shutdown ==
    /\ ~shutting_down
    /\ shutting_down' = TRUE
    /\ closing' = Found
    /\ thread' = Notified(thread)
    /\ UNCHANGED <<active, waiters, due, proc, told, held, permit>>

CloseNext ==
    /\ \E p \in closing : told' = told \cup {p} /\ closing' = closing \ {p}
    /\ UNCHANGED <<active, waiters, shutting_down, thread, due, proc, held, permit>>

ThreadStep(t) ==
    Refused(t) \/ Take(t) \/ TurnedAway(t) \/ Sleep(t) \/ GiveUp(t) \/ TimePasses(t) \/ AskAgain(t)
ProcStep(p) == EndProcess(p) \/ DropOwner(p) \/ DropPipe(p) \/ GiveBack(p)

Next ==
    \/ \E t \in Threads : ThreadStep(t)
    \/ \E p \in Procs : ProcStep(p)
    \/ Shutdown \/ CloseNext

Spec == Init /\ [][Next]_vars

(***************************************************************************)
(* Threads run, time passes, a terminated process ends and the shutdown goes *)
(* through its list.  Nobody needs to ask, to let go of a process or to shut *)
(* down.                                                                    *)
(***************************************************************************)
WaiterStep(t) == t \in Registered /\ (Refused(t) \/ Take(t) \/ Sleep(t) \/ GiveUp(t))
ToldEnds(p) == p \in told /\ EndProcess(p)

Fairness ==
    /\ \A t \in Threads : WF_vars(WaiterStep(t)) /\ WF_vars(TimePasses(t))
    /\ \A p \in Procs : WF_vars(ToldEnds(p)) /\ WF_vars(GiveBack(p))
    /\ WF_vars(CloseNext)

FairSpec == Spec /\ Fairness

-----------------------------------------------------------------------------
\* Types.
SlotsTypeOK ==
    /\ active \in 0..max_processes /\ waiters \in 0..max_waiters
    /\ shutting_down \in BOOLEAN
    /\ thread \in [Threads -> {"idle", "asleep", "awake", "expired", "refused"}]
    /\ due \subseteq Threads
    /\ proc \in [Procs -> {"no", "runs", "ended"}]
    /\ held \in [Procs -> SUBSET {"owner", "pipe"}]
    /\ told \subseteq Procs /\ permit \subseteq Procs /\ closing \subseteq Procs

(***************************************************************************)
(* The counters say what is the case: a slot for each lease not given back,  *)
(* a waiter for each registered thread, whoever drops, times out, fails or   *)
(* is shut down in whichever order.                                         *)
(***************************************************************************)
CountsAreExact ==
    /\ active = Cardinality(permit)
    /\ waiters = Cardinality(Registered)
    /\ \A p \in Procs : held[p] # {} => p \in permit

\* Nobody sleeps beside a free slot or through a shutdown.
NoSleepBesideFree == Asleep # {} => ~Free /\ ~shutting_down

(***************************************************************************)
(* Once the shutdown has begun no process is started, and one that somebody  *)
(* still holds is terminated or on the shutdown's list: none slips in        *)
(* between its creation and its registration.                                *)
(***************************************************************************)
NoneSlipsPast ==
    shutting_down => \A p \in Procs : held[p] # {} => p \in told \cup closing

\* After a shutdown every process that was held comes to its end.
Doomed(p) == shutting_down /\ held[p] # {}
Gone(p)   == proc[p] = "ended"
ShutdownEndsAll == \A p \in Procs : Doomed(p) ~> Gone(p)

\* Every wait ends, with a process or a refusal.
Waits(t) == t \in Registered
WaitEnds == \A t \in Threads : Waits(t) ~> ~Waits(t)

=============================================================================
