------------------------------ MODULE BatchRun ------------------------------
(***************************************************************************)
(* One desktop application running batches: the host's BatchService        *)
(* (src/src-tauri/src/batch_service.rs), the worker processes it spawns    *)
(* (src/engine/batch_worker.py and batch_processor.py), the worker lease   *)
(* they share, and the batch database of module BatchStore, every          *)
(* transaction of which is taken from there unchanged.                     *)
(*                                                                         *)
(* An application run is named by its owner nonce.  It has at most one     *)
(* worker process at a time, so proc is indexed by nonce; a process may    *)
(* outlive the application that spawned it.  The stages of a process are   *)
(* the places of BatchProcessor where it reads the job (_checkpoint) or    *)
(* writes it; consecutive checkpoints with no write between them are one.  *)
(* A page's computation, the file a source names and the outcome of every  *)
(* engine call (done, refused, or done with the answer lost) are chosen    *)
(* freely.  The two-second cancel grace and the unit deadlines only say    *)
(* how soon the host kills a process: here it may at any time.             *)
(***************************************************************************)
EXTENDS BatchStore

ASSUME OrderAssumption == Sources \subseteq Nat /\ PageNos \subseteq Nat

ASSUME HostAssumption == "host" \notin Owners \cup {NONE} /\ NONE \notin RowStates

VARIABLES
    host,   \* the running application: its nonce, and whether it has activated
    slot,   \* BatchService.active: the run the host has reserved or supervises
    proc,   \* the worker process of each nonce
    lease   \* holder of batch-worker.lock: a nonce's process, "host" or NONE

hostVars == <<host, slot>>
vars == <<storeVars, host, slot, proc, lease>>

NoHost == [owner |-> NONE, initialized |-> FALSE]
NoProc == [stage |-> "none", job |-> NONE, gen |-> 0, seen |-> NONE,
           todo |-> {}, valid |-> {}, failure |-> "none",
           pending |-> {}, page |-> NONE, attempt |-> 0]

\* Stages at which the process is about to write, having first to checkpoint.
CheckedStages ==
    {"begin", "validating", "start_running", "computing", "source_failed", "claiming",
     "verifying", "blocking", "recheck"}
\* Stages that settle a claimed page without a checkpoint.
PageStages == {"page", "refused"}
EndStages == {"finished", "failed"}
LeasedStages == CheckedStages \cup PageStages \cup EndStages
Stages == LeasedStages \cup {"none", "spawned", "exited"}

First(S) == CHOOSE x \in S : \A y \in S : x <= y

RunInit ==
    /\ Init
    /\ host = NoHost
    /\ slot = NONE
    /\ proc = [o \in Owners |-> NoProc]
    /\ lease = NONE

(***************************************************************************)
(* The worker process                                                      *)
(***************************************************************************)
Row(o) == job[proc[o].job]

\* BatchProcessor._job: the process looks at the job it was spawned for.
Disowned(o) == Row(o).gen # proc[o].gen \/ Row(o).owner # o

StopStates == {"paused", "cancel_requested", "cancelled", "interrupted"}

\* Moves of a process that touch nothing but itself.
Alone == UNCHANGED <<storeVars, host, slot, lease>>
Becomes(o, new) == proc' = [proc EXCEPT ![o] = new]
GoesTo(o, stage) == Becomes(o, [proc[o] EXCEPT !.stage = stage, !.seen = NONE])
\* Leaving the loops over sources and pages for good.
Leaves(o, stage) ==
    Becomes(o, [NoProc EXCEPT !.stage = stage, !.job = proc[o].job, !.gen = proc[o].gen])

\* worker_lease: the lock file admits one holder.
\* Fault: only a lease the host holds is respected.
LeaseIsFreeMutant == lease # "host"
LeaseIsFree == lease = NONE

\* The process takes the lease before it opens the database, or gives up.
TakeLease(o) ==
    /\ proc[o].stage = "spawned"
    /\ IF LeaseIsFree
       THEN lease' = o /\ GoesTo(o, "begin")
       ELSE UNCHANGED lease /\ Leaves(o, "exited")
    /\ UNCHANGED <<storeVars, host, slot>>

\* BatchConflict: run() makes one more checkpoint; a second one is fatal.
RaisesConflict(o) ==
    Leaves(o, IF proc[o].stage = "recheck" THEN "failed" ELSE "recheck")

\* _checkpoint reads the job: a stop that is durable ends the run, a lost
\* ownership is a conflict, and otherwise the state read here is what the
\* next write expects.
Checkpoint(o) ==
    /\ proc[o].stage \in CheckedStages /\ proc[o].seen = NONE
    /\ CASE Disowned(o) -> RaisesConflict(o)
         [] ~Disowned(o) /\ (Row(o).state \in StopStates \/ Row(o).deleting) -> Leaves(o, "finished")
         [] OTHER ->
              IF proc[o].stage = "recheck" /\ Row(o).state # "pause_requested"
              THEN Leaves(o, "failed")
              ELSE Becomes(o, [proc[o] EXCEPT !.seen = Row(o).state])
    /\ Alone

\* The checkpoint found a pause request: it is made durable, and the run ends.
SettlePause(o) ==
    /\ proc[o].seen = "pause_requested"
    /\ Transition(proc[o].job, proc[o].gen, o, "pause_requested", "paused")
    /\ Leaves(o, "finished")
    /\ UNCHANGED <<host, slot, lease>>

\* The process is about to write at this stage: its checkpoint has passed.
At(o, stage) ==
    /\ proc[o].stage = stage
    /\ proc[o].seen \notin {NONE, "pause_requested"}

Writing(o) == proc[o].stage \in PageStages \/ proc[o].seen # NONE

\* Any write may lose: the job moved since the checkpoint, or the database
\* stayed busy; the transaction raises BatchConflict and leaves no trace.
LoseRace(o) ==
    /\ Writing(o)
    /\ RaisesConflict(o)
    /\ Alone

\* A write that would grow the database past its quota: the job is blocked
\* (a page that cannot be stored is first settled as failed).
ExceedQuota(o) ==
    /\ \/ \E stage \in {"validating", "claiming", "verifying"} : At(o, stage)
       \/ proc[o].stage = "page"
    /\ IF proc[o].stage = "page" THEN GoesTo(o, "refused") ELSE Leaves(o, "blocking")
    /\ Alone

\* run: only a job that start_job has just made "validating" is computed; one
\* that was made for another version of the engine is blocked.
BeginRun(o) ==
    /\ At(o, "begin")
    /\ \/ /\ proc[o].seen # "validating"
          /\ RaisesConflict(o)
       \/ /\ proc[o].seen = "validating"
          /\ \/ Becomes(o, [proc[o] EXCEPT !.stage = "validating", !.seen = NONE, !.todo = Sources])
             \/ Leaves(o, "blocking")
    /\ Alone

\* _validate_sources: the first source left opens with some digest (with the
\* registered one, when it has one) and is registered ...
ValidateSource(o) ==
    LET s == First(proc[o].todo) IN
    /\ At(o, "validating") /\ proc[o].todo # {}
    /\ \E d \in Digests :
        \/ RegisterSource(proc[o].job, proc[o].gen, o, s, d)
        \/ ReregisterSource(proc[o].job, proc[o].gen, o, s, d)
    /\ Becomes(o, [proc[o] EXCEPT !.seen = NONE, !.todo = @ \ {s}, !.valid = @ \cup {s}])
    /\ UNCHANGED <<host, slot, lease>>

\* ... or cannot be opened or has changed, and is recorded as failed.  Only
\* the first failure is kept; a changed file is always blocked.
RejectSource(o) ==
    LET s == First(proc[o].todo) IN
    /\ At(o, "validating") /\ proc[o].todo # {}
    /\ \E changed \in BOOLEAN, outcome \in {"failed", "blocked"} :
        /\ changed => outcome = "blocked"
        /\ FailSource(proc[o].job, proc[o].gen, o, s, outcome)
        /\ Becomes(o, [proc[o] EXCEPT !.seen = NONE, !.todo = @ \ {s},
             !.failure = CASE @ # "none" -> @ [] changed -> "changed" [] OTHER -> "failed"])
    /\ UNCHANGED <<host, slot, lease>>

\* A resumed run, or a changed file, must validate every source before any
\* saved page is trusted; a first run goes on with the valid sources.
EndValidation(o) ==
    /\ proc[o].stage = "validating" /\ proc[o].todo = {}
    /\ proc[o].seen = NONE
    /\ IF proc[o].failure = "changed" \/ (proc[o].failure = "failed" /\ proc[o].gen > 1)
       THEN Leaves(o, "blocking") ELSE GoesTo(o, "start_running")
    /\ Alone

StartRunning(o) ==
    /\ At(o, "start_running")
    /\ Transition(proc[o].job, proc[o].gen, o, proc[o].seen, "running")
    /\ Becomes(o, [proc[o] EXCEPT !.stage = "computing", !.seen = NONE, !.todo = Sources])
    /\ UNCHANGED <<host, slot, lease>>

\* _compute_source: take the next source; its pending pages are listed once.
OpenSource(o) ==
    LET s == First(proc[o].todo)
        pending == {p \in PageNos :
            page[proc[o].job][<<s, p>>].state \in {"pending", "failed"}}
    IN
    /\ At(o, "computing") /\ proc[o].todo # {}
    /\ \/ /\ s \notin proc[o].valid \/ pending = {}
          /\ Becomes(o, [proc[o] EXCEPT !.seen = NONE, !.todo = @ \ {s}])
       \/ /\ s \in proc[o].valid /\ pending # {}
          /\ \/ Becomes(o, [proc[o] EXCEPT !.stage = "claiming", !.seen = NONE, !.pending = pending])
             \/ GoesTo(o, "source_failed")
    /\ Alone

\* _source_failed while computing: an unreadable source is skipped, an OCR or
\* budget failure blocks the job.
SkipSource(o) ==
    LET s == First(proc[o].todo) IN
    /\ At(o, "source_failed")
    /\ \E outcome \in {"failed", "blocked"} :
        /\ FailSource(proc[o].job, proc[o].gen, o, s, outcome)
        /\ \/ Becomes(o, [proc[o] EXCEPT !.stage = "computing", !.seen = NONE,
                                         !.todo = @ \ {s}, !.pending = {}])
           \/ outcome = "blocked" /\ Leaves(o, "blocking")
    /\ UNCHANGED <<host, slot, lease>>

ClaimPage(o) ==
    LET k == <<First(proc[o].todo), First(proc[o].pending)>> IN
    /\ At(o, "claiming") /\ proc[o].pending # {}
    /\ BeginPage(proc[o].job, proc[o].gen, o, k)
    /\ Becomes(o, [proc[o] EXCEPT !.stage = "page", !.seen = NONE, !.page = k,
                                  !.attempt = page[proc[o].job][k].attempt + 1])
    /\ UNCHANGED <<host, slot, lease>>

\* Every pending page of the source has been tried: on to the next source.
CloseSource(o) ==
    /\ proc[o].stage = "claiming" /\ proc[o].pending = {}
    /\ proc[o].seen = NONE
    /\ Becomes(o, [proc[o] EXCEPT !.stage = "computing", !.todo = @ \ {First(@)}])
    /\ Alone

NextPage(o) ==
    Becomes(o, [proc[o] EXCEPT !.stage = "claiming", !.pending = @ \ {proc[o].page[2]},
                               !.page = NONE, !.attempt = 0])

Budget(o, work) == processed[proc[o].job][proc[o].page[1]] + work

\* The computed page becomes durable, unless the job was lost meanwhile.
SavePage(o) ==
    /\ proc[o].stage = "page"
    /\ \E d \in Digests :
        CommitPage(proc[o].job, proc[o].gen, o, proc[o].page, proc[o].attempt, d, Budget(o, 1))
    /\ NextPage(o)
    /\ UNCHANGED <<host, slot, lease>>

\* The computation failed: the page stays retryable and the run goes on, or,
\* for an OCR or budget failure or a full database, the job is blocked.
GiveUpPage(o) ==
    /\ proc[o].stage \in PageStages
    /\ \E work \in {0, 1} :
        FailPage(proc[o].job, proc[o].gen, o, proc[o].page, proc[o].attempt, Budget(o, work))
    /\ \/ proc[o].stage = "page" /\ NextPage(o)
       \/ Leaves(o, "blocking")
    /\ UNCHANGED <<host, slot, lease>>

\* An SQLite error inside a page's transaction is not a BatchStoreError: it is
\* reported as a failure of the source and the page stays claimed.
StorageError(o) ==
    /\ proc[o].stage = "page" \/ At(o, "claiming")
    /\ GoesTo(o, "source_failed")
    /\ Alone

\* Every source has been computed: the verdict over all of them.
Conclude(o) ==
    LET j == proc[o].job
        incomplete ==
            \/ \E s \in Sources : source[j][s].state \in {"failed", "blocked"}
            \/ \E k \in Pages : page[j][k].state \in {"pending", "processing", "failed"}
    IN
    /\ At(o, "computing") /\ proc[o].todo = {}
    /\ IF incomplete
       THEN /\ Transition(j, proc[o].gen, o, proc[o].seen, "partial_failed")
            /\ Leaves(o, "finished")
       ELSE /\ Transition(j, proc[o].gen, o, proc[o].seen, "finalizing")
            /\ Becomes(o, [proc[o] EXCEPT !.stage = "verifying", !.seen = NONE, !.todo = Sources])
    /\ UNCHANGED <<host, slot, lease>>

\* _finalize: open every source once more and compare its digest ...
VerifyNext(o) ==
    LET s == First(proc[o].todo) IN
    /\ At(o, "verifying") /\ proc[o].todo # {}
    /\ \E d \in Digests : VerifySource(proc[o].job, proc[o].gen, o, s, d)
    /\ Becomes(o, [proc[o] EXCEPT !.seen = NONE, !.todo = @ \ {s}])
    /\ UNCHANGED <<host, slot, lease>>

\* ... any failure blocks the job ...
VerifyFails(o) ==
    LET s == First(proc[o].todo) IN
    /\ At(o, "verifying") /\ proc[o].todo # {}
    /\ \E outcome \in {"failed", "blocked"} :
        FailSource(proc[o].job, proc[o].gen, o, s, outcome)
    /\ Leaves(o, "blocking")
    /\ UNCHANGED <<host, slot, lease>>

\* ... and once all are verified the snapshot is assembled and published.
Publish(o) ==
    /\ At(o, "verifying") /\ proc[o].todo = {}
    /\ PublishSnapshot(proc[o].job, proc[o].gen, o)
    /\ Leaves(o, "finished")
    /\ UNCHANGED <<host, slot, lease>>

BlockJob(o) ==
    /\ At(o, "blocking")
    /\ Transition(proc[o].job, proc[o].gen, o, proc[o].seen, "blocked")
    /\ Leaves(o, "finished")
    /\ UNCHANGED <<host, slot, lease>>

Released(o) == IF lease = o THEN NONE ELSE lease

\* run_worker returns or raises; with the process goes its lease.
Exit(o) ==
    /\ proc[o].stage \in EndStages
    /\ Leaves(o, "exited")
    /\ lease' = Released(o)
    /\ UNCHANGED <<storeVars, host, slot>>

\* The process dies at any point: killed by its host or by the end of the
\* application, or brought down by a broken channel (WorkerChannelError).
Die(o) ==
    /\ proc[o].stage \notin {"none", "exited"}
    /\ Leaves(o, "exited")
    /\ lease' = Released(o)
    /\ UNCHANGED <<storeVars, host, slot>>

ProcessStep(o) ==
    \/ TakeLease(o) \/ Checkpoint(o) \/ SettlePause(o) \/ LoseRace(o) \/ ExceedQuota(o)
    \/ BeginRun(o) \/ ValidateSource(o) \/ RejectSource(o) \/ EndValidation(o)
    \/ StartRunning(o) \/ OpenSource(o) \/ SkipSource(o) \/ ClaimPage(o) \/ CloseSource(o)
    \/ SavePage(o) \/ GiveUpPage(o) \/ StorageError(o)
    \/ Conclude(o) \/ VerifyNext(o) \/ VerifyFails(o) \/ Publish(o) \/ BlockJob(o)
    \/ Exit(o)

(***************************************************************************)
(* The host                                                                *)
(***************************************************************************)
Slot(j, g, stage, stopped) ==
    [job |-> j, gen |-> g, stage |-> stage, stopped |-> stopped, cancelled |-> FALSE]

\* Stages of the reserved run: batch_start has been sent ("starting"), it has
\* succeeded ("started"), its process is supervised ("watched"), its outcome
\* is known ("ended"), the settlement has read the job and is about to stop
\* it, with the lease held ("stopping").
SlotStages == {"starting", "started", "watched", "ended", "stopping"}
SlotIn(stage) == slot # NONE /\ slot.stage = stage

\* Requests are served by an application that has activated its nonce.
Serving == host.initialized

\* The application starts; the host lock admits one at a time, and its nonce
\* (process id and start time) is new: one that has left no trace.
OpenApplication(o) ==
    /\ host.owner = NONE
    /\ proc[o].stage = "none" /\ supervisor # o
    /\ \A j \in Jobs : job[j].owner # o
    /\ host' = [owner |-> o, initialized |-> FALSE]
    /\ UNCHANGED <<storeVars, slot, proc, lease>>

\* It is closed or crashes: nothing in memory survives, the lease it may hold
\* is released, and its process may live on for a while.
CloseApplication ==
    /\ host.owner # NONE
    /\ host' = NoHost
    /\ slot' = NONE
    /\ lease' = IF lease = "host" THEN NONE ELSE lease
    /\ UNCHANGED <<storeVars, proc>>

\* initialize: with the lease in hand, take over from the former application.
\* A lost answer leaves the host uninitialized; the next request repeats it.
Initialize ==
    /\ host.owner # NONE /\ ~host.initialized
    /\ LeaseIsFree
    /\ ActivateSupervisor(host.owner)
    /\ \E answered \in BOOLEAN : host' = [host EXCEPT !.initialized = answered]
    /\ UNCHANGED <<slot, proc, lease>>

\* start: reserve the slot before the database is asked.
ReserveSlot(j, g) ==
    /\ Serving /\ slot = NONE
    /\ slot' = Slot(j, g + 1, "starting", FALSE)
    /\ UNCHANGED <<storeVars, host, proc, lease>>

\* The database refused: nothing was started and the slot is free again.
StartRefused ==
    /\ SlotIn("starting")
    /\ slot' = NONE
    /\ UNCHANGED <<storeVars, host, proc, lease>>

\* The engine call failed with the outcome unknown: the run is to be settled.
Unanswered == [slot EXCEPT !.stage = "ended", !.stopped = TRUE]

\* batch_start commits; its answer arrives, or is lost with the engine call
\* and the run is left to be settled.
StartCommits ==
    /\ SlotIn("starting")
    /\ StartJob(slot.job, slot.gen - 1, host.owner)
    /\ slot' \in {[slot EXCEPT !.stage = "started"], Unanswered}
    /\ UNCHANGED <<host, proc, lease>>

\* The engine call failed before the transaction committed.
StartLost ==
    /\ SlotIn("starting")
    /\ slot' = Unanswered
    /\ UNCHANGED <<storeVars, host, proc, lease>>

\* The worker is spawned and its monitor thread takes it over.  Without a
\* process the outcome is known at once; a process without a monitor is
\* killed, which is confirmed or not.
Spawn ==
    LET spawned == [NoProc EXCEPT !.stage = "spawned", !.job = slot.job, !.gen = slot.gen] IN
    /\ SlotIn("started")
    /\ \/ /\ Becomes(host.owner, spawned)
          /\ slot' \in {[slot EXCEPT !.stage = "watched"], [slot EXCEPT !.stage = "ended"]}
       \/ /\ slot' = [slot EXCEPT !.stage = "ended", !.stopped = TRUE]
          /\ UNCHANGED proc
    /\ UNCHANGED <<storeVars, host, lease>>

\* supervise returns: the process has exited ...
ObserveExit ==
    /\ SlotIn("watched")
    /\ proc[host.owner].stage = "exited"
    /\ slot' = [slot EXCEPT !.stage = "ended", !.stopped = TRUE]
    /\ UNCHANGED <<storeVars, host, proc, lease>>

\* ... or was killed, for a cancellation past its grace, a unit past its
\* deadline or a protocol error ...
Kill ==
    /\ SlotIn("watched")
    /\ slot' = [slot EXCEPT !.stage = "ended", !.stopped = TRUE]
    /\ Leaves(host.owner, "exited")
    /\ lease' = Released(host.owner)
    /\ UNCHANGED <<storeVars, host>>

\* Fault: an unconfirmed kill counts as a stop.
KillUnconfirmedMutant ==
    /\ SlotIn("watched")
    /\ proc[host.owner].stage # "exited"
    /\ slot' = [slot EXCEPT !.stage = "ended", !.stopped = TRUE]
    /\ UNCHANGED <<storeVars, host, proc, lease>>
\* ... and the kill could not be confirmed: the run stays unsettled
\* ("worker_stop_unconfirmed") for the rest of this application.
KillUnconfirmed ==
    /\ SlotIn("watched")
    /\ proc[host.owner].stage # "exited"
    /\ slot' = [slot EXCEPT !.stage = "ended"]
    /\ UNCHANGED <<storeVars, host, proc, lease>>

\* settle: once the process has stopped and the lease is ours, re-read the
\* durable winner.  A run that another generation replaced or that is no
\* longer active needs nothing more.
SettleRead ==
    /\ SlotIn("ended") /\ slot.stopped
    /\ LeaseIsFree
    /\ IF job[slot.job].gen = slot.gen /\ Active(slot.job)
       THEN /\ lease' = "host"
            /\ slot' = [slot EXCEPT !.stage = "stopping",
                          !.cancelled = job[slot.job].state = "cancel_requested"]
       ELSE slot' = NONE /\ UNCHANGED lease
    /\ UNCHANGED <<storeVars, host, proc>>

\* The active run is stopped under the decision read before; the answer may
\* be lost, and then the settlement is repeated.
SettleStop ==
    /\ SlotIn("stopping")
    /\ FinishStop(slot.job, slot.gen, host.owner, slot.cancelled)
    /\ slot' \in {NONE, Slot(slot.job, slot.gen, "ended", TRUE)}
    /\ lease' = NONE
    /\ UNCHANGED <<host, proc>>

\* Fault: a settlement that fails is given up.
SettleFailsMutant ==
    /\ SlotIn("stopping")
    /\ slot' = NONE
    /\ lease' = NONE
    /\ UNCHANGED <<storeVars, host, proc>>
\* The stop is refused (the user paused or cancelled in between and the run
\* is over) or the call fails: the settlement is repeated with a new read.
SettleFails ==
    /\ SlotIn("stopping")
    /\ slot' = Slot(slot.job, slot.gen, "ended", TRUE)
    /\ lease' = NONE
    /\ UNCHANGED <<storeVars, host, proc>>

\* Short commands go straight to the database, concurrently with all of this.
Request ==
    /\ Serving
    /\ \/ \E j \in Jobs :
            \/ CreateJob(j)
            \/ \E c \in CommandIds, action \in Actions, to \in RowStates :
                 Control(j, job[j].gen, c, action, to)
            \/ \E s \in Sources, d \in Digests : RelocateSource(j, s, d)
    /\ UNCHANGED <<host, slot, proc, lease>>

\* Cleanup requests hold the slot free and the lease for their whole call;
\* the call may end between its two transactions and be resumed later.
Cleanup ==
    /\ Serving /\ slot = NONE /\ LeaseIsFree
    /\ \E j \in Jobs : CloseGate(j) \/ DeleteJob(j)
    /\ UNCHANGED <<host, slot, proc, lease>>

HostNext ==
    \/ \E o \in Owners : OpenApplication(o)
    \/ CloseApplication \/ Initialize
    \/ \E j \in Jobs, g \in Gens : ReserveSlot(j, g)
    \/ StartRefused \/ StartCommits \/ StartLost \/ Spawn
    \/ ObserveExit \/ Kill \/ KillUnconfirmed
    \/ SettleRead \/ SettleStop \/ SettleFails
    \/ Request \/ Cleanup

RunNext ==
    \/ \E o \in Owners : ProcessStep(o) \/ Die(o)
    \/ HostNext

RunSpec == RunInit /\ [][RunNext]_vars

-----------------------------------------------------------------------------
(***************************************************************************)
(* Types                                                                   *)
(***************************************************************************)
Proc == [stage : Stages, job : Jobs \cup {NONE}, gen : Nat, seen : RowStates \cup {NONE},
         todo : SUBSET Sources, valid : SUBSET Sources,
         failure : {"none", "failed", "changed"},
         pending : SUBSET PageNos, page : Pages \cup {NONE}, attempt : Nat]
ActiveSlot == [job : Jobs, gen : Nat, stage : SlotStages, stopped : BOOLEAN, cancelled : BOOLEAN]

ASSUME SlotAssumption == NONE \notin ActiveSlot

RunTypeOK ==
    /\ TypeOK
    /\ host \in [owner : OptionalOwner, initialized : BOOLEAN]
    /\ slot \in ActiveSlot \cup {NONE}
    /\ proc \in [Owners -> Proc]
    /\ lease \in Owners \cup {"host", NONE}

(***************************************************************************)
(* Safety                                                                  *)
(***************************************************************************)
\* The application never loses sight of a run: whenever it serves requests,
\* the active job is the very run (job and generation) its slot holds, however
\* answers were lost, processes died, kills failed or stops raced a control.
\* A run outside the slot would have nobody to settle it.
NoForgottenRun ==
    \A j \in Jobs : Serving /\ Active(j) =>
        /\ slot # NONE
        /\ slot.job = j /\ slot.gen = job[j].gen
        /\ slot.stage # "starting"

\* A worker that has got past its first checkpoint owns its run until it has
\* stopped: no takeover, settlement, restart or cleanup happens under it, not
\* even from a new application while a process of the old one lingers.  In
\* particular the page it computes stays claimed for it.
WorkingMeansOwning ==
    \A o \in Owners :
        /\ proc[o].stage \in LeasedStages \ ({"begin", "recheck"} \cup EndStages) =>
             Owns(proc[o].job, proc[o].gen, o)
        /\ proc[o].stage \in PageStages =>
             HoldsClaim(proc[o].job, proc[o].gen, o, proc[o].page, proc[o].attempt)

\* The lease admits one process at a time and is never left to a dead one.
LeaseIsExact ==
    \A o \in Owners : proc[o].stage \in LeasedStages <=> lease = o

\* When the slot is free (a start or a cleanup may go ahead), no process of
\* this application is left that could still write.
FreeSlotIsQuiet ==
    Serving /\ slot = NONE => proc[host.owner].stage \in {"none", "exited"}

\* Worker processes: one that has got past its first checkpoint owns its run
\* and the page it computes until it has stopped, whatever takeovers,
\* settlements, restarts and cleanups go on; the lease admits one process and
\* is never left to a dead one.
WorkersOwnTheirRun == RunTypeOK /\ WorkingMeansOwning /\ LeaseIsExact

\* The application's one slot: while it serves requests the active job is the
\* very run the slot holds, however answers were lost, processes died or kills
\* failed, and a free slot means no process that could still write.
SlotIsTrue == NoForgottenRun /\ FreeSlotIsQuiet

(***************************************************************************)
(* What no step may do                                                     *)
(***************************************************************************)
\* The plan a user confirmed for a cleanup is bound to the digest of the job
\* and its sources, and is compared again before the deletion.  Nothing behind
\* the gate changes, so that comparison cannot strand a gated job.
GatedIsFrozen ==
    [][\A j \in Jobs : job[j].deleting /\ Exists(j)' =>
        /\ job'[j] = job[j]
        /\ source'[j] = source[j]
        /\ page'[j] = page[j]
        /\ result'[j] = result[j]
      ]_vars

\* A run that has come to rest stays at rest: until the job is started again
\* no page of it is claimed, settled or given back and nothing is published,
\* although its process may be alive (and may still register a source it was
\* validating when the pause came) and its host may be settling it.
RestIsQuiet ==
    [][\A j \in Jobs :
        /\ job[j].state \in {"paused", "partial_failed", "blocked", "cancelled", "interrupted"}
        /\ job'[j].gen = job[j].gen
        => /\ \A k \in Pages : page[j][k].state # "absent" => page'[j][k] = page[j][k]
           /\ result'[j] = result[j]
           /\ snapshot'[j] = snapshot[j]
      ]_vars

\* A job nobody works on stays as it is: behind a closed gate nothing changes
\* until the removal, and at rest no page and no result do until the job is
\* started again, although its process may be alive and its host settling it.
FrozenAtRest == GatedIsFrozen /\ RestIsQuiet

\* A settlement, which decides on a state it read one call earlier, never
\* turns a cancelled or published run into an interrupted one, and never
\* drops the user's cancellation.
SettlementRespectsWinner ==
    [][SlotIn("stopping") /\ job'[slot.job] # job[slot.job] =>
        /\ job[slot.job].state \notin {"cancelled", "ready_for_review", "archived"}
        /\ job[slot.job].state = "cancel_requested" => job'[slot.job].state = "cancelled"
      ]_vars

(***************************************************************************)
(* Liveness                                                                *)
(***************************************************************************)
\* What the code and its user bring about: an application is opened and used;
\* its calls return; a process runs, dies or is killed at its deadline; and
\* the settlement, tried again with every request, succeeds at some time.
Fairness ==
    /\ WF_vars(\E o \in Owners : OpenApplication(o))
    /\ SF_vars(Initialize /\ host'.initialized)
    /\ WF_vars(StartRefused \/ StartCommits \/ StartLost)
    /\ WF_vars(Spawn)
    /\ \A o \in Owners : WF_vars(ProcessStep(o) \/ Die(o))
    /\ WF_vars(ObserveExit)
    /\ WF_vars(SettleRead)
    /\ WF_vars(SettleStop \/ SettleFails)
    /\ SF_vars(SettleStop)

FairSpec == RunSpec /\ Fairness

StaysOpen == <>[](host.owner # NONE)

\* The host could not confirm that the process it killed has stopped.
Unconfirmed == SlotIn("ended") /\ ~slot.stopped

\* No run stays active for ever: it is published, paused, fails, is cancelled
\* or is settled as interrupted, unless its process could not be stopped and
\* the application reports so.
RunEnds ==
    StaysOpen => \A j \in Jobs : Active(j) ~> (~Active(j) \/ Unconfirmed)

\* A run that was asked to cancel ends cancelled, or, when another application
\* took over in between, interrupted.
CancelEnds ==
    StaysOpen => \A j \in Jobs : job[j].state = "cancel_requested" ~>
        (job[j].state \in {"cancelled", "interrupted"} \/ Unconfirmed)
=============================================================================
