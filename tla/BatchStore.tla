----------------------------- MODULE BatchStore -----------------------------
(***************************************************************************)
(* The durable batch database (src/engine/batch_store.py).  Every public   *)
(* operation of BatchStore is one BEGIN IMMEDIATE transaction, so each is  *)
(* one action here; an operation whose guard fails raises, rolls back and  *)
(* changes nothing, which is a stuttering step.  Callers are not           *)
(* constrained: any worker, host or client may call any operation at any   *)
(* time with any generation and owner, current or stale.                   *)
(*                                                                         *)
(* Abstractions.  A file is the digest of its bytes, and a page result is  *)
(* the digest of the file it was computed from.  size_bytes and page_count *)
(* follow from the digest (PagesOf).  A result revision (a uuid) is named  *)
(* by the generation that published it.  Errors, names, timestamps,        *)
(* resume_target (never read by a guard) and the byte quota, whose only    *)
(* effect is to refuse a transaction, are left out.                        *)
(***************************************************************************)
EXTENDS Naturals, FiniteSets

CONSTANTS
    Jobs,           \* identifiers of batch_jobs rows
    Sources,        \* the source files of every job
    PageNos,        \* page numbers
    Digests,        \* SHA-256 values of file contents
    PagesOf,        \* PagesOf[d]: the page numbers of the document with digest d
    Owners,         \* host nonces
    CommandIds,     \* client-chosen control command identifiers
    NONE,           \* SQL NULL
    MaxCommands,    \* MAX_COMMANDS_PER_JOB
    MaxGeneration,  \* bound of the model: restarts of one job
    MaxAttempts     \* bound of the model: claims of one page

ASSUME NoneAssumption ==
    /\ NONE \notin Owners
    /\ NONE \notin Digests
    /\ NONE \notin Nat

ASSUME PagesAssumption == PagesOf \in [Digests -> SUBSET PageNos]

ASSUME BoundsAssumption ==
    /\ MaxCommands \in Nat \ {0}
    /\ MaxGeneration \in Nat
    /\ MaxAttempts \in Nat

VARIABLES
    supervisor,  \* batch_supervisor.owner_nonce
    job,         \* batch_jobs rows
    source,      \* batch_sources rows
    page,        \* batch_pages rows, by source and page number
    result,      \* batch_page_results rows: the digest the result came from
    processed,   \* batch_sources.budget_json: processed_pages
    commands,    \* batch_commands rows of the job's present generation
    snapshot     \* batch_snapshots rows with their items

storeVars ==
    <<supervisor, job, source, page, result, processed, commands, snapshot>>

Pages == Sources \X PageNos

\* Fault: a cancelling job does not count as active.
ActiveStatesMutant == {"validating", "running", "pause_requested", "finalizing"}
ActiveStates ==
    {"validating", "running", "pause_requested", "finalizing", "cancel_requested"}
ExecutionStates ==
    {"queued", "validating", "running", "pause_requested", "paused", "finalizing",
     "partial_failed", "blocked", "cancel_requested"}
\* Fault: a published job can be started again.
StartableStatesMutant ==
    {"queued", "paused", "partial_failed", "blocked", "cancelled", "interrupted",
     "ready_for_review"}
StartableStates ==
    {"queued", "paused", "partial_failed", "blocked", "cancelled", "interrupted"}
PublishedStates == {"ready_for_review", "archived"}
\* "absent": not created yet; "deleted": removed by a cleanup, never re-created.
RowStates == ExecutionStates \cup StartableStates \cup PublishedStates
JobStates == RowStates \cup {"absent", "deleted"}

SourceStates == {"pending", "registered", "verified", "failed", "blocked"}
PageStates == {"absent", "pending", "processing", "succeeded", "failed"}
Actions == {"pause", "cancel", "archive"}

NoJob == [state |-> "absent", gen |-> 0, owner |-> NONE, rev |-> NONE, deleting |-> FALSE]
NewSource == [state |-> "pending", sha |-> NONE, verified |-> NONE]
NoPage == [state |-> "absent", owner |-> NONE, gen |-> 0, attempt |-> 0]

Exists(j) == job[j].state \in RowStates
Active(j) == job[j].state \in ActiveStates

\* _assert_owner_generation: the caller still owns this run of the job, and
\* its host is still the supervisor.
Owns(j, g, o) == job[j].gen = g /\ job[j].owner = o /\ supervisor = o

CommandIdsOf(j) == {c.id : c \in commands[j]}

(***************************************************************************)
(* Initially the database has no rows.                                     *)
(***************************************************************************)
Init ==
    /\ supervisor = NONE
    /\ job = [j \in Jobs |-> NoJob]
    /\ source = [j \in Jobs |-> [s \in Sources |-> NewSource]]
    /\ page = [j \in Jobs |-> [k \in Pages |-> NoPage]]
    /\ result = [j \in Jobs |-> [k \in Pages |-> NONE]]
    /\ processed = [j \in Jobs |-> [s \in Sources |-> 0]]
    /\ commands = [j \in Jobs |-> {}]
    /\ snapshot = [j \in Jobs |-> NONE]

(***************************************************************************)
(* Host operations                                                         *)
(***************************************************************************)
\* create_job: a uuid never used before; its sources are pending, unread.
CreateJob(j) ==
    /\ job[j].state = "absent"
    /\ job' = [job EXCEPT ![j].state = "queued"]
    /\ UNCHANGED <<supervisor, source, page, result, processed, commands, snapshot>>

\* A run that a former host left active, which no worker executes any more.
Abandoned(j) == Active(j) /\ job[j].owner # NONE

\* activate_supervisor: a host with a new nonce takes over.
ActivateSupervisor(o) ==
    LET reclaimed == IF supervisor \in {NONE, o} THEN {} ELSE {j \in Jobs : Abandoned(j)} IN
    /\ supervisor' = o
    /\ page' = [j \in Jobs |-> [k \in Pages |->
         IF j \in reclaimed /\ page[j][k].state = "processing"
         THEN [page[j][k] EXCEPT !.state = "pending", !.owner = NONE]
         ELSE page[j][k]]]
    /\ job' = [j \in Jobs |->
         IF j \in reclaimed
         THEN [job[j] EXCEPT !.state = "interrupted", !.owner = NONE]
         ELSE job[j]]
    /\ UNCHANGED <<source, result, processed, commands, snapshot>>

\* start_job refuses a job that is not at rest or is behind the cleanup gate ...
Startable(j) == job[j].state \in StartableStates /\ ~job[j].deleting

\* ... and any job while another one is active.
OthersRest(j) == \A i \in Jobs \ {j} : ~Active(i)

Unverified(j) == [s \in Sources |-> [source[j][s] EXCEPT !.verified = NONE]]

\* start_job: a new generation of a job at rest, when no other job runs.
\* Settled pages survive; everything else of the former run is reset.
StartJob(j, g, o) ==
    /\ supervisor = o
    /\ Startable(j)
    /\ job[j].gen = g
    /\ g < MaxGeneration
    /\ OthersRest(j)
    /\ commands' = [commands EXCEPT ![j] = {}]
    /\ result' = [result EXCEPT ![j] = [k \in Pages |->
         IF page[j][k].state = "succeeded" THEN result[j][k] ELSE NONE]]
    /\ page' = [page EXCEPT ![j] = [k \in Pages |->
         IF page[j][k].state \in {"absent", "succeeded"} THEN page[j][k]
         ELSE [page[j][k] EXCEPT !.state = "pending", !.owner = NONE, !.gen = g + 1]]]
    /\ source' = [source EXCEPT ![j] = Unverified(j)]
    /\ job' = [job EXCEPT ![j] =
         [state |-> "validating", gen |-> g + 1, owner |-> o, rev |-> NONE, deleting |-> FALSE]]
    /\ UNCHANGED <<supervisor, processed, snapshot>>

\* A page claimed in generation g by owner o.
\* Fault: the attempt is compared instead of the generation.
ClaimedByMutant(j, g, o, k) ==
    page[j][k].state = "processing" /\ page[j][k].owner = o /\ page[j][k].attempt = g
ClaimedBy(j, g, o, k) ==
    page[j][k].state = "processing" /\ page[j][k].owner = o /\ page[j][k].gen = g

\* The durable cancel request wins over the boolean the host read earlier.
\* Fault: the host's boolean decides.
StopStateMutant(j, cancelled) == IF cancelled THEN "cancelled" ELSE "interrupted"
StopState(j, cancelled) ==
    IF cancelled \/ job[j].state = "cancel_requested" THEN "cancelled" ELSE "interrupted"

\* finish_stop: the host settles a run after its worker stopped.
FinishStop(j, g, o, cancelled) ==
    /\ Owns(j, g, o)
    /\ job[j].state \in ExecutionStates
    /\ page' = [page EXCEPT ![j] = [k \in Pages |->
         IF ClaimedBy(j, g, o, k)
         THEN [page[j][k] EXCEPT !.state = "pending", !.owner = NONE]
         ELSE page[j][k]]]
    /\ job' = [job EXCEPT ![j].state = StopState(j, cancelled), ![j].owner = NONE]
    /\ UNCHANGED <<supervisor, source, result, processed, commands, snapshot>>

\* Fault: a source behind the cleanup gate can be relocated.
RelocateSourceMutant(j, s, d) ==
    /\ Exists(j) /\ ~Active(j)
    /\ source[j][s].sha = d
    /\ source' = [source EXCEPT ![j][s].state = "registered", ![j][s].verified = NONE]
    /\ UNCHANGED <<supervisor, job, page, result, processed, commands, snapshot>>
\* relocate_source: the user points a source at a file with the same digest.
RelocateSource(j, s, d) ==
    /\ Exists(j) /\ ~job[j].deleting /\ ~Active(j)
    /\ source[j][s].sha = d
    /\ source' = [source EXCEPT ![j][s].state = "registered", ![j][s].verified = NONE]
    /\ UNCHANGED <<supervisor, job, page, result, processed, commands, snapshot>>

(***************************************************************************)
(* Worker operations: each first checks the caller's generation and owner  *)
(***************************************************************************)
\* The page rows of a source whose file has digest d.
PageKeys(s, d) == {k \in Pages : k[1] = s /\ k[2] \in PagesOf[d]}

\* register_source, first time: the identity is fixed and the pages appear.
RegisterSource(j, g, o, s, d) ==
    /\ Owns(j, g, o)
    /\ job[j].state \in {"validating", "running", "pause_requested", "paused", "partial_failed"}
    /\ source[j][s].sha = NONE
    /\ source' = [source EXCEPT ![j][s] =
         [state |-> "registered", sha |-> d, verified |-> NONE]]
    /\ page' = [page EXCEPT ![j] = [k \in Pages |->
         IF k \in PageKeys(s, d) /\ page[j][k].state = "absent"
         THEN [state |-> "pending", owner |-> NONE, gen |-> job[j].gen, attempt |-> 0]
         ELSE page[j][k]]]
    /\ UNCHANGED <<supervisor, job, result, processed, commands, snapshot>>

\* register_source, again: the same identity only; the pages stay as they are.
ReregisterSource(j, g, o, s, d) ==
    /\ Owns(j, g, o)
    /\ job[j].state \in {"validating", "running", "pause_requested", "paused", "partial_failed"}
    /\ source[j][s].sha = d
    /\ source' = [source EXCEPT ![j][s].state = "registered", ![j][s].verified = NONE]
    /\ UNCHANGED <<supervisor, job, page, result, processed, commands, snapshot>>

\* verify_source: the file still has its registered digest at the end of the run.
VerifySource(j, g, o, s, d) ==
    /\ Owns(j, g, o)
    /\ job[j].state = "finalizing"
    /\ source[j][s].sha = d
    /\ source' = [source EXCEPT ![j][s].state = "verified", ![j][s].verified = g]
    /\ UNCHANGED <<supervisor, job, page, result, processed, commands, snapshot>>

\* fail_source: a source-local failure keeps its identity and its pages.
FailSource(j, g, o, s, outcome) ==
    /\ Owns(j, g, o)
    /\ job[j].state \in ExecutionStates
    /\ outcome \in {"failed", "blocked"}
    /\ source' = [source EXCEPT ![j][s].state = outcome, ![j][s].verified = NONE]
    /\ UNCHANGED <<supervisor, job, page, result, processed, commands, snapshot>>

\* The moves batch_processor.py asks transition() for: the state its last
\* checkpoint read, and the next one.  Each is in the table _TRANSITIONS.
WorkerMoves ==
    {<<"pause_requested", "paused">>,
     <<"validating", "running">>, <<"validating", "blocked">>,
     <<"running", "finalizing">>, <<"running", "partial_failed">>, <<"running", "blocked">>,
     <<"finalizing", "blocked">>}

\* transition: a compare-and-swap on the state the worker saw.
Transition(j, g, o, from, to) ==
    /\ Owns(j, g, o)
    /\ job[j].state = from
    /\ <<from, to>> \in WorkerMoves
    /\ job' = [job EXCEPT ![j].state = to]
    /\ UNCHANGED <<supervisor, source, page, result, processed, commands, snapshot>>

\* Fault: a settled page can be claimed again.
ClaimableMutant(j, k) == page[j][k].state \notin {"absent", "processing"}
Claimable(j, k) == page[j][k].state \in {"pending", "failed"}

\* begin_page: claim a page that is not settled.
BeginPage(j, g, o, k) ==
    /\ Owns(j, g, o)
    /\ job[j].state = "running"
    /\ Claimable(j, k)
    /\ page[j][k].attempt < MaxAttempts
    /\ result' = [result EXCEPT ![j][k] = NONE]
    /\ page' = [page EXCEPT ![j][k] =
         [state |-> "processing", owner |-> o, gen |-> g, attempt |-> page[j][k].attempt + 1]]
    /\ UNCHANGED <<supervisor, job, source, processed, commands, snapshot>>

\* The claim a result or a failure is reported under is still the current one.
\* Fault: a page that is no longer claimed passes.
HoldsClaimMutant(j, g, o, k, attempt) ==
    page[j][k].gen = g /\ page[j][k].attempt = attempt
HoldsClaim(j, g, o, k, attempt) ==
    ClaimedBy(j, g, o, k) /\ page[j][k].attempt = attempt

\* A page result is bound to its source: it was computed from the bytes the
\* source is registered with.
BoundTo(j, k, d) == source[j][k[1]].sha = d

\* commit_page: the result, the budget and the page state become durable at
\* once; a pause that waited for this page takes effect with it.
CommitPage(j, g, o, k, attempt, d, budget) ==
    /\ Owns(j, g, o)
    /\ job[j].state # "cancel_requested"
    /\ BoundTo(j, k, d)
    /\ HoldsClaim(j, g, o, k, attempt)
    /\ budget = processed[j][k[1]] + 1
    /\ result' = [result EXCEPT ![j][k] = d]
    /\ processed' = [processed EXCEPT ![j][k[1]] = budget]
    /\ page' = [page EXCEPT ![j][k].state = "succeeded", ![j][k].owner = NONE]
    /\ job' = [job EXCEPT ![j].state = IF @ = "pause_requested" THEN "paused" ELSE @]
    /\ UNCHANGED <<supervisor, source, commands, snapshot>>

\* fail_page: the page becomes retryable; its work is charged at most once.
FailPage(j, g, o, k, attempt, budget) ==
    /\ Owns(j, g, o)
    /\ HoldsClaim(j, g, o, k, attempt)
    /\ budget \in {processed[j][k[1]], processed[j][k[1]] + 1}
    /\ result' = [result EXCEPT ![j][k] = NONE]
    /\ processed' = [processed EXCEPT ![j][k[1]] = budget]
    /\ page' = [page EXCEPT ![j][k].state = "failed", ![j][k].owner = NONE]
    /\ UNCHANGED <<supervisor, job, source, commands, snapshot>>

\* _assert_complete_pages: every page row has settled with a durable result
\* that is bound to its source.
CompletePages(j) ==
    \A k \in Pages : page[j][k].state # "absent" =>
        /\ page[j][k].state = "succeeded"
        /\ result[j][k] = source[j][k[1]].sha

\* publish_snapshot: the only way into ready_for_review.
PublishSnapshot(j, g, o) ==
    /\ Owns(j, g, o)
    /\ job[j].state = "finalizing"
    /\ ~job[j].deleting
    /\ \A s \in Sources : source[j][s].sha # NONE /\ source[j][s].verified = g
    /\ CompletePages(j)
    /\ snapshot' = [snapshot EXCEPT ![j] =
         [gen |-> g, shas |-> [s \in Sources |-> source[j][s].sha], items |-> result[j]]]
    /\ job' = [job EXCEPT ![j].state = "ready_for_review", ![j].rev = g]
    /\ UNCHANGED <<supervisor, source, page, result, processed, commands>>

(***************************************************************************)
(* Client commands: control                                                *)
(***************************************************************************)
\* The durable state a command finds and the one it asks for; a state without
\* a pair refuses the command.
Stays(states) == {<<s, s>> : s \in states}
PauseMoves ==
    ({"queued", "validating", "partial_failed", "blocked"} \X {"paused"})
    \cup ({"running", "finalizing"} \X {"pause_requested"})
    \cup Stays({"paused", "pause_requested", "ready_for_review"})
CancelMoves ==
    ({"validating", "running", "pause_requested", "finalizing"} \X {"cancel_requested"})
    \cup ({"queued", "paused", "partial_failed", "blocked", "interrupted"} \X {"cancelled"})
    \cup Stays({"cancel_requested", "cancelled", "ready_for_review", "archived"})
ArchiveMoves == {<<"ready_for_review", "archived">>} \cup Stays({"archived"})
MovesOf(action) ==
    CASE action = "pause" -> PauseMoves
      [] action = "cancel" -> CancelMoves
      [] action = "archive" -> ArchiveMoves

\* Fault: every command may take the last row.
HasQuotaMutant(j, action) == Cardinality(commands[j]) < MaxCommands
\* The last command row is kept for a cancellation, which a full history does
\* not stop: it then takes effect without a row.
HasQuota(j, action) ==
    action = "cancel" \/ Cardinality(commands[j]) + 1 < MaxCommands

\* control: a command identifier used before in this generation returns its
\* stored response and changes nothing.
Control(j, g, c, action, to) ==
    /\ Exists(j) /\ ~job[j].deleting
    /\ job[j].gen = g
    /\ c \notin CommandIdsOf(j)
    /\ <<job[j].state, to>> \in MovesOf(action)
    /\ HasQuota(j, action)
    /\ job' = [job EXCEPT ![j].state = to]
    /\ commands' = IF Cardinality(commands[j]) < MaxCommands
         THEN [commands EXCEPT ![j] = @ \cup {[id |-> c, action |-> action, state |-> to]}]
         ELSE commands
    /\ UNCHANGED <<supervisor, source, page, result, processed, snapshot>>

(***************************************************************************)
(* The two transactions by which a cleanup (batch_cleanup.py) removes a    *)
(* job: the durable gate, then the deletion with all of the job's rows.    *)
(***************************************************************************)
CloseGate(j) ==
    /\ Exists(j) /\ ~Active(j) /\ ~job[j].deleting
    /\ job' = [job EXCEPT ![j].deleting = TRUE]
    /\ UNCHANGED <<supervisor, source, page, result, processed, commands, snapshot>>

DeleteJob(j) ==
    /\ Exists(j) /\ ~Active(j) /\ job[j].deleting
    /\ job' = [job EXCEPT ![j] = [NoJob EXCEPT !.state = "deleted"]]
    /\ source' = [source EXCEPT ![j] = [s \in Sources |-> NewSource]]
    /\ page' = [page EXCEPT ![j] = [k \in Pages |-> NoPage]]
    /\ result' = [result EXCEPT ![j] = [k \in Pages |-> NONE]]
    /\ processed' = [processed EXCEPT ![j] = [s \in Sources |-> 0]]
    /\ commands' = [commands EXCEPT ![j] = {}]
    /\ snapshot' = [snapshot EXCEPT ![j] = NONE]
    /\ UNCHANGED supervisor

Gens == 0 .. MaxGeneration

HostStep ==
    \/ \E o \in Owners : ActivateSupervisor(o)
    \/ \E j \in Jobs, g \in Gens, o \in Owners :
        \/ StartJob(j, g, o)
        \/ \E cancelled \in BOOLEAN : FinishStop(j, g, o, cancelled)

WorkerStep ==
    \E j \in Jobs, g \in Gens, o \in Owners :
        \/ \E s \in Sources, d \in Digests :
            \/ RegisterSource(j, g, o, s, d)
            \/ ReregisterSource(j, g, o, s, d)
            \/ VerifySource(j, g, o, s, d)
        \/ \E s \in Sources, outcome \in {"failed", "blocked"} : FailSource(j, g, o, s, outcome)
        \/ \E move \in WorkerMoves : Transition(j, g, o, move[1], move[2])
        \/ \E k \in Pages : BeginPage(j, g, o, k)
        \/ \E k \in Pages, attempt \in 1 .. MaxAttempts, d \in Digests :
            CommitPage(j, g, o, k, attempt, d, processed[j][k[1]] + 1)
        \/ \E k \in Pages, attempt \in 1 .. MaxAttempts, work \in {0, 1} :
            FailPage(j, g, o, k, attempt, processed[j][k[1]] + work)
        \/ PublishSnapshot(j, g, o)

ClientStep ==
    \E j \in Jobs :
        \/ CreateJob(j)
        \/ \E g \in Gens, c \in CommandIds, action \in Actions, to \in RowStates :
            Control(j, g, c, action, to)
        \/ \E s \in Sources, d \in Digests : RelocateSource(j, s, d)
        \/ CloseGate(j)
        \/ DeleteJob(j)

Next == HostStep \/ WorkerStep \/ ClientStep

Spec == Init /\ [][Next]_storeVars

-----------------------------------------------------------------------------
(***************************************************************************)
(* Types                                                                   *)
(***************************************************************************)
OptionalOwner == Owners \cup {NONE}
OptionalGen == Nat \cup {NONE}
OptionalDigest == Digests \cup {NONE}

JobRow == [state : JobStates, gen : Nat, owner : OptionalOwner, rev : OptionalGen,
           deleting : BOOLEAN]
SourceRow == [state : SourceStates, sha : OptionalDigest, verified : OptionalGen]
PageRow == [state : PageStates, owner : OptionalOwner, gen : Nat, attempt : Nat]
Command == [id : CommandIds, action : Actions, state : RowStates]
Snapshot == [gen : Nat, shas : [Sources -> OptionalDigest], items : [Pages -> OptionalDigest]]

ASSUME SnapshotAssumption == NONE \notin Snapshot

\* Every row has the columns and the values the schema (_DDL_V1) allows.
TypeOK ==
    /\ supervisor \in OptionalOwner
    /\ job \in [Jobs -> JobRow]
    /\ source \in [Jobs -> [Sources -> SourceRow]]
    /\ page \in [Jobs -> [Pages -> PageRow]]
    /\ result \in [Jobs -> [Pages -> OptionalDigest]]
    /\ processed \in [Jobs -> [Sources -> Nat]]
    /\ commands \in [Jobs -> SUBSET Command]
    /\ snapshot \in [Jobs -> Snapshot \cup {NONE}]

(***************************************************************************)
(* Safety                                                                  *)
(***************************************************************************)
\* At most one job is executing, whatever starts, takeovers, cancellations
\* and late worker calls interleave (start_job's single-active-job check and
\* every other way into and out of an active state).
SingleActiveJob ==
    \A i, j \in Jobs : Active(i) /\ Active(j) => i = j

\* An executing job is always owned by the host that is the supervisor now:
\* nobody but that host, after its takeover, can be driving it, so a takeover
\* (activate_supervisor reclaims only rows with an owner) misses no run.
ActiveIsOwned ==
    \A j \in Jobs : Active(j) => job[j].owner = supervisor /\ supervisor # NONE

\* A page is settled exactly when its result is durable, and the result was
\* computed from the very bytes the source is registered with: commit_page,
\* begin_page, fail_page and start_job keep three tables in step.
SettledIffResult ==
    \A j \in Jobs, k \in Pages :
        /\ page[j][k].state = "succeeded" <=> result[j][k] # NONE
        /\ result[j][k] # NONE => result[j][k] = source[j][k[1]].sha

\* A page being processed is claimed under its job's present owner and
\* generation.  finish_stop resets only such pages and then clears the owner,
\* so it leaves no page claimed by a run that has ended.
ClaimIsCurrent ==
    \A j \in Jobs, k \in Pages : page[j][k].state = "processing" =>
        /\ job[j].owner # NONE
        /\ page[j][k].owner = job[j].owner
        /\ page[j][k].gen = job[j].gen

\* The pages of a registered source are exactly those of its document, and an
\* unregistered source has none, so "every page row succeeded" (the check
\* publish_snapshot makes over existing rows) means the whole document.
PagesMatchDocument ==
    \A j \in Jobs, k \in Pages :
        page[j][k].state # "absent" <=>
            source[j][k[1]].sha # NONE /\ k[2] \in PagesOf[source[j][k[1]].sha]

\* A published job has one snapshot, made by its last generation, whose items
\* are the whole of every registered document; restarts, relocations, late
\* worker calls and archiving never leave a published job without it.
PublishedIsComplete ==
    \A j \in Jobs :
        /\ job[j].state \in PublishedStates <=> job[j].rev # NONE
        /\ job[j].rev # NONE <=> snapshot[j] # NONE
        /\ snapshot[j] # NONE =>
            /\ snapshot[j].gen = job[j].gen /\ job[j].rev = job[j].gen
            /\ \A k \in Pages :
                /\ snapshot[j].shas[k[1]] = source[j][k[1]].sha
                /\ k[2] \in PagesOf[source[j][k[1]].sha] =>
                     snapshot[j].items[k] = source[j][k[1]].sha

\* A verification that publish_snapshot would accept was made in this
\* generation, of a source that is registered and not failed since.
VerificationIsCurrent ==
    \A j \in Jobs, s \in Sources : source[j][s].verified # NONE =>
        /\ source[j][s].verified = job[j].gen
        /\ source[j][s].state = "verified"
        /\ source[j][s].sha # NONE

\* A job behind the cleanup gate never executes (it could otherwise be
\* deleted under its worker, or publish while it is being deleted).
GatedIsIdle ==
    \A j \in Jobs : job[j].deleting => ~Active(j) /\ Exists(j)

\* The command history stays within its limit and non-cancel commands never
\* take the row kept for a cancellation.
CancelSlotKept ==
    \A j \in Jobs :
        /\ Cardinality(commands[j]) <= MaxCommands
        /\ Cardinality({c \in commands[j] : c.action # "cancel"}) < MaxCommands

\* The claims ever made on the pages of a source: one for every attempt.
ClaimsOf(rows, s) ==
    {c \in Pages \X (1 .. MaxAttempts) : c[1][1] = s /\ c[2] <= rows[c[1]].attempt}
SettledOf(rows, s) == {k \in Pages : k[1] = s /\ rows[k].state = "succeeded"}

\* The pages a source is charged for are at least those it has settled and at
\* most the claims ever made on it: each settled page is charged once, and a
\* failure or a lost claim at most once per attempt (commit_page, fail_page,
\* and the budget that survives every restart).
BudgetMatchesWork ==
    \A j \in Jobs, s \in Sources :
        /\ Cardinality(SettledOf(page[j], s)) <= processed[j][s]
        /\ processed[j][s] <= Cardinality(ClaimsOf(page[j], s))

Safety ==
    /\ SingleActiveJob
    /\ ActiveIsOwned
    /\ SettledIffResult
    /\ ClaimIsCurrent
    /\ PagesMatchDocument
    /\ PublishedIsComplete
    /\ VerificationIsCurrent
    /\ GatedIsIdle

(***************************************************************************)
(* What no step may do                                                     *)
(***************************************************************************)
\* A settled page keeps its result through every pause, crash, takeover,
\* cancellation, failure and restart until the job itself is deleted, and the
\* identity of a registered source is never replaced under its results.
CheckpointKept ==
    [][\A j \in Jobs : Exists(j)' =>
        /\ \A k \in Pages : result[j][k] # NONE => result'[j][k] = result[j][k]
        /\ \A s \in Sources : source[j][s].sha # NONE => source'[j][s].sha = source[j][s].sha
      ]_storeVars

\* A published snapshot is never changed or withdrawn (no restart, stop or
\* cancellation that races the publication replaces it); only a cleanup
\* removes it.
PublishedIsFrozen ==
    [][\A j \in Jobs : snapshot[j] # NONE =>
        \/ job'[j].state = "deleted"
        \/ /\ snapshot'[j] = snapshot[j]
           /\ job'[j].state \in PublishedStates
      ]_storeVars

\* Once a cancellation is requested the run can only end: as cancelled, or as
\* interrupted by another host's takeover.  It settles no further page and
\* publishes nothing, even if the worker was about to commit or publish.
CancelStands(j) ==
    job[j].state = "cancel_requested" =>
        /\ \/ job'[j].state \in {"cancel_requested", "cancelled"}
           \/ job'[j].state = "interrupted" /\ supervisor' # supervisor
        /\ result'[j] = result[j]
        /\ snapshot'[j] = snapshot[j]

\* A closed cleanup gate stays closed until the row is deleted, and meanwhile
\* the job is not restarted, published or withdrawn.
GateStands(j) ==
    job[j].deleting /\ Exists(j)' =>
        /\ job'[j].deleting
        /\ job'[j].gen = job[j].gen
        /\ snapshot'[j] = snapshot[j]

\* What stops a job for good is never undone: neither a cancellation nor a
\* closed cleanup gate, whatever restart, commit, publication or takeover races
\* it (control, commit_page, publish_snapshot, start_job, delete_job).
StopsAreFinal == [][\A j \in Jobs : CancelStands(j) /\ GateStands(j)]_storeVars
=============================================================================
