---------------------------- MODULE BatchCleanup ----------------------------
(***************************************************************************)
(* The cleanup of a batch job (batch_cleanup.py, batch_previews.py) with   *)
(* the reviews of ReviewReceipts.                                          *)
(*                                                                         *)
(* A plan records what the user was shown.  Its execution closes the gate  *)
(* of the job in one transaction; deletes the job in a second one, inside  *)
(* which the review database releases the owner in a transaction of its    *)
(* own; and removes the preview files after it.  The process may die       *)
(* between any two of these, any step may fail, and the same plan is       *)
(* executed again until it is done.                                        *)
(***************************************************************************)
EXTENDS ReviewReceipts, FiniteSetsExt

CONSTANTS
    Plans,    \* cleanup identifiers
    Engines,  \* processes executing a cleanup
    Tokens    \* preview files a host may create

VARIABLES
    plan,     \* batch_cleanup
    receipt,  \* review_cleanup_receipts_v2: the outcome a plan has had
    engine,   \* per process, the plan it executes and how far it is
    preview,  \* batch_preview_owners: the job a token is registered for
    file,     \* tokens whose preview file exists
    open,     \* tokens the host shows at present
    shown     \* saves accepted in the context when the plan was made (history)

cvars == <<plan, receipt, engine, preview, file, open, shown>>
vars == <<rvars, cvars>>

Saves == MapThenSumSet(LAMBDA j : count[j], Jobs)
Outcomes == {"deleted", "retained", "released_shared"}
ReviewDone == {"deleted", "retained", "absent"}
PreviewDone == {"cleaned", "absent"}

CleanupTypeOK ==
    /\ \A p \in Plans : plan[p] # NONE =>
          /\ plan[p].job \in Jobs /\ plan[p].run \in Runs
          /\ plan[p].started \in BOOLEAN /\ plan[p].delete \in BOOLEAN \cup {NONE}
          /\ plan[p].task \in {"pending", "deleted"}
          /\ plan[p].review \in ReviewDone \cup {"pending", "residual"}
          /\ plan[p].changed \in BOOLEAN
          /\ plan[p].previews \subseteq Tokens
          /\ plan[p].preview \in PreviewDone \cup {"pending", "residual"}
          /\ plan[p].task = "deleted" <=> job[plan[p].job] = GONE /\ plan[p].started
    /\ receipt \in [Plans -> {NONE} \cup Outcomes]
    /\ engine \in [Engines -> {NONE} \cup
          [plan : Plans, step : {"gated", "released", "deleted", "swept"}, review : ReviewDone \cup {"pending", "residual"},
           changed : BOOLEAN, preview : PreviewDone \cup {"pending", "residual"}]]
    /\ preview \in [Tokens -> Jobs \cup {NONE}]
    /\ open \subseteq Tokens /\ file \subseteq {t \in Tokens : preview[t] # NONE}

CleanupInit ==
    /\ ReceiptInit
    /\ plan = [p \in Plans |-> NONE]
    /\ receipt = [p \in Plans |-> NONE]
    /\ engine = [e \in Engines |-> NONE]
    /\ preview = [t \in Tokens |-> NONE]
    /\ file = {} /\ open = {}
    /\ shown = [p \in Plans |-> 0]

-----------------------------------------------------------------------------
\* a transaction of the batch database is open: its engine released the review
BatchLocked == \E e \in Engines : engine[e] # NONE /\ engine[e].step = "released"

\* publications, calibrations, prepares, reads and saves of reviews
Review == ~BatchLocked /\ ReviewStep /\ UNCHANGED cvars

\* register_preview, then the host writes the file; a token is used once
OpenPreview(t, j) ==
    /\ ~BatchLocked /\ Usable(j)
    /\ preview[t] = NONE /\ \A p \in Plans : plan[p] # NONE => t \notin plan[p].previews
    /\ preview' = [preview EXCEPT ![t] = j]
    /\ file' = file \cup {t} /\ open' = open \cup {t}
    /\ UNCHANGED <<rvars, plan, receipt, engine, shown>>

\* the preview is left; its file may resist; release_absent_preview
ClosePreview(t) ==
    /\ t \in open /\ open' = open \ {t}
    /\ \/ ~BatchLocked /\ file' = file \ {t} /\ preview' = [preview EXCEPT ![t] = NONE]
       \/ UNCHANGED <<file, preview>>
    /\ UNCHANGED <<rvars, plan, receipt, engine, shown>>

-----------------------------------------------------------------------------
\* _ownership_fingerprint: the result the context is bound to and the number,
\* sum and maximum of the revisions stored
Fingerprint ==
    LET stored == {s \in DOMAIN rows : rows[s] # NONE}
        revs == {rows[s].rev : s \in stored}
    IN IF context = NONE THEN NONE
       ELSE [result |-> context.result, number |-> Cardinality(stored),
             total |-> MapThenSumSet(LAMBDA s : rows[s].rev, stored),
             maximum |-> IF revs = {} THEN 0 ELSE Max(revs)]

\* _drop_unstarted_pending_plans: a plan that was never started is replaced
Dropped(q, j) == plan[q] # NONE /\ plan[q].job = j /\ ~plan[q].started

\* plan_cleanup
MakePlan(p, j) ==
    /\ ~BatchLocked /\ open = {}
    /\ plan[p] = NONE /\ Usable(j)
    /\ plan' = [q \in Plans |->
          IF q = p THEN [job |-> j, run |-> job[j].run, stamp |-> Fingerprint, started |-> FALSE,
                         delete |-> NONE, task |-> "pending", review |-> "pending", changed |-> FALSE,
                         previews |-> {t \in Tokens : preview[t] = j}, preview |-> "pending"]
          ELSE IF Dropped(q, j) THEN NONE
          ELSE plan[q]]
    /\ shown' = [shown EXCEPT ![p] = Saves]
    /\ UNCHANGED <<rvars, receipt, engine, preview, file, open>>

\* the digest of the job in the plan covers its result revision
NotStale(p) == job[plan[p].job].run = plan[p].run

\* the first transaction of execute_cleanup
Gate(e, p, d) ==
    /\ ~BatchLocked /\ open = {}
    /\ engine[e] = NONE /\ plan[p] # NONE
    /\ plan[p].delete \in {NONE, d}
    /\ IF plan[p].started
       THEN /\ (plan[p].task = "deleted") <=> ~Present(plan[p].job)
            /\ UNCHANGED <<job, plan>>
       ELSE /\ plan[p].task = "pending"
            /\ Usable(plan[p].job) /\ NotStale(p)
            /\ job' = [job EXCEPT ![plan[p].job].gate = TRUE]
            /\ plan' = [plan EXCEPT ![p].started = TRUE, ![p].delete = d]
    /\ engine' = [engine EXCEPT ![e] =
          [plan |-> p, step |-> "gated", review |-> "pending", changed |-> FALSE, preview |-> "pending"]]
    /\ UNCHANGED <<context, rows, owners, window, count, last, receipt, preview, file, open, shown>>

\* _scan_other_contexts: another published job has the same context
Referenced(j) == \E i \in Jobs \ {j} : Present(i)

Unchanged(p) == Fingerprint = plan[p].stamp

Remaining(j) == owners \ {<<"batch", j>>}

\* what release_batch_owner does to the owners, and its outcome
Released(p, outcome) ==
    LET j == plan[p].job
    IN CASE outcome = "deleted" ->
            /\ context' = NONE /\ owners' = {}
            /\ rows' = [s \in DOMAIN rows |-> NONE]
         [] outcome = "released_shared" ->
            /\ owners' = Remaining(j)
            /\ UNCHANGED <<context, rows>>
         [] outcome = "retained" ->
            /\ owners' = Remaining(j) \cup {<<"retained", p>>}
            /\ UNCHANGED <<context, rows>>

\* Fault: neither other owners nor other jobs of the context are considered
ExclusiveMutant(p) == plan[p].delete
Exclusive(p) == plan[p].delete /\ ~Referenced(plan[p].job) /\ Cardinality(owners) = 1

\* the job of the plan is among the owners
Owned(p) == <<"batch", plan[p].job>> \in owners

\* release_batch_owner: a receipt answers a repeated call; what changed since
\* the plan, and what the job does not own, stays
Outcome(p) ==
    IF receipt[p] # NONE
    THEN IF receipt[p] = "deleted" THEN "already_absent" ELSE "already_released"
    ELSE IF context = NONE THEN "already_absent"
    ELSE IF ~Unchanged(p) THEN "changed"
    ELSE IF ~Owned(p) THEN "not_owner"
    ELSE IF Exclusive(p) THEN "deleted"
    ELSE IF plan[p].delete /\ ~Referenced(plan[p].job) THEN "released_shared"
    ELSE "retained"

\* the transaction of the review database
Release(p) ==
    IF Outcome(p) \in Outcomes
    THEN /\ Released(p, Outcome(p))
         /\ receipt' = [receipt EXCEPT ![p] = Outcome(p)]
    ELSE UNCHANGED <<context, rows, owners, receipt>>

\* _review_state_from_release
ReviewState(outcome) ==
    CASE outcome = "deleted" -> "deleted"
      [] outcome = "already_absent" -> "absent"
      [] OTHER -> "retained"

\* the second transaction up to the commit of the review database
ReleaseReview(e) ==
    LET p == engine[e].plan
        Report(state, changed) ==
            engine' = [engine EXCEPT ![e].step = "released", ![e].review = state, ![e].changed = changed]
        Kept == UNCHANGED <<context, rows, owners, receipt>>
    IN /\ engine[e] # NONE /\ engine[e].step = "gated" /\ ~BatchLocked
       /\ IF plan[p].review \in ReviewDone THEN Report(plan[p].review, plan[p].changed) /\ Kept
          ELSE IF plan[p].stamp = NONE THEN Report("absent", FALSE) /\ Kept
          ELSE \/ Release(p) /\ Report(ReviewState(Outcome(p)), Outcome(p) = "changed")
               \/ Release(p) /\ Report("residual", FALSE)
               \/ Kept /\ Report("residual", FALSE)
       /\ UNCHANGED <<job, window, count, last, plan, preview, file, open, shown>>

\* the commit of the second transaction: the job is deleted with all its rows
DeleteJob(e) ==
    LET p == engine[e].plan
    IN /\ engine[e] # NONE /\ engine[e].step = "released"
       /\ job' = [job EXCEPT ![plan[p].job] = GONE]
       /\ plan' = [plan EXCEPT ![p].task = "deleted", ![p].review = engine[e].review, ![p].changed = engine[e].changed]
       /\ engine' = IF plan[p].preview \in PreviewDone
                    THEN [engine EXCEPT ![e] = NONE]
                    ELSE [engine EXCEPT ![e].step = "deleted"]
       /\ UNCHANGED <<context, rows, owners, window, count, last, receipt, preview, file, open, shown>>

SweepResult(kept, removed) ==
    IF kept # {} THEN "residual" ELSE IF removed = {} THEN "absent" ELSE "cleaned"

\* a registration is only dropped with its file
Forgotten(mine, kept) == mine \ kept

\* cleanup_previews: each file of the plan still registered for the job is
\* removed and forgotten, or resists
Sweep(e) ==
    LET p == engine[e].plan
        mine == {t \in plan[p].previews : preview[t] = plan[p].job}
    IN /\ engine[e] # NONE /\ engine[e].step = "deleted" /\ ~BatchLocked
       /\ \E kept \in SUBSET mine :
             /\ preview' = [t \in Tokens |-> IF t \in Forgotten(mine, kept) THEN NONE ELSE preview[t]]
             /\ file' = file \ (mine \ kept)
             /\ engine' = [engine EXCEPT ![e].step = "swept",
                              ![e].preview = SweepResult(kept, file \cap (mine \ kept))]
       /\ UNCHANGED <<rvars, plan, receipt, open, shown>>

\* a preview once recorded as gone stays so
PreviewState(p, new) == IF plan[p].preview \in PreviewDone THEN plan[p].preview ELSE new

\* the last transaction of execute_cleanup
RecordPreview(e) ==
    LET p == engine[e].plan
    IN /\ engine[e] # NONE /\ engine[e].step = "swept" /\ ~BatchLocked
       /\ plan' = [plan EXCEPT ![p].preview = PreviewState(p, engine[e].preview)]
       /\ engine' = [engine EXCEPT ![e] = NONE]
       /\ UNCHANGED <<rvars, receipt, preview, file, open, shown>>

\* the process dies: its open transaction of the batch database is rolled back
EngineDies(e) ==
    /\ engine[e] # NONE /\ engine' = [engine EXCEPT ![e] = NONE]
    /\ UNCHANGED <<rvars, plan, receipt, preview, file, open, shown>>

\* the application dies and forgets the previews it shows
HostDies == open # {} /\ open' = {} /\ UNCHANGED <<rvars, plan, receipt, engine, preview, file, shown>>

CleanupNext ==
    \/ Review
    \/ \E t \in Tokens : ClosePreview(t) \/ \E j \in Jobs : OpenPreview(t, j)
    \/ \E p \in Plans, j \in Jobs : MakePlan(p, j)
    \/ \E e \in Engines : \/ \E p \in Plans, d \in BOOLEAN : Gate(e, p, d)
                          \/ ReleaseReview(e) \/ DeleteJob(e) \/ Sweep(e) \/ RecordPreview(e) \/ EngineDies(e)
    \/ HostDies

CleanupSpec == CleanupInit /\ [][CleanupNext]_vars

-----------------------------------------------------------------------------
\* A context is deleted only when no other job refers to it, prepared or not,
\* and nobody else owns it; and when no save was accepted in it since the user
\* was shown the plan.
DeletedAsShown ==
    context # NONE /\ context' = NONE =>
          \E e \in Engines :
              LET p == engine[e].plan
              IN /\ engine[e] # NONE
                 /\ {j \in Jobs : Present(j)} \subseteq {plan[p].job}
                 /\ owners \subseteq {<<"batch", plan[p].job>>}
                 /\ plan[p].delete /\ shown[p] = Saves

\* A job that still exists keeps its claim on the reviews it saved, through
\* every cleanup, crash and retry of others.
ReviewsAreOwned ==
    \A j \in Jobs : Usable(j) /\ (\E n \in Runs : rows[<<j, n>>] # NONE) => <<"batch", j>> \in owners

\* A cleanup recorded as having deleted or released the review did so: the
\* deleted job owns nothing any more, whichever attempt did the work.
ReleaseIsRecorded ==
    \A p \in Plans : plan[p] # NONE /\ plan[p].task = "deleted" /\ plan[p].stamp # NONE
                     /\ plan[p].review \in ReviewDone /\ ~plan[p].changed =>
        /\ <<"batch", plan[p].job>> \notin owners
        /\ plan[p].review = "deleted" => receipt[p] = "deleted"

\* A cleanup that is done leaves no preview file of its plan.
SweptIsGone ==
    \A p \in Plans : plan[p] # NONE /\ plan[p].preview \in PreviewDone =>
        \A t \in plan[p].previews : preview[t] # plan[p].job

\* A cleanup that is done never becomes undone.
DoneIsDone ==
    \A p \in Plans : plan[p] # NONE /\ plan[p].started =>
          /\ plan'[p] # NONE
          /\ plan[p].review \in ReviewDone => plan'[p].review = plan[p].review
          /\ plan[p].preview \in PreviewDone => plan'[p].preview = plan[p].preview

\* A cleanup that reports the review as not existing leaves none: what the task
\* list shows for the state "absent".
AbsentMeansNone ==
    \A p \in Plans : plan[p] # NONE /\ plan[p].task = "deleted" /\ plan[p].review = "absent" =>
        \A n \in Runs : rows[<<plan[p].job, n>>] = NONE
=============================================================================
