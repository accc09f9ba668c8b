--------------------------- MODULE ReviewReceipts ---------------------------
(***************************************************************************)
(* The reviews of receipts of batch jobs (batch_review.py,                 *)
(* receipt_review_store.py, receipt_review_read.py).                       *)
(*                                                                         *)
(* Jobs over the same documents and criteria share one review context and  *)
(* one slot per receipt, but not their decisions: a decision is stored     *)
(* under the result (job and run) it was taken for.  The context describes *)
(* the result that was prepared last.  The model follows one receipt.      *)
(* prepare and save hold the write lock of the batch database around the   *)
(* transaction of the review database, so each is one step here.           *)
(***************************************************************************)
EXTENDS Naturals, FiniteSets

CONSTANTS
    Jobs,     \* batch jobs over the same documents
    Windows,  \* clients that review them
    Statuses, \* what a client may decide
    Shapes,   \* geometries an analysis or a calibration gives the receipt
    MaxRun,   \* bound: result revisions of a job
    MaxSaves, \* bound: accepted saves of a job
    NONE, GONE, SHARED

VARIABLES
    job,     \* batch_jobs: NONE before publication, GONE once deleted
    context, \* review_contexts_v2: the result it was prepared for last
    rows,    \* review_receipt_records_v1, by decision scope
    owners,  \* review_context_owners_v2
    window,  \* what a client holds: the result and the revision it saw
    count,   \* accepted saves of each job (history)
    last     \* the last accepted save of each job (history)

rvars == <<job, context, rows, owners, window, count, last>>

Runs == 1..MaxRun
Results == Jobs \X Runs
Present(j) == job[j] \notin {NONE, GONE}
Usable(j) == Present(j) /\ ~job[j].gate
Result(j) == <<j, job[j].run>>

Record == [job : Jobs, run : Runs, shape : Shapes, rev : 1..MaxSaves, status : Statuses]
Job == [run : Runs, shape : Shapes, gate : BOOLEAN]
Context == [result : Results, shape : Shapes]
Window == [result : Results, rev : 0..MaxSaves]
Legacy == <<"legacy", "unknown">>

ASSUME ReceiptAssumption ==
    /\ MaxRun \in Nat \ {0} /\ MaxSaves \in Nat \ {0} /\ "confirmed" \in Statuses
    /\ NONE \notin Record \cup Job \cup Context \cup Window
    /\ GONE \notin Job \cup {NONE} /\ SHARED \notin Results

ReceiptTypeOK ==
    /\ job \in [Jobs -> {NONE, GONE} \cup Job]
    /\ context \in {NONE} \cup Context
    /\ rows \in [Results \cup {SHARED} -> {NONE} \cup Record]
    /\ \A r \in Results : rows[r] # NONE => <<rows[r].job, rows[r].run>> = r
    /\ rows[SHARED] # NONE => rows[SHARED].status # "excluded"
    /\ window \in [Windows -> {NONE} \cup Window]
    /\ context = NONE => owners = {} /\ \A s \in DOMAIN rows : rows[s] = NONE

\* an empty database, or one an older version wrote: a decision without scope,
\* whose owner is not known (_backfill_unknown_owners)
ReceiptInit ==
    /\ window = [w \in Windows |-> NONE]
    /\ \/ /\ job = [j \in Jobs |-> NONE]
          /\ context = NONE
          /\ rows = [s \in Results \cup {SHARED} |-> NONE]
          /\ owners = {}
          /\ count = [j \in Jobs |-> 0]
          /\ last = [j \in Jobs |-> NONE]
       \/ \E j \in Jobs, x \in Shapes :
             LET old == [job |-> j, run |-> 1, shape |-> x, rev |-> 1, status |-> "confirmed"]
             IN /\ job = [i \in Jobs |-> IF i = j THEN [run |-> 1, shape |-> x, gate |-> FALSE] ELSE NONE]
                /\ context = [result |-> <<j, 1>>, shape |-> x]
                /\ rows = [s \in Results \cup {SHARED} |-> IF s = SHARED THEN old ELSE NONE]
                /\ owners = {Legacy}
                /\ count = [i \in Jobs |-> IF i = j THEN 1 ELSE 0]
                /\ last = [i \in Jobs |-> IF i = j THEN old ELSE NONE]

-----------------------------------------------------------------------------
\* the worker publishes a job
Publish(j, x) ==
    /\ job[j] = NONE
    /\ job' = [job EXCEPT ![j] = [run |-> 1, shape |-> x, gate |-> FALSE]]
    /\ UNCHANGED <<context, rows, owners, window, count, last>>

\* a calibration publishes a later result of the same job
Republish(j, x) ==
    /\ Usable(j) /\ job[j].run < MaxRun
    /\ job' = [job EXCEPT ![j].run = @ + 1, ![j].shape = x]
    /\ UNCHANGED <<context, rows, owners, window, count, last>>

\* the newest decision taken under a result of the job; two that tie were copied
\* from one another by prepare
Prior(j) ==
    LET mine == {rows[r] : r \in {r \in Results : r[1] = j /\ rows[r] # NONE}}
    IN IF mine = {} THEN NONE
       ELSE CHOOSE d \in mine : \A e \in mine : e.rev < d.rev \/ (e.rev = d.rev /\ e.run <= d.run)

\* a decision without scope belongs to the job it names
Unscoped(j) == IF rows[SHARED] # NONE /\ rows[SHARED].job = j THEN rows[SHARED] ELSE NONE

\* current_record
CurrentRecord(r) ==
    IF rows[r] # NONE THEN rows[r]
    ELSE IF Prior(r[1]) # NONE THEN Prior(r[1])
    ELSE Unscoped(r[1])
RevisionFor(r) == IF CurrentRecord(r) = NONE THEN 0 ELSE CurrentRecord(r).rev

\* Fault: an exclusion is carried to the next result
CarriesMutant(d, r, x) == d # NONE /\ d.shape = x
\* a decision goes on for the same geometry, an exclusion only under its result
Carries(d, r, x) ==
    d # NONE /\ d.shape = x /\ (d.status = "excluded" => d.run = r[2])

\* the copy of the decision is scoped when the decision was
CarriedScope(d, r) == IF rows[<<d.job, d.run>>] # NONE THEN r ELSE SHARED

Rebound(d, r) == [d EXCEPT !.run = r[2]]

\* prepare_batch_review: the context is bound to the present result of the job
PrepareReview(w, j) ==
    LET r == Result(j)
        d == CurrentRecord(r)
    IN /\ Usable(j)
       /\ context' = [result |-> r, shape |-> job[j].shape]
       /\ owners' = owners \cup {<<"batch", j>>}
       /\ rows' = IF Carries(d, r, job[j].shape)
                  THEN [rows EXCEPT ![CarriedScope(d, r)] = Rebound(d, r)]
                  ELSE rows
       /\ window' = [window EXCEPT ![w] = [result |-> r, rev |-> RevisionFor(r)]]
       /\ UNCHANGED <<job, count, last>>

\* a read or a save finds a record that prepare would have to repair
Unrepaired ==
    LET d == CurrentRecord(context.result)
    IN Carries(d, context.result, context.shape) /\ d.run # context.result[2]

\* _validated_review_binding for the present result of a job
Bound(r) ==
    /\ Usable(r[1]) /\ Result(r[1]) = r
    /\ context = [result |-> r, shape |-> job[r[1]].shape]
    /\ ~Unrepaired

\* read_batch_receipt_review_page
ReadPage(w, j) ==
    /\ Present(j) /\ Bound(Result(j))
    /\ window' = [window EXCEPT ![w] = [result |-> Result(j), rev |-> RevisionFor(Result(j))]]
    /\ UNCHANGED <<job, context, rows, owners, count, last>>

\* _validate_exclusion_transition against the stored decision of this result
MayDecide(d, status) ==
    LET same == d # NONE /\ d.shape = context.shape /\ d.run = context.result[2]
    IN /\ same /\ d.status = "blocked" => status \in {"blocked", "excluded"}
       /\ same /\ d.status = "excluded" => status \in {"excluded", "needs_review"}

UpToDate(w) == window[w].rev = RevisionFor(window[w].result)

\* every edit is stored under its own result
SaveScope(r, status) == r

\* save_batch_receipt_review
SaveReview(w, status) ==
    LET r == window[w].result
        new == [job |-> r[1], run |-> r[2], shape |-> context.shape,
                rev |-> RevisionFor(r) + 1, status |-> status]
    IN /\ window[w] # NONE
       /\ Bound(r)
       /\ count[r[1]] < MaxSaves
       /\ UpToDate(w)
       /\ MayDecide(CurrentRecord(r), status)
       /\ rows' = [rows EXCEPT ![SaveScope(r, status)] = new]
       /\ window' = [window EXCEPT ![w].rev = new.rev]
       /\ count' = [count EXCEPT ![r[1]] = @ + 1]
       /\ last' = [last EXCEPT ![r[1]] = new]
       /\ UNCHANGED <<job, context, owners>>

ReviewStep ==
    \/ \E j \in Jobs, x \in Shapes : Publish(j, x) \/ Republish(j, x)
    \/ \E w \in Windows, j \in Jobs : PrepareReview(w, j) \/ ReadPage(w, j)
    \/ \E w \in Windows, status \in Statuses : SaveReview(w, status)

ReceiptSpec == ReceiptInit /\ [][ReviewStep]_rvars

-----------------------------------------------------------------------------
\* The revision a job sees counts the saves accepted for it, over all its
\* results: no save of another window, no copy to a later result, no review of
\* another job in the same context makes one of its saves disappear.
EverySaveCounts ==
    \A j \in Jobs : Usable(j) => RevisionFor(Result(j)) = count[j]

\* What a job shows is the decision it took last, for the geometry it was taken
\* for; an exclusion only under the result it was taken under.
ReviewIsOwn ==
    context # NONE /\ Present(context.result[1]) =>
        LET r == context.result
            d == CurrentRecord(r)
        IN Carries(d, r, context.shape) =>
              /\ last[r[1]] # NONE
              /\ last[r[1]].status = d.status /\ last[r[1]].shape = d.shape
              /\ d.status = "excluded" => last[r[1]].run = r[2]

\* A save is only accepted from a window that has seen every save accepted for
\* the job before, under whatever result: no decision is overwritten unseen.
SaverSawAll ==
    \A j \in Jobs : count'[j] # count[j] =>
          \E w \in Windows : /\ window[w] # NONE /\ window[w].result[1] = j
                             /\ window[w].rev = count[j] /\ window'[w].rev = count'[j]

\* A read never finds a binding that prepare left behind: the recovery read does
\* not report as corrupt what prepare and save wrote.
BindingIsCurrent == context # NONE => ~Unrepaired
=============================================================================
