------------------------- MODULE CalibrationJournal -------------------------
(***************************************************************************)
(* Rounds of layout calibration of one job (receipt_calibration_journal.py,*)
(* receipt_layout_review.py).  A round changes page checkpoints and review *)
(* decisions, which live in two databases without a common transaction:    *)
(*   - the batch database decides: checkpoints, result revision, decisions *)
(*     and the state of the round commit together;                         *)
(*   - the review database is a projection, replaced afterwards; the batch *)
(*     write lock is held meanwhile, but a crash can fall between the two. *)
(* A request (save, prepare) first recovers what an earlier one left.      *)
(* Two receipts stand for all: "moved" is changed by every round, "kept"   *)
(* is on a page no round selects.                                          *)
(***************************************************************************)
EXTENDS Naturals, FiniteSets

CONSTANTS
    Rounds,   \* operations; a round's id stands for its result revision too
    FIRST,    \* the revision the worker published
    Modes,    \* "calibration" confirms what it moves, "template" only suggests
    Shapes,   \* geometries a round may give
    Statuses, \* what a client may decide
    MaxRev,   \* bound: record revisions
    NONE, OTHERJOB

RoundAssumption == Rounds \subseteq Nat /\ FIRST \in Nat \ Rounds

VARIABLES
    result,  \* batch_jobs.result_revision
    pages,   \* the layout the page checkpoints were computed with
    layout,  \* batch_snapshots: the layout of each published result
    op,      \* batch_receipt_calibrations with its transitions
    undo,    \* batch_receipt_calibration_undos
    context, \* review_contexts_v2: the result it is bound to, OTHERJOB: of another job
    rows,    \* review_receipt_records_v1 of this job
    passed,  \* requests that found nothing to recover and go on
    truth    \* what was decided under each result (history)

vars == <<result, pages, layout, op, undo, context, rows, passed, truth>>

Results == Rounds \cup {FIRST}
Receipts == {"moved", "kept"}
Decisions == Statuses \cup {"needs_review", "confirmed"}
Layout == [level : Nat, shape : Shapes]
Initial == [level |-> 0, shape |-> CHOOSE s \in Shapes : TRUE]
Undecided == [x \in Receipts |-> NONE]

Init ==
    /\ result = FIRST /\ pages = Initial
    /\ layout = [r \in Results |-> IF r = FIRST THEN Initial ELSE NONE]
    /\ op = [o \in Rounds |-> NONE] /\ undo = [o \in Rounds |-> NONE]
    /\ context = NONE /\ rows = {} /\ passed = {}
    /\ truth = [r \in Results |-> Undecided]

-----------------------------------------------------------------------------
\* A receipt is identified by its slot and the level of its page's layout: rounds
\* from one base give the same identity, even when one was undone or had another mode.
Geometry(x, r) == IF x = "kept" THEN Initial ELSE layout[r]

Latest(S) == CHOOSE d \in S : \A e \in S : e.rev < d.rev \/ (e.rev = d.rev /\ e.result <= d.result)

\* current_record
Current(rs, x, r) ==
    LET same == {d \in rs : d.receipt = x /\ d.geometry.level = Geometry(x, r).level}
        own == {d \in same : d.result = r}
    IN IF own # {} THEN Latest(own) ELSE IF same # {} THEN Latest(same) ELSE NONE

RevisionOf(rs, x, r) == IF Current(rs, x, r) = NONE THEN 0 ELSE Current(rs, x, r).rev

Restorable(rs, x, r) ==
    LET d == Current(rs, x, r)
    IN d # NONE /\ d.geometry = Geometry(x, r) /\ (d.status = "excluded" => d.result = r)

Shown(rs, x, r) == IF Restorable(rs, x, r) THEN Current(rs, x, r).status ELSE NONE

\* _review_digest of what read_receipt_review_snapshot restores
View(rs, r) == [x \in Receipts |-> [rev |-> RevisionOf(rs, x, r), status |-> Shown(rs, x, r)]]

\* ReviewStoreV2.prepare_batch: copy what still holds to the result prepared
Carried(rs, r) ==
    rs \cup {[Current(rs, x, r) EXCEPT !.result = r] : x \in {x \in Receipts : Restorable(rs, x, r)}}

\* _upsert(..., scoped=True) of one decision per receipt on top of the present revision
Written(rs, r, status) ==
    LET decided == {x \in Receipts : status[x] # NONE}
    IN {d \in rs : ~(\E x \in decided : d.receipt = x /\ d.result = r /\ d.geometry.level = Geometry(x, r).level)}
       \cup {[receipt |-> x, geometry |-> Geometry(x, r), result |-> r,
              rev |-> RevisionOf(rs, x, r) + 1, status |-> status[x]] : x \in decided}

\* _validated_review_binding: the review store is bound to the job's result and
\* holds nothing that prepare would have to repair
Bound(r) ==
    /\ result = r /\ context = r
    /\ \A x \in Receipts : Restorable(rows, x, r) => Current(rows, x, r).result = r

Pending == {o \in Rounds : op[o] # NONE /\ op[o].state = "committed"}
PendingUndo == {o \in Rounds : undo[o] # NONE /\ undo[o].state = "committed"}

-----------------------------------------------------------------------------
\* prepare_receipt_template_apply: a template only goes where nothing is decided
TemplateApplies == Shown(rows, "moved", result) = NONE

\* retain_calibration_preview: all that the save may rely on
Retained(mode, shape) ==
    [state |-> "preview", base |-> result, seen |-> View(rows, result), proj |-> NONE,
     mode |-> mode, shape |-> shape]

\* preview_receipt_calibration: the geometry a client drew, recomputed
Preview(o, mode, shape) ==
    /\ op[o] = NONE
    /\ Bound(result)
    /\ mode = "template" => TemplateApplies
    /\ op' = [op EXCEPT ![o] = Retained(mode, shape)]
    /\ UNCHANGED <<result, pages, layout, undo, context, rows, passed, truth>>

\* cancel_calibration_preview
CancelPreview(o) ==
    /\ op[o] # NONE /\ op[o].state = "preview"
    /\ op' = [op EXCEPT ![o].state = "cancelled"]
    /\ UNCHANGED <<result, pages, layout, undo, context, rows, passed, truth>>

Recovered == Pending = {} /\ PendingUndo = {}

\* recover_receipt_calibration at the start of save and of prepare, nothing left
PassRecovery(request) ==
    /\ Recovered
    /\ passed' = passed \cup {request}
    /\ UNCHANGED <<result, pages, layout, op, undo, context, rows, truth>>

\* assert_calibration_current and the fingerprint of the preparation
Stale(o) ==
    ~(/\ Bound(op[o].base)
      /\ pages = layout[op[o].base]
      /\ View(rows, op[o].base) = op[o].seen)

\* _review_transition: what is decided about a receipt after the round
After(o, x) ==
    LET before == op[o].seen[x].status
    IN IF x = "kept" THEN before
       ELSE IF before = "excluded" THEN "needs_review" \* _exclusion_requires_review
       ELSE IF op[o].mode = "template" THEN NONE
       ELSE "confirmed"

Decided(o) == [x \in Receipts |-> After(o, x)]

\* _target_layout: every round starts a new level of identities
NextLayout(o) == [level |-> layout[op[o].base].level + 1, shape |-> op[o].shape]

\* save_calibration_preview: the authoritative transaction (_publish)
Commit(o) ==
    /\ <<"save", o>> \in passed
    /\ op[o].state = "preview"
    /\ ~Stale(o)
    /\ layout' = [layout EXCEPT ![o] = NextLayout(o)]
    /\ result' = o
    /\ pages' = layout'[o]
    /\ op' = [op EXCEPT ![o].state = "committed"]
    /\ passed' = passed \ {<<"save", o>>}
    /\ truth' = [truth EXCEPT ![o] = Decided(o)]
    /\ UNCHANGED <<undo, context, rows>>

\* the part of _project_reviews in the review database: replace, or recognise
\* that it was replaced before
Projectable(o) ==
    /\ result = o
    /\ \/ context = op[o].base /\ View(rows, op[o].base) = op[o].seen
       \/ context = o /\ \A x \in Receipts : Shown(rows, x, o) = After(o, x)

Projected(o) == IF context = o THEN rows ELSE Written(Carried(rows, o), o, Decided(o))

\* _project_reviews: the review database commits first; the process may die
\* before the batch database does
Project(o, dies) ==
    /\ o \in Pending /\ Cardinality(Pending \cup PendingUndo) = 1
    /\ Projectable(o)
    /\ rows' = Projected(o)
    /\ context' = o
    /\ op' = IF dies THEN op ELSE [op EXCEPT ![o].state = "applied", ![o].proj = View(rows', o)]
    /\ UNCHANGED <<result, pages, layout, undo, passed, truth>>

-----------------------------------------------------------------------------
\* _assert_undo_review_precondition, _undo_page_maps: nothing happened since
Undoable(o) ==
    /\ result = o /\ context = o
    /\ View(rows, o) = op[o].proj
    /\ pages = layout[o]

\* undo_calibration_operation: the authoritative transaction
StartUndo(o) ==
    /\ op[o] # NONE /\ op[o].state = "applied" /\ undo[o] = NONE
    /\ Undoable(o)
    /\ result' = op[o].base
    /\ pages' = layout[op[o].base]
    /\ undo' = [undo EXCEPT ![o] = [state |-> "committed", proj |-> NONE]]
    /\ UNCHANGED <<layout, op, context, rows, passed, truth>>

\* _undo_projection_matches: an undo that was projected before
UndoMatches(o) ==
    \A x \in Receipts :
        LET before == op[o].seen[x]
        IN /\ Shown(rows, x, op[o].base) = before.status
           /\ RevisionOf(rows, x, op[o].base) = IF before.status = NONE THEN 0 ELSE before.rev + 1

UndoProjectable(o) ==
    /\ result = op[o].base
    /\ \/ context = o /\ View(rows, o) = op[o].proj
       \/ context = op[o].base /\ UndoMatches(o)

Restored(o) ==
    IF context = op[o].base THEN rows
    ELSE Written(Carried(rows, op[o].base), op[o].base, [x \in Receipts |-> op[o].seen[x].status])

\* _project_calibration_undo
ProjectUndo(o, dies) ==
    /\ o \in PendingUndo
    /\ UndoProjectable(o)
    /\ rows' = Restored(o)
    /\ context' = op[o].base
    /\ undo' = IF dies THEN undo
               ELSE [undo EXCEPT ![o] = [state |-> "applied", proj |-> View(rows', op[o].base)]]
    /\ UNCHANGED <<result, pages, layout, op, passed, truth>>

-----------------------------------------------------------------------------
\* prepare_batch_review
PrepareReview(r) ==
    /\ <<"prepare", r>> \in passed
    /\ result = r
    /\ context' = r
    /\ rows' = Carried(rows, r)
    /\ passed' = passed \ {<<"prepare", r>>}
    /\ UNCHANGED <<result, pages, layout, op, undo, truth>>

\* another job over the same documents prepares its review
OtherPrepares ==
    /\ context' = OTHERJOB
    /\ UNCHANGED <<result, pages, layout, op, undo, rows, passed, truth>>

\* save_batch_receipt_review by a client that has read the present revision
SaveReview(x, status) ==
    /\ Bound(result)
    /\ RevisionOf(rows, x, result) < MaxRev
    /\ Shown(rows, x, result) = "excluded" => status \in {"excluded", "needs_review"}
    /\ rows' = Written(rows, result, [y \in Receipts |-> IF y = x THEN status ELSE NONE])
    /\ truth' = [truth EXCEPT ![result][x] = status]
    /\ UNCHANGED <<result, pages, layout, op, undo, context, passed>>

Next ==
    \/ \E o \in Rounds, mode \in Modes, shape \in Shapes : Preview(o, mode, shape)
    \/ \E o \in Rounds : CancelPreview(o) \/ Commit(o) \/ StartUndo(o)
    \/ \E o \in Rounds : op[o] # NONE /\ op[o].state = "preview" /\ PassRecovery(<<"save", o>>)
    \/ \E o \in Rounds, dies \in BOOLEAN : Project(o, dies) \/ ProjectUndo(o, dies)
    \/ PassRecovery(<<"prepare", result>>)
    \/ \E r \in Results : PrepareReview(r)
    \/ OtherPrepares
    \/ \E x \in Receipts, status \in Statuses : SaveReview(x, status)

Spec == Init /\ [][Next]_vars

-----------------------------------------------------------------------------
Digest == [Receipts -> [rev : Nat, status : Decisions \cup {NONE}]]

CalibrationTypeOK ==
    /\ result \in Results /\ pages \in Layout
    /\ layout \in [Results -> {NONE} \cup Layout]
    /\ op \in [Rounds -> {NONE} \cup
          [state : {"preview", "committed", "applied", "cancelled"}, base : Results, seen : Digest,
           proj : {NONE} \cup Digest, mode : Modes, shape : Shapes]]
    /\ undo \in [Rounds -> {NONE} \cup [state : {"committed", "applied"}, proj : {NONE} \cup Digest]]
    /\ context \in {NONE, OTHERJOB} \cup Results
    /\ rows \subseteq [receipt : Receipts, geometry : Layout, result : Results, rev : Nat, status : Decisions]
    /\ \A d, e \in rows :
          <<d.receipt, d.geometry.level, d.result>> = <<e.receipt, e.geometry.level, e.result>> => d = e
    /\ passed \subseteq {"save", "prepare"} \X Results
    /\ truth \in [Results -> [Receipts -> {NONE} \cup Decisions]]

\* What a template only suggested shows the confirmation of an undone calibration that
\* had drawn the same geometry (see SuggestionStaysOpen).
Revived(o) ==
    /\ op[o].mode = "template"
    /\ \E p \in Rounds : undo[p] # NONE /\ op[p].mode = "calibration" /\ layout[p] = layout[o]

\* Whenever a review can be read, it shows for every receipt what was decided
\* last under the present result: the decisions of a round with its checkpoints,
\* those before it after its undo, a later decision of a client, never a mixture
\* of an old projection with a new result; and of an undone round nothing but, where
\* a template suggests the same geometry, its confirmation.
NeverMixed ==
    Bound(result) => \A x \in Receipts :
        \/ Shown(rows, x, result) = truth[result][x]
        \/ /\ x = "moved" /\ truth[result][x] = NONE /\ Shown(rows, x, result) = "confirmed"
           /\ result \in Rounds /\ Revived(result)

\* "A template suggests geometry; it is not a human review decision"
\* (receipt_calibration_journal.py:212): a receipt a template was applied to shows no
\* decision until a person makes one.  The code does not keep to it.
SuggestionStaysOpen ==
    Bound(result) /\ result \in Rounds =>
        (op[result].mode = "template" /\ truth[result]["moved"] = NONE => Shown(rows, "moved", result) = NONE)

\* An undo never takes back more than its round: it is refused once a client has
\* decided something else under the result of the round.
UndoTakesOnlyItsRound ==
    \A o \in Rounds : undo[o] = NONE /\ undo'[o] # NONE => truth[o] = Decided(o)

\* A round reported as applied was projected completely and once: all its
\* decisions are there and the revisions of receipts it did not move are one above
\* those it found, whatever died and was retried in between.
ProjectedOnce ==
    \A o \in Rounds : op[o] # NONE /\ op[o].proj # NONE =>
        /\ \A x \in Receipts :
              \/ op[o].proj[x].status = After(o, x)
              \/ x = "moved" /\ After(o, x) = NONE /\ op[o].proj[x].status = "confirmed" /\ Revived(o)
        /\ op[o].proj["kept"].rev =
              op[o].seen["kept"].rev + (IF op[o].seen["kept"].status = NONE THEN 0 ELSE 1)

\* receipt-layout-design.md: preparing the review after a restart recovers the
\* round that was left committed.
RestartRecovers == \A o \in Pending : Projectable(o)
=============================================================================
