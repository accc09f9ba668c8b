-------------------------- MODULE GroupingTrials ---------------------------
(***************************************************************************)
(* Trials of a reading rule over the grouped receipts of a job             *)
(* (receipt_field_rule_application.py, receipt_field_rule_api.py).  A      *)
(* trial notes the revision it started from, reads its receipts a few at a *)
(* time without changing any item, and is applied as one new revision;     *)
(* an applied trial can be undone while nothing else has changed.          *)
(***************************************************************************)
EXTENDS GroupingStore

CONSTANTS
    Trials,
    Matching,   \* receipts the rule under trial applies to
    MaxActive   \* trials computed side by side (8 in the code)

VARIABLE trial  \* receipt_field_rule_operations with their rows

tvars == <<profile, review, version, rules, task, items, groups, history, reading, exported, trial>>

Active == {t \in Trials : trial[t] # NONE /\ trial[t].status \in {"preparing", "ready"}}
Results == {"skipped", "pending", "unchanged", "changed"}

\* check_current: receipts and grouping are those the trial started from
SameBasis(t) == task.rev = trial[t].rev /\ task.seen = trial[t].seen /\ Current

Protected(item) == item.name # NONE \/ item.assign # NONE \/ item.route \in {"excluded", "special"}

-----------------------------------------------------------------------------
\* prepare: the receipts in doubt, or all that are kept; too many computed trials
\* are given up first
PrepareTrial(t, resolved) ==
    LET chosen == {s \in Segments : /\ items[s].route \notin {"excluded", "special"}
                                    /\ resolved \/ items[s].route = "pending" \/ items[s].state # "ready"}
        kept == [u \in Trials |-> IF Cardinality(Active) >= MaxActive /\ u \in Active
                                  THEN [trial[u] EXCEPT !.status = "cancelled"] ELSE trial[u]]
    IN /\ trial[t] = NONE /\ Current /\ chosen # {}
       /\ trial' = [kept EXCEPT ![t] = [status |-> "preparing", rev |-> task.rev, seen |-> task.seen, at |-> 0,
                                        before |-> items, left |-> chosen,
                                        result |-> [s \in {} |-> "skipped"], after |-> items]]
       /\ UNCHANGED vars

\* The receipt as the rule reads it, with no correction to carry over
Tried(item, s) ==
    Rebuilt(item, item.rec, [read |-> Ruled[s], readver |-> version, clash |-> Clash(s), state |-> "ready"],
            KeptManual(item, item.rec), groups)

ResultOf(before, after, s) ==
    CASE Protected(before) \/ s \notin Matching -> "skipped"
      [] ~Protected(before) /\ s \in Matching /\ after.route = "pending" -> "pending"
      [] ~Protected(before) /\ s \in Matching /\ after.route # "pending" /\ Fields(after) = Fields(before) -> "unchanged"
      [] OTHER -> "changed"

\* next_items: the receipts after those completed
Remaining(t) == trial[t].left \ {Min(trial[t].left)}

\* next_items and finish_step: the next receipts in order; a repeated step finds
\* its receipts finished and does nothing
StepTrial(t) ==
    LET s == Min(trial[t].left)
        before == trial[t].before[s]
        after == Tried(before, s)
    IN /\ t \in Active /\ SameBasis(t) /\ trial[t].left # {}
       /\ trial' = [trial EXCEPT ![t] =
            [@ EXCEPT !.left = Remaining(t), !.after = [@ EXCEPT ![s] = after],
                      !.result = [u \in DOMAIN @ \cup {s} |-> IF u = s THEN ResultOf(before, after, s) ELSE @[u]],
                      !.status = IF Remaining(t) = {} THEN "ready" ELSE "preparing"]]
       /\ UNCHANGED vars

CancelTrial(t) ==
    /\ t \in Active
    /\ trial' = [trial EXCEPT ![t].status = "cancelled"]
    /\ UNCHANGED vars

Changed(t) == {s \in DOMAIN trial[t].result : trial[t].result[s] = "changed"}

PublishedGroups(its) == Written(its)

\* _publish: the replaced items, and the table rewritten from all of them
Publish(ids, source) ==
    LET combined == [s \in Segments |-> Synced(IF s \in ids THEN source[s] ELSE items[s], groups)]
    IN IF ids = {} THEN UNCHANGED <<task, items, groups, history>>
       ELSE /\ task.rev < MaxRev
            /\ history' = Recorded(task.rev + 1, ItemRows(ids))
            /\ items' = [s \in Segments |-> IF s \in ids THEN combined[s] ELSE items[s]]
            /\ groups' = PublishedGroups(combined)
            /\ task' = [task EXCEPT !.rev = @ + 1]

Applicable(t) == trial[t].status = "ready" /\ SameBasis(t)

\* apply: as one revision, with the rule saved in the same transaction if asked;
\* a repeated request of a still current application does nothing
ApplyTrial(t, keepRule) ==
    /\ trial[t] # NONE /\ Applicable(t)
    /\ keepRule => \E s \in DOMAIN trial[t].result : trial[t].result[s] \in {"changed", "unchanged"}
    /\ Publish(Changed(t), trial[t].after)
    /\ rules' = (rules \/ keepRule)
    /\ trial' = [trial EXCEPT ![t] = [@ EXCEPT !.status = "applied", !.at = task'.rev]]
    /\ UNCHANGED <<profile, review, version, reading, exported>>

Undoable(t) == trial[t].status = "applied" /\ task.rev = trial[t].at /\ task.seen = trial[t].seen /\ Current

UndoTrial(t) ==
    /\ trial[t] # NONE /\ Undoable(t)
    /\ Publish(Changed(t), trial[t].before)
    /\ trial' = [trial EXCEPT ![t].status = "undone"]
    /\ UNCHANGED <<profile, review, version, rules, reading, exported>>

TrialStep ==
    \E t \in Trials :
        \/ \E resolved \in BOOLEAN : PrepareTrial(t, resolved)
        \/ StepTrial(t) \/ CancelTrial(t) \/ UndoTrial(t)
        \/ \E keepRule \in BOOLEAN : ApplyTrial(t, keepRule)

TrialNext == TrialStep \/ (Next /\ UNCHANGED trial)

TrialInit == Init /\ trial = [t \in Trials |-> NONE]

TrialSpec == TrialInit /\ [][TrialNext]_tvars

-----------------------------------------------------------------------------
TrialTypeOK ==
    /\ GroupingTypeOK
    /\ \A t \in Trials : trial[t] # NONE =>
          /\ trial[t].status \in {"preparing", "ready", "applied", "undone", "cancelled"}
          /\ trial[t].rev \in 1..MaxRev /\ trial[t].at \in 0..MaxRev
          /\ trial[t].left \subseteq Segments /\ DOMAIN trial[t].result \subseteq Segments \ trial[t].left
          /\ \A s \in DOMAIN trial[t].result : trial[t].result[s] \in Results
          /\ trial[t].before \in [Segments -> Item] /\ trial[t].after \in [Segments -> Item]

\* No trial changes a receipt a person corrected, assigned, excluded or classified,
\* whatever happened between its steps.
TrialsKeepManual ==
    trial' # trial => \A s \in {u \in Segments : items[u] # NONE} :
          items[s].name # NONE \/ items[s].assign # NONE \/ items[s].route \in {"excluded", "special"}
              => items'[s] = items[s]

\* Undoing a trial brings back every receipt as it was when the trial started; an
\* undo after another change is refused.
UndoRestores ==
    \A t \in Trials : trial[t] # NONE /\ trial[t].status = "applied" /\ trial'[t].status = "undone" =>
          items' = trial[t].before

\* "Keep previous group definitions when a group table is replaced": a group a person
\* made or named that leaves the table is in the history of that revision.
GroupsKept ==
    \A g \in Existing : groups[g].manual /\ groups'[g] = NONE =>
          [rev |-> task'.rev, id |-> <<"group", g>>, was |-> groups[g]] \in history'
=============================================================================
