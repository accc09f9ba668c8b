-------------------------- MODULE LayoutTemplates --------------------------
(***************************************************************************)
(* Reusable layout templates (layout_template_store.py,                    *)
(* receipt_layout_reference.py, receipt_layout_history.py).  A calibration *)
(* round may register the positions it confirmed as a template, new or as  *)
(* the next version of one; undoing the round must withdraw every template *)
(* that contains its positions.  The templates live in the review          *)
(* database, the markers of undone rounds in the batch database and only   *)
(* as long as their job.  Every round here is of a job of its own.         *)
(***************************************************************************)
EXTENDS Naturals, FiniteSets

CONSTANTS Rounds, Slots, NONE

VARIABLES
    round,    \* each round in the batch database; "gone" with its job
    intent,   \* the template a save asked for, kept with the round for retries
    tmpl,     \* layout_templates, by the round that registered the row
    withdrawn,\* layout_template_withdrawals
    undone    \* rounds a client has undone (history)

vars == <<round, intent, tmpl, withdrawn, undone>>

Row == [series : Rounds, version : 1..Cardinality(Rounds), active : BOOLEAN, sources : [Slots -> Rounds \cup {NONE}]]

Init ==
    /\ round = [o \in Rounds |-> "none"]
    /\ intent = [o \in Rounds |-> NONE]
    /\ tmpl = [o \in Rounds |-> NONE]
    /\ withdrawn = {} /\ undone = {}

-----------------------------------------------------------------------------
Saved == {o \in Rounds : tmpl[o] # NONE}
Series(s) == {o \in Saved : tmpl[o].series = s}
Sources(o) == {tmpl[o].sources[s] : s \in Slots} \ {NONE}

IsHead(o) == \A p \in Series(tmpl[o].series) : tmpl[p].version <= tmpl[o].version

\* _undone_operations: the markers of jobs that still exist
Marked == {o \in Rounds : round[o] \in {"undoing", "undone"}}

Hidden(o) == (Sources(o) \cup {o}) \cap (withdrawn \cup Marked) # {}

\* reusable_templates: the newest row of a series, unless inactive or withdrawn
Usable(o) == o \in Saved /\ IsHead(o) /\ tmpl[o].active /\ ~Hidden(o)

\* _update_target under the write lock of the template database
Updatable(o) == o \in Saved /\ IsHead(o) /\ tmpl[o].active /\ Sources(o) \cap withdrawn = {}

-----------------------------------------------------------------------------
\* save_calibration_preview: the round is applied; a target that was chosen to be
\* updated is validated first
SaveRound(o, target, slots) ==
    /\ round[o] = "none"
    /\ target # NONE => Updatable(target) /\ ~Hidden(target)
    /\ round' = [round EXCEPT ![o] = "applied"]
    /\ intent' = [intent EXCEPT ![o] = [target |-> target, slots |-> slots,
                                        ops |-> IF target = NONE THEN {} ELSE Sources(target) \cup {target}]]
    /\ UNCHANGED <<tmpl, withdrawn, undone>>

\* merge_reference_evidence: positions this round did not confirm stay with the
\* round that did
Merged(o) ==
    [s \in Slots |->
        IF s \in intent[o].slots THEN o
        ELSE IF intent[o].target = NONE \/ intent[o].slots = Slots THEN NONE
        ELSE tmpl[intent[o].target].sources[s]]

NextVersion(o) ==
    LET target == intent[o].target
    IN IF target = NONE THEN [series |-> o, version |-> 1, active |-> TRUE, sources |-> Merged(o)]
       ELSE [series |-> tmpl[target].series, version |-> tmpl[target].version + 1, active |-> TRUE,
             sources |-> Merged(o)]

\* the registration at the end of a save or of its retry; a round that has its
\* row already is only acknowledged
Register(o) ==
    /\ round[o] = "applied" /\ intent[o] # NONE
    /\ intent[o].ops \cap Marked = {}
    /\ o \notin withdrawn
    /\ tmpl[o] = NONE
    /\ intent[o].target # NONE => Updatable(intent[o].target)
    /\ tmpl' = [p \in Rounds |->
           IF p = o THEN NextVersion(o)
           ELSE IF p \in Series(NextVersion(o).series) THEN [tmpl[p] EXCEPT !.active = FALSE]
           ELSE tmpl[p]]
    /\ UNCHANGED <<round, intent, withdrawn, undone>>

\* undo_calibration_operation: the authoritative transaction
StartUndo(o) ==
    /\ round[o] = "applied"
    /\ round' = [round EXCEPT ![o] = "undoing"]
    /\ undone' = undone \cup {o}
    /\ UNCHANGED <<intent, tmpl, withdrawn>>

\* Fault: only the row the round registered is withdrawn, not what was built on it
AffectedMutant(o) == {p \in Saved : p = o}
\* withdraw_source_operation: every active row with a position of the round
Affected(o) == {p \in Saved : p = o \/ o \in Sources(p)}

Withdraw(o) ==
    /\ o \in Marked
    /\ withdrawn' = withdrawn \cup {o}
    /\ tmpl' = [p \in Rounds |-> IF p \in Affected(o) THEN [tmpl[p] EXCEPT !.active = FALSE] ELSE tmpl[p]]
    /\ UNCHANGED <<round, intent, undone>>

\* the undo goes on after the withdrawal; recover_receipt_calibration, after a
\* crash, projects the undo without it
FinishUndo(o) ==
    /\ round[o] = "undoing"
    /\ round' = [round EXCEPT ![o] = "undone"]
    /\ UNCHANGED <<intent, tmpl, withdrawn, undone>>

\* LayoutTemplateStore.deactivate, for the whole series
Deactivate(o) ==
    /\ o \in Saved
    /\ tmpl' = [p \in Rounds |->
           IF p \in Series(tmpl[o].series) THEN [tmpl[p] EXCEPT !.active = FALSE] ELSE tmpl[p]]
    /\ UNCHANGED <<round, intent, withdrawn, undone>>

\* execute_cleanup deletes the job of the round: its operations and undo markers
\* are deleted with it
DeleteJob(o) ==
    /\ round[o] \in {"applied", "undone"}
    /\ round' = [round EXCEPT ![o] = "gone"]
    /\ intent' = [intent EXCEPT ![o] = NONE]
    /\ UNCHANGED <<tmpl, withdrawn, undone>>

Next ==
    \/ \E o \in Rounds, target \in Rounds \cup {NONE}, slots \in SUBSET Slots \ {{}} : SaveRound(o, target, slots)
    \/ \E o \in Rounds : Register(o) \/ StartUndo(o) \/ Withdraw(o) \/ FinishUndo(o) \/ Deactivate(o) \/ DeleteJob(o)

Spec == Init /\ [][Next]_vars

-----------------------------------------------------------------------------
TemplateTypeOK ==
    /\ round \in [Rounds -> {"none", "applied", "undoing", "undone", "gone"}]
    /\ intent \in [Rounds -> {NONE} \cup
          [target : Rounds \cup {NONE}, slots : SUBSET Slots \ {{}}, ops : SUBSET Rounds]]
    /\ tmpl \in [Rounds -> {NONE} \cup Row]
    /\ withdrawn \subseteq undone /\ undone \subseteq Rounds

\* A series is a chain: its rows have distinct versions and only the newest may be
\* active, so of two rounds that update one template at the same time one fails.
SeriesIsChain ==
    \A o, p \in Saved : o # p /\ tmpl[o].series = tmpl[p].series =>
        tmpl[o].version # tmpl[p].version /\ (tmpl[o].active => tmpl[p].version < tmpl[o].version)

\* Once a round is withdrawn no active row contains a position it confirmed,
\* however versions were composed and whichever retry registers late.
WithdrawnIsInactive ==
    \A o \in Saved : tmpl[o].active => (Sources(o) \cup {o}) \cap withdrawn = {}

\* From the moment an undo is decided no analysis and no calibration is offered
\* the positions of the round, not even before the templates are withdrawn.
HiddenAtOnce ==
    \A o \in Rounds : Usable(o) => \A p \in Sources(o) : round[p] \notin {"undoing", "undone"}

\* A new version keeps every confirmed position of the one it replaces, unless it
\* confirmed all positions anew.
VersionKeepsPositions ==
    \A o \in Saved : \A p \in Saved' \ Saved :
          tmpl[o].active /\ tmpl'[p].series = tmpl[o].series =>
             \A s \in Slots : tmpl[o].sources[s] # NONE => tmpl'[p].sources[s] # NONE

\* manual-test-checklist.md: new tasks do not use positions of an undone round.
UndoneStaysOut ==
    \A o \in Rounds : Usable(o) => Sources(o) \cap undone = {}
=============================================================================
