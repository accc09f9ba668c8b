--------------------------- MODULE GroupingStore ---------------------------
(***************************************************************************)
(* Grouping the receipts of one job by counterparty                        *)
(* (receipt_grouping_store.py, receipt_grouping_api.py,                    *)
(* receipt_grouping_models.py).  Every request compares what it was told   *)
(* with the stored revision and the reviewed receipts under both database  *)
(* locks, so a request of an outdated view changes nothing; only a refresh *)
(* reads the documents before it takes the locks.  An item keeps what was  *)
(* read, what a person corrected, and the decision derived from both.      *)
(***************************************************************************)
EXTENDS Naturals, FiniteSets, FiniteSetsExt

CONSTANTS
    N,          \* receipts of the job, in the order of their pages
    Names,      \* counterparty names
    Labels,     \* names a person gives a group
    ManualIds,  \* ids of groups a person creates
    Own,        \* company name of each revision of the saved account
    Printed,    \* what the built-in readers find in a receipt under a rectangle
    Ruled,      \* what an active reading rule finds in addition
    Clashing,   \* receipts that contradict the account, by version of the readers
    Readers,    \* concurrent refreshes
    Types,      \* types of special documents
    Decisions,  \* what a review decides of a receipt: its crop, boundary status and type
    Original,   \* what the analysis decided of each
    MaxRev, MaxReviews, MaxVersion, NONE

Segments == 1..N
Rects == {1, 2}
Missing == "missing"
Pending == "pending"
Statuses == {"pending", "needs_review", "confirmed", "page_confirmed", "blocked", "excluded"}
Confirmed == {"confirmed", "page_confirmed"}
Accounts == DOMAIN Own
GroupIds == Names \cup ManualIds \cup Types \cup {Pending}

VARIABLES
    profile,   \* revision of the saved company account
    review,    \* the reviewed receipts
    version,   \* version of the reading and grouping algorithms installed
    rules,     \* whether a reading rule is active
    task,      \* receipt_grouping_tasks
    items,     \* receipt_grouping_items
    groups,    \* receipt_grouping_groups
    history,   \* receipt_grouping_history
    reading,   \* refreshes between their reading and their commit
    exported   \* the last grouped export

vars == <<profile, review, version, rules, task, items, groups, history, reading, exported>>

Record == [rev : 0..MaxReviews, rect : Rects, status : Statuses, type : Types \cup {NONE}]
Item == [rec : Record, excluded : BOOLEAN, special : Types \cup {NONE}, read : Names \cup {Missing}, readver : 0..MaxVersion,
         clash : BOOLEAN, state : {"pending", "ready", "stale"}, name : Names \cup {NONE},
         assign : GroupIds \cup {NONE}, route : {"excluded", "special", "internal", "named", "pending"},
         group : GroupIds \cup {NONE}, label : GroupIds \cup Labels \cup {NONE}, fixed : BOOLEAN]
Group == [label : GroupIds \cup Labels, manual : BOOLEAN]

RecordOf(rev, d) == [rev |-> rev, rect |-> d.rect, status |-> d.status, type |-> d.type]

Init ==
    /\ profile = 1 /\ version = 0 /\ rules = FALSE
    /\ review = [s \in Segments |-> RecordOf(0, Original[s])]
    /\ task = [rev |-> 0, account |-> NONE, seen |-> NONE, version |-> 0]
    /\ items = [s \in Segments |-> NONE]
    /\ groups = [g \in GroupIds |-> NONE]
    /\ history = {} /\ reading = [r \in Readers |-> NONE] /\ exported = NONE

-----------------------------------------------------------------------------
(* The decision for one receipt.                                           *)

Existing == {g \in GroupIds : groups[g] # NONE}
IsNamed(g) == g \in (Names \ {Own[task.account]}) \cup ManualIds
Effective(read, name) == IF name # NONE THEN name ELSE read

Outcome(route, group, label, fixed) == [route |-> route, group |-> group, label |-> label, fixed |-> fixed]

\* What the review means for the item: a special document counts once it is confirmed
Kind(marks, rec) ==
    CASE marks.excluded -> "excluded"
      [] ~marks.excluded /\ marks.special # NONE /\ rec.type # NONE /\ rec.status \in Confirmed -> "special"
      [] OTHER -> "kept"

\* derive_grouping_decision: review before identity before assignment before the
\* name that was read.  A missing group of an assignment is an error.
Decision(kind, special, clash, name, assign, table) ==
    CASE kind = "excluded" -> Outcome("excluded", NONE, NONE, FALSE)
      [] kind = "special" -> Outcome("special", special, special, FALSE)
      [] kind = "kept" /\ clash -> Outcome("pending", Pending, Pending, FALSE)
      [] kind = "kept" /\ ~clash /\ name = Own[task.account] -> Outcome("internal", name, name, FALSE)
      [] kind = "kept" /\ ~clash /\ name # Own[task.account] /\ assign # NONE ->
            Outcome("named", assign, table[assign].label, TRUE)
      [] kind = "kept" /\ ~clash /\ name = Missing /\ assign = NONE -> Outcome("pending", Pending, Pending, FALSE)
      [] OTHER -> Outcome("named", name, name, FALSE)

SameCrop(prev, rec) == prev # NONE /\ prev.rec.rect = rec.rect

\* The marks derived for a crop are stored with what was read of it, and prepare
\* hands both to the next item of the same crop: a mark stays until the crop changes
Marks(prev, rec) ==
    [excluded |-> rec.status = "excluded" \/ (SameCrop(prev, rec) /\ prev.excluded),
     special |-> IF SameCrop(prev, rec) /\ prev.special # NONE THEN prev.special ELSE rec.type]

Corrections(prev) == [name |-> prev.name, assign |-> prev.assign]
NoCorrections == [name |-> NONE, assign |-> NONE]

\* Fault: corrections outlive a boundary that was confirmed or put in doubt
KeptManualMutant(prev, rec) ==
    IF SameCrop(prev, rec) /\ prev.special = Marks(prev, rec).special THEN Corrections(prev) ELSE NoCorrections
\* Corrections stay with a crop while its boundary status and type stay what they were
KeptManual(prev, rec) ==
    IF SameCrop(prev, rec) /\ prev.rec.status = rec.status /\ prev.special = Marks(prev, rec).special
    THEN Corrections(prev) ELSE NoCorrections

\* An assignment falls with the name it was made for
StillMeant(prev, rec, manual, fields) ==
    \/ ~SameCrop(prev, rec) \/ fields.state # "ready"
    \/ Effective(prev.read, manual.name) = Effective(fields.read, manual.name)

\* Fault: an assignment another rule supersedes stays recorded
SettledMutant(assign, decision) == assign
\* ... and with a rule that supersedes it, whose group is then the effective one
Settled(assign, decision) == IF decision.group = assign THEN assign ELSE NONE

\* _build_item with the corrections of "manual"
Rebuilt(prev, rec, fields, manual, table) ==
    LET assign == IF StillMeant(prev, rec, manual, fields) THEN manual.assign ELSE NONE
        marks == Marks(prev, rec)
        decision == Decision(Kind(marks, rec), marks.special, fields.clash,
                             Effective(fields.read, manual.name), assign, table)
    IN [rec |-> rec, excluded |-> marks.excluded, special |-> marks.special, read |-> fields.read, readver |-> fields.readver, clash |-> fields.clash,
        state |-> fields.state, name |-> manual.name, assign |-> Settled(assign, decision),
        route |-> decision.route, group |-> decision.group,
        label |-> decision.label, fixed |-> decision.fixed]

Fields(item) == [read |-> item.read, readver |-> item.readver, clash |-> item.clash, state |-> item.state]

\* _sync_persisted_group_labels: a name a person gave goes to every item of the group
Synced(item, table) ==
    IF item.route \in {"named", "pending"} /\ table[item.group] # NONE /\ table[item.group].manual
    THEN [item EXCEPT !.label = table[item.group].label, !.fixed = TRUE]
    ELSE item

\* _write_groups: one row per group in use, as its first item shows it
Written(its) ==
    [g \in GroupIds |->
        LET users == {s \in Segments : its[s] # NONE /\ its[s].group = g}
        IN IF users = {} THEN NONE ELSE [label |-> its[Min(users)].label, manual |-> its[Min(users)].fixed]]

\* A refresh or a save adds the groups it derives and drops none
Extended(table, its) ==
    [g \in GroupIds |-> IF table[g] # NONE THEN table[g] ELSE Written(its)[g]]

\* _record_history and _record_group_history: the rows before the change, under
\* the revision that replaces them
Recorded(rev, rows) == history \cup {[rev |-> rev, id |-> r.id, was |-> r.was] : r \in rows}

ItemRows(ids) == {[id |-> <<"item", s>>, was |-> items[s]] : s \in {t \in ids : items[t] # NONE}}
GroupRows(ids) == {[id |-> <<"group", g>>, was |-> groups[g]] : g \in ids \cap Existing}

-----------------------------------------------------------------------------
(* The account of the job, chosen before its analysis starts.              *)

SaveAccount ==
    /\ profile + 1 \in Accounts
    /\ profile' = profile + 1
    /\ UNCHANGED <<review, version, rules, task, items, groups, history, reading, exported>>

\* set_account: freezes the revision that is still the current one under the lock
SetAccount ==
    /\ task.seen = NONE /\ task.account # profile
    /\ task' = [task EXCEPT !.account = profile, !.rev = IF task.account = NONE THEN 0 ELSE @ + 1]
    /\ UNCHANGED <<profile, review, version, rules, items, groups, history, reading, exported>>

-----------------------------------------------------------------------------
(* What happens around the grouping: review saves, updates of the program  *)
(* and reading rules.                                                      *)

\* Any decision may be saved, also one that only moves the revision on
SaveReview(s) ==
    /\ review[s].rev < MaxReviews
    /\ \E d \in Decisions : review' = [review EXCEPT ![s] = RecordOf(@.rev + 1, d)]
    /\ UNCHANGED <<profile, version, rules, task, items, groups, history, reading, exported>>

\* A new version of the program: requests of the old one are gone
Update ==
    /\ version < MaxVersion
    /\ version' = version + 1
    /\ reading' = [r \in Readers |-> NONE]
    /\ UNCHANGED <<profile, review, rules, task, items, groups, history, exported>>

SwitchRules ==
    /\ rules' = ~rules
    /\ UNCHANGED <<profile, review, version, task, items, groups, history, reading, exported>>

-----------------------------------------------------------------------------
(* Requests.  Current: what every request but prepare asks for first.      *)

Current == task.seen = review /\ task.version = version

\* What a prepared item starts from: the reading of the same crop is kept, and
\* marked stale once the readers changed
PreparedFields(s) ==
    IF ~SameCrop(items[s], review[s])
    THEN [read |-> Missing, readver |-> version, clash |-> FALSE, state |-> "pending"]
    ELSE [Fields(items[s]) EXCEPT !.state = IF items[s].readver = version THEN @ ELSE "stale"]

PreparedItem(s) ==
    Synced(Rebuilt(items[s], review[s], PreparedFields(s), KeptManual(items[s], review[s]), groups), groups)

\* prepare: every item again from the current review; groups out of use vanish
Prepare ==
    LET prepared == [s \in Segments |-> PreparedItem(s)]
    IN /\ task.account # NONE /\ task.rev < MaxRev
       /\ prepared # items \/ ~Current
       /\ history' = Recorded(task.rev + 1, ItemRows(Segments) \cup GroupRows(GroupIds))
       /\ items' = prepared
       /\ groups' = Written(prepared)
       /\ task' = [task EXCEPT !.rev = @ + 1, !.seen = review, !.version = version]
       /\ UNCHANGED <<profile, review, version, rules, reading, exported>>

\* save: the corrections of one receipt, with the groups the request creates or
\* renames.  All decisions are derived again before anything is stored.
Save(edited, table) ==
    LET synced == [s \in Segments |-> Synced(edited[s], table)]
        changed == {s \in Segments : synced[s] # items[s]}
    IN /\ Current /\ task.rev < MaxRev
       /\ items' = synced
       /\ groups' = Extended(table, synced)
       /\ history' = Recorded(task.rev + 1, ItemRows(changed) \cup GroupRows({g \in GroupIds : table[g] # groups[g]}))
       /\ task' = [task EXCEPT !.rev = @ + 1]
       /\ UNCHANGED <<profile, review, version, rules, reading, exported>>

Corrected(s, name, assign, table) ==
    Rebuilt(items[s], items[s].rec, Fields(items[s]), [name |-> name, assign |-> assign], table)

\* A corrected name takes an assignment with it; a cleared one as well
CorrectName(s, name) ==
    /\ items[s].route # "excluded" /\ name # items[s].name
    /\ name # NONE => items[s].state = "ready" /\ items[s].route # "special" /\ ~items[s].clash
    /\ Save([items EXCEPT ![s] = Corrected(s, name, NONE, groups)], groups)

\* A receipt is moved to a named group, perhaps one created with the request
Assign(s, g, table) ==
    /\ items[s].state = "ready" /\ table[g] # NONE /\ IsNamed(g)
    /\ items[s].route \in {"named", "pending"} /\ ~items[s].clash
    /\ Save([items EXCEPT ![s] = Corrected(s, items[s].name, g, table)], table)

Unassign(s) ==
    /\ items[s].assign # NONE
    /\ Save([items EXCEPT ![s] = Corrected(s, items[s].name, NONE, groups)], groups)

WithGroup(g, label) == [groups EXCEPT ![g] = [label |-> label, manual |-> TRUE]]

CreateGroup(g, label) == g \in ManualIds \ Existing /\ Save(items, WithGroup(g, label))

RenameGroup(g, label) ==
    /\ g \in Existing /\ IsNamed(g) /\ groups[g].label # label
    /\ Save(items, WithGroup(g, label))

SaveEdits ==
    \/ \E s \in Segments, n \in Names \cup {NONE} : items[s] # NONE /\ CorrectName(s, n)
    \/ \E s \in Segments, g \in Existing : items[s] # NONE /\ Assign(s, g, groups)
    \/ \E s \in Segments, g \in ManualIds \ Existing, l \in Labels : items[s] # NONE /\ Assign(s, g, WithGroup(g, l))
    \/ \E s \in Segments : items[s] # NONE /\ Unassign(s)
    \/ \E g \in GroupIds, l \in Labels : CreateGroup(g, l) \/ RenameGroup(g, l)

-----------------------------------------------------------------------------
(* A refresh reads the receipts that need it without any lock, then commits *)
(* under both.                                                             *)

Find(s, rect, ruled) == IF ruled /\ Printed[s][rect] = Missing THEN Ruled[s] ELSE Printed[s][rect]

Clash(s) == <<s, version>> \in Clashing

\* pending_segment_ids, the active rules and _extract_selected
StartRefresh(r, s) ==
    /\ reading[r] = NONE /\ Current
    /\ items[s] # NONE /\ items[s].state # "ready" /\ items[s].route # "excluded"
    /\ reading' = [reading EXCEPT ![r] =
            [segment |-> s, rev |-> task.rev, review |-> review, rules |-> rules,
             found |-> Find(s, review[s].rect, rules), clash |-> Clash(s)]]
    /\ UNCHANGED <<profile, review, version, rules, task, items, groups, history, exported>>

\* The inputs the reading was made from are unchanged under the locks
Undisturbed(r) ==
    /\ reading[r].review = review
    /\ reading[r].rules = rules
    /\ reading[r].rev = task.rev

CommitRefresh(r) ==
    LET s == reading[r].segment
        fields == [read |-> reading[r].found, readver |-> version, clash |-> reading[r].clash, state |-> "ready"]
        item == Synced(Rebuilt(items[s], items[s].rec, fields, KeptManual(items[s], items[s].rec), groups), groups)
        refreshed == [items EXCEPT ![s] = item]
    IN /\ reading[r] # NONE /\ Undisturbed(r) /\ task.rev < MaxRev
       /\ reading' = [reading EXCEPT ![r] = NONE]
       /\ items' = refreshed
       /\ groups' = Extended(groups, refreshed)
       /\ history' = Recorded(task.rev + 1, ItemRows({s}))
       /\ task' = [task EXCEPT !.rev = @ + 1]
       /\ UNCHANGED <<profile, review, version, rules, exported>>

\* The request ends with a conflict, an unreadable source or its process
DropRefresh(r) ==
    /\ reading[r] # NONE
    /\ reading' = [reading EXCEPT ![r] = NONE]
    /\ UNCHANGED <<profile, review, version, rules, task, items, groups, history, exported>>

-----------------------------------------------------------------------------
(* The grouped export (receipt_grouped_export.py) under both locks.        *)

\* _validate_item_binding against the frozen review
BindingHolds(s) == items[s] # NONE /\ items[s].rec.rev = review[s].rev /\ items[s].rec.rect = review[s].rect

\* _resolved and _validate_routes
Exportable(s, withPending) ==
    /\ BindingHolds(s)
    /\ IF review[s].status = "excluded" THEN items[s].route = "excluded"
       ELSE /\ review[s].status \in Confirmed
            /\ items[s].state = "ready" /\ items[s].route # "excluded"
            /\ items[s].route = "pending" => withPending

\* _normalise_grouping_snapshot: item and table agree on the group
Described(s) == items[s].group # NONE => groups[items[s].group] # NONE /\ groups[items[s].group].label = items[s].label

Export(withPending) ==
    /\ exported = NONE /\ task.version = version
    /\ \A s \in Segments : Exportable(s, withPending) /\ Described(s)
    /\ \E s \in Segments : items[s].route # "excluded"
    /\ exported' = [s \in Segments |-> [rec |-> items[s].rec, read |-> items[s].read, group |-> items[s].group]]
    /\ UNCHANGED <<profile, review, version, rules, task, items, groups, history, reading>>

Next ==
    \/ SaveAccount \/ SetAccount \/ Update \/ SwitchRules \/ Prepare \/ SaveEdits
    \/ \E s \in Segments : SaveReview(s)
    \/ \E r \in Readers, s \in Segments : StartRefresh(r, s)
    \/ \E r \in Readers : CommitRefresh(r) \/ DropRefresh(r)
    \/ \E p \in BOOLEAN : Export(p)

Spec == Init /\ [][Next]_vars

-----------------------------------------------------------------------------
GroupingTypeOK ==
    /\ profile \in Accounts /\ version \in 0..MaxVersion /\ rules \in BOOLEAN
    /\ review \in [Segments -> Record]
    /\ task.rev \in 0..MaxRev /\ task.account \in Accounts \cup {NONE} /\ task.version \in 0..MaxVersion
    /\ task.seen = NONE \/ task.seen \in [Segments -> Record]
    /\ items \in [Segments -> Item \cup {NONE}]
    /\ groups \in [GroupIds -> Group \cup {NONE}]
    /\ \A h \in history : h.rev \in 1..MaxRev /\ h.was \in Item \cup Group

\* A recorded assignment is the effective one and its group exists: an assignment to
\* a group that is gone makes every later derivation of the receipt fail
\* (receipt_grouping_models.py:661), so the job could never be prepared again.
AssignmentResolves ==
    \A s \in Segments : items[s] # NONE /\ items[s].assign # NONE =>
        groups[items[s].assign] # NONE /\ items[s].group = items[s].assign

\* An item and the table name its group alike: otherwise the grouped export refuses
\* the job for good as having conflicting definitions (receipt_grouped_export.py:299).
LabelsAgree == \A s \in Segments : items[s] # NONE => Described(s)

\* A field is stored by a refresh only as a reading would find it now, under the
\* reviewed rectangle, the active rules and the installed readers.
ReadingIsCurrent ==
    \A s \in Segments : items[s] # NONE /\ items'[s] # NONE
          /\ items[s].state # "ready" /\ items'[s].state = "ready" =>
            items'[s].read = Find(s, review'[s].rect, rules') /\ items'[s].readver = version'

\* A correction stays until a person replaces it, or its receipt got another crop,
\* another boundary status or another type (receipt_grouping_store.py:551): nothing
\* less takes it, be it an update, a reading or a prepare, and nothing more lets it
\* outlive such a change.
CorrectionsStay ==
    \A s \in Segments : items[s] # NONE /\ items[s].name # NONE /\ items'[s] # items[s] /\ ~SaveEdits =>
            (items'[s].name = items[s].name)
                = (/\ items'[s].rec.rect = items[s].rec.rect
                   /\ items'[s].rec.status = items[s].rec.status
                   /\ items'[s].special = items[s].special)

\* Every row that is replaced is in the history under the revision that replaced it,
\* and no row of the history is lost or overwritten.
HistoryKeeps ==
    /\ history \subseteq history'
    /\ \A s \in Segments : items[s] # NONE /\ items'[s] # items[s] =>
         [rev |-> task'.rev, id |-> <<"item", s>>, was |-> items[s]] \in history'

\* An export contains each receipt with the boundary and decision of the review at
\* that moment, and no receipt the review excludes.
ExportIsReviewed ==
    exported' # exported =>
          \A s \in Segments : /\ exported'[s].rec = review[s]
                              /\ (exported'[s].group = NONE) = (review[s].status = "excluded")

=============================================================================
