----------------------------- MODULE ExportScope -----------------------------
(***************************************************************************)
(* What an export takes and which files it makes: src/engine/              *)
(* export_scope.py, receipt_export_scope.py, export_plan.py,               *)
(* receipt_export_plan.py and the planning half of                         *)
(* receipt_grouped_export.py.  A client asks for items with the revisions  *)
(* it has seen; under the locks of both databases the request is checked   *)
(* against the published result, the source files, the review and the      *)
(* grouping, and frozen; the same check, with the same outcome, is         *)
(* required before previews are made and before they are delivered.        *)
(*                                                                         *)
(* A page is a column of cells and a crop a set of them; a name is the     *)
(* sequence of its parts.                                                  *)
(***************************************************************************)
EXTENDS Integers, FiniteSets, SequencesExt

CONSTANTS
    Original,   \* the published items: source, page, position, area, and
                \* whether the analysis was sure of it
    Whole,      \* the cells of a page
    Crops,      \* the crops a person draws
    Receipts,   \* the job splits receipts, otherwise it finds fragments
    Stem,       \* the file name of each source, without its extension
    Label,      \* the display name of each group, Pending among them
    Route,      \* the group an item is derived into, or Pending
    Pending,    \* no counterparty known
    MaxChanges, \* bound: changes of review, grouping and files
    Absent

VARIABLES
    review,     \* the persisted record of each item
    grouping,   \* its revision, the review it was derived from, its routes
    changed,    \* the source files whose bytes are not the analysed ones
    seen,       \* the revisions the client shows: of each item, of the grouping
    intent,     \* the export: its frozen scope, its plan, its state
    changes     \* bound

vars == <<review, grouping, changed, seen, intent, changes>>

Items == DOMAIN Original
Sources == DOMAIN Stem
Grouped == {"grouped", "grouped_merged"}
Confirmed == {"confirmed", "page_confirmed", "group_confirmed"}

Revision(i) == IF review[i] = Absent THEN 0 ELSE review[i].revision
Revisions == [i \in Items |-> Revision(i)]

Init ==
    /\ review = [i \in Items |-> Absent]
    /\ grouping = [revision |-> 0, of |-> [i \in Items |-> 0], route |-> Route]
    /\ changed = {}
    /\ seen = [items |-> [i \in Items |-> 0], grouping |-> 0]
    /\ intent = Absent
    /\ changes = 0

-----------------------------------------------------------------------------
(* The check of a request. *)

\* A record of a receipt that nobody touched is the automatic candidate.
Candidate(i) ==
    [revision |-> 0, full |-> FALSE, crop |-> Original[i].area,
     status |-> IF Original[i].sure THEN "confirmed" ELSE "pending"]

Current(i) == IF review[i] = Absent /\ Receipts THEN Candidate(i) ELSE review[i]

\* Shape and size of the request; identifiers and revisions name the same items.
Wellformed(request) ==
    /\ request.ids # {}
    /\ DOMAIN request.expected = request.ids
    /\ request.mode \in Grouped => Receipts

\* Every source file is opened and hashed, those without hits too.
GeometryValid == {i \in Items : changed = {}}

InScope(request) ==
    /\ request.ids \subseteq Items
    /\ request.kind = "all" => request.ids = Items
    /\ request.kind = "sources" =>
         request.ids = {i \in Items : \E j \in request.ids : Original[i].source = Original[j].source}

Resolved(i) == i \in GeometryValid /\ Current(i).status \in Confirmed

FragmentsHold(request) ==
    \A i \in request.ids :
        review[i] # Absent /\ Revision(i) = request.expected[i] /\ Resolved(i)

Excluded == {i \in Items : review[i] # Absent /\ review[i].status = "excluded"}

Shown(record) == IF record.full THEN Whole ELSE record.crop
SamePage(i, j) == Original[i].source = Original[j].source /\ Original[i].page = Original[j].page

ExclusionsClear(ids) ==
    \A i \in ids, x \in Excluded :
        SamePage(i, x) => ~Current(i).full /\ Current(i).crop \cap Original[x].area = {}

ReceiptsHold(request) ==
    /\ request.ids = Items \ Excluded
    /\ Excluded \subseteq GeometryValid
    /\ \A i \in request.ids : Revision(i) = request.expected[i] /\ Resolved(i)
    /\ ExclusionsClear(request.ids)

\* Two groups never share a part of a page, and no group shows what was
\* excluded; an excluded whole page counts as the page.

GroupsApart(ids) ==
    /\ \A i, j \in ids :
         SamePage(i, j) /\ grouping.route[i] # grouping.route[j]
           => Shown(Current(i)) \cap Shown(Current(j)) = {}
    /\ \A i \in ids, x \in Excluded :
         SamePage(i, x) =>
           Shown(Current(i)) \cap (IF review[x].full THEN Whole ELSE Original[x].area) = {}

GroupsHold(request) ==
    /\ grouping.revision = request.grouping
    /\ grouping.of = Revisions
    /\ \A i \in request.ids : grouping.route[i] = Pending => request.pending
    /\ GroupsApart(request.ids)

Accepts(request) ==
    /\ Wellformed(request)
    /\ changed = {}
    /\ InScope(request)
    /\ IF Receipts THEN ReceiptsHold(request) ELSE FragmentsHold(request)
    /\ request.mode \in Grouped => GroupsHold(request)

\* The pages the summary announces: one for each whole page and each crop.

ExpectedPages(ids) ==
    Cardinality({<<Original[i].source, Original[i].page, Current(i).full,
                   IF Current(i).full THEN {} ELSE Current(i).crop>> : i \in ids})

Frozen(request) ==
    [request |-> request, records |-> [i \in request.ids |-> Current(i)],
     revisions |-> Revisions, excluded |-> Excluded,
     route |-> [i \in request.ids |-> grouping.route[i]],
     expectedPages |-> ExpectedPages(request.ids)]

-----------------------------------------------------------------------------
(* The plan of a frozen scope. *)

Least(numbers) == CHOOSE n \in numbers : \A m \in numbers : n <= m

\* Items that give the same page of output, under the key they are gathered by.
Gathered(ids, records, key) ==
    {LET items == {i \in ids : key[i] = k}
         one == CHOOSE i \in items : TRUE
     IN [key |-> k, items |-> items, source |-> Original[one].source, page |-> Original[one].page,
         position |-> Least({Original[i].position : i \in items}), shown |-> Shown(records[one])]
     : k \in {key[i] : i \in ids}}

\* Fragments of one page with one crop share an output page, and so do all
\* that keep the whole page; a crop as large as the page stays apart.
FragmentPages(scope) ==
    LET ids == scope.request.ids
        key == [i \in ids |-> <<Original[i].source, Original[i].page, scope.records[i].full,
                                IF scope.records[i].full THEN {} ELSE scope.records[i].crop>>]
    IN Gathered(ids, scope.records, key)

\* Receipts are gathered alike; the page carries the first of their positions.
ReceiptPages(scope) == FragmentPages(scope)

\* In a grouped export the group is part of the key.
GroupPages(scope) ==
    LET ids == scope.request.ids
        key == [i \in ids |-> <<scope.route[i], Original[i].source, Original[i].page,
                                scope.records[i].full,
                                IF scope.records[i].full THEN {} ELSE scope.records[i].crop>>]
    IN Gathered(ids, scope.records, key)

Before(p, q) ==
    \/ p.source < q.source
    \/ p.source = q.source /\ p.page < q.page
    \/ p.source = q.source /\ p.page = q.page /\ p.position < q.position

Ordered(pages) == SetToSortSeq(pages, Before)

\* The sources of the selection are numbered, which keeps equal stems apart.

SourceName(selected, s) == <<Cardinality({t \in selected : t <= s}), Stem[s]>>

\* The first free name; names are compared without regard to case.

GroupName(taken, label) ==
    IF label \notin taken THEN label
    ELSE Append(label, Least({n \in 2..(Cardinality(taken) + 2) : Append(label, n) \notin taken}))

MergedFile(scope) == [kind |-> "merged", name |-> <<"all">>, pages |-> Ordered(FragmentPages(scope))]

SourceFiles(scope) ==
    LET pages == ReceiptPages(scope)
        selected == {p.source : p \in pages}
    IN {[kind |-> "source", name |-> SourceName(selected, s),
         pages |-> Ordered({p \in pages : p.source = s})] : s \in selected}

\* Groups are named in the order of their first pages, and kept in it, the
\* pending ones last.
GroupFiles(scope) ==
    LET pages == Ordered(GroupPages(scope))
        groups == FoldLeft(LAMBDA gs, p : IF p.key[1] \in Range(gs) THEN gs ELSE Append(gs, p.key[1]),
                           <<>>, pages)
        names == FoldLeft(LAMBDA ns, g : Append(ns, GroupName(Range(ns), Label[g])), <<>>, groups)
        files == [n \in DOMAIN groups |-> [kind |-> "group", name |-> names[n],
                    pages |-> SelectSeq(pages, LAMBDA p : p.key[1] = groups[n])]]
        pending(f) == f.pages[1].key[1] = Pending
    IN SelectSeq(files, LAMBDA f : ~pending(f)) \o SelectSeq(files, pending)

\* All groups in one file, group after group.
GroupsMerged(scope) ==
    [kind |-> "groups", name |-> <<"groups">>,
     pages |-> FoldLeft(LAMBDA all, f : all \o f.pages, <<>>, GroupFiles(scope))]

Files(scope) ==
    CASE scope.request.mode = "merged" -> {MergedFile(scope)}
      [] scope.request.mode = "by_source" -> SourceFiles(scope)
      [] scope.request.mode = "both" -> {MergedFile(scope)} \cup SourceFiles(scope)
      [] scope.request.mode = "grouped" -> Range(GroupFiles(scope))
      [] scope.request.mode = "grouped_merged" -> {GroupsMerged(scope)}

\* The index names one file for each item: the merged one where there is one.
Index(scope) ==
    LET files == Files(scope)
        listed == IF \E f \in files : f.kind = "merged" THEN {f \in files : f.kind = "merged"} ELSE files
    IN [i \in scope.request.ids |->
          (CHOOSE f \in listed : \E n \in DOMAIN f.pages : i \in f.pages[n].items).name]

\* Where an item is found, in every file.
Mappings(scope) ==
    {[item |-> m[1], file |-> m[2].name, page |-> m[3]] :
       m \in {<<i, f, n>> \in scope.request.ids \X Files(scope) \X (1..Cardinality(Items)) :
                n \in DOMAIN f.pages /\ i \in f.pages[n].items}}

\* What the planners demand of the frozen records: once more, by themselves.
FragmentPlannable(scope) ==
    \A i, j \in scope.request.ids :
        SamePage(i, j) /\ Original[i].position = Original[j].position => i = j

ReceiptPlannable(scope) ==
    \A i \in scope.request.ids :
        /\ scope.records[i].status \in {"confirmed", "page_confirmed"}
        /\ scope.records[i].full => scope.records[i].status = "page_confirmed"
        /\ scope.records[i].revision = 0 => scope.records[i] = Candidate(i) /\ Original[i].sure

Plannable(scope) ==
    CASE scope.request.mode \in Grouped -> TRUE
      [] Receipts -> ReceiptPlannable(scope)
      [] OTHER -> FragmentPlannable(scope)

Plan(scope) == [files |-> Files(scope), index |-> Index(scope), mappings |-> Mappings(scope)]

-----------------------------------------------------------------------------
(* The export. *)

\* capture_export_scope and the planner in create.
Create(ids, kind, mode, pending) ==
    LET request == [ids |-> ids, kind |-> kind, mode |-> mode, pending |-> pending,
                    expected |-> [i \in ids |-> seen.items[i]], grouping |-> seen.grouping]
    IN /\ intent = Absent
       /\ Accepts(request)
       /\ intent' = IF Plannable(Frozen(request))
                    THEN [state |-> "created", scope |-> Frozen(request), plan |-> Plan(Frozen(request))]
                    ELSE [state |-> "failed", scope |-> Frozen(request), plan |-> Absent]
       /\ UNCHANGED <<review, grouping, changed, seen, changes>>

\* hold_export_scope with the expected snapshot: accepted again, and the same.
\* Fault: the request is only checked when the export is created.
StillHoldsMutant(scope) == TRUE

StillHolds(scope) == Accepts(scope.request) /\ Frozen(scope.request) = scope

Render ==
    /\ intent # Absent /\ intent.state = "created"
    /\ StillHolds(intent.scope)
    /\ intent' = [intent EXCEPT !.state = "rendered"]
    /\ UNCHANGED <<review, grouping, changed, seen, changes>>

Deliver ==
    /\ intent # Absent /\ intent.state = "rendered"
    /\ StillHolds(intent.scope)
    /\ intent' = [intent EXCEPT !.state = "delivered"]
    /\ UNCHANGED <<review, grouping, changed, seen, changes>>

Close ==
    /\ intent # Absent
    /\ intent' = Absent
    /\ UNCHANGED <<review, grouping, changed, seen, changes>>

-----------------------------------------------------------------------------
(* What goes on meanwhile. *)

Change == changes < MaxChanges /\ changes' = changes + 1

\* The saved record: a whole page has no crop.

Record(i, status, full, crop) ==
    [revision |-> Revision(i) + 1, status |-> status, full |-> full,
     crop |-> IF full THEN {} ELSE crop]

\* A saved decision.  A receipt is cropped within its candidate.
Decide(i, status, full, crop) ==
    /\ Change
    /\ status = "page_confirmed" <=> full
    /\ status = "excluded" => Receipts
    /\ ~full /\ Receipts => crop \subseteq Original[i].area
    /\ review' = [review EXCEPT ![i] = Record(i, status, full, crop)]
    /\ UNCHANGED <<grouping, changed, seen, intent>>

\* The grouping is derived again, or an item is put into another group.
Regroup(route) ==
    /\ Receipts
    /\ Change
    /\ grouping' = [revision |-> grouping.revision + 1, of |-> Revisions, route |-> route]
    /\ UNCHANGED <<review, changed, seen, intent>>

WriteSource(s) ==
    /\ Change
    /\ changed' = changed \cup {s}
    /\ UNCHANGED <<review, grouping, seen, intent>>

Look ==
    /\ seen' = [items |-> Revisions, grouping |-> grouping.revision]
    /\ UNCHANGED <<review, grouping, changed, intent, changes>>

\* The guards of Create and Change stand here as well, before the choices they spare.
Next ==
    \/ intent = Absent /\ \E ids \in SUBSET Items, kind \in {"all", "sources", "list"},
          mode \in {"merged", "by_source", "both"} \cup Grouped, pending \in BOOLEAN :
            Create(ids, kind, mode, pending)
    \/ Render \/ Deliver \/ Close \/ Look
    \/ changes < MaxChanges /\
          \E i \in Items, status \in {"pending", "confirmed", "page_confirmed", "excluded"},
             full \in BOOLEAN, crop \in Crops : Decide(i, status, full, crop)
    \/ \E i \in Items, g \in DOMAIN Label :
            Regroup([grouping.route EXCEPT ![i] = g])
    \/ \E s \in Sources : WriteSource(s)

Spec == Init /\ [][Next]_vars

-----------------------------------------------------------------------------
Planned == intent # Absent /\ intent.plan # Absent

\* Records are decisions; an export is in a state it can be in.
ScopeTypeOK ==
    /\ \A i \in Items : review[i] # Absent =>
         /\ review[i].revision \in 1..MaxChanges
         /\ review[i].status \in {"pending", "excluded"} \cup Confirmed
         /\ review[i].crop \subseteq Whole
         /\ review[i].full <=> review[i].crop = {}
    /\ changed \subseteq Sources
    /\ intent # Absent => intent.state \in {"created", "rendered", "delivered", "failed"}

\* When an export is delivered, every page shows what the review says at that
\* moment, of items that are all resolved, in the revision the client saw.
DeliveredIsCurrent ==
    intent' # Absent /\ intent'.state = "delivered" /\ intent' # intent =>
         \A i \in intent.scope.request.ids :
            /\ Current(i).status \in Confirmed
            /\ intent.scope.request.expected[i] = Revision(i)
            /\ \A f \in intent.plan.files, n \in 1..Cardinality(Items) :
                 n \in DOMAIN f.pages /\ i \in f.pages[n].items =>
                   f.pages[n].shown = Shown(Current(i))

\* A scope the check accepts can be planned: the planners' own checks of the
\* frozen records never fail.
PlanNeverFails == intent # Absent => intent.state # "failed"

CountOf(kind) ==
    LET pages == {<<f, n>> \in intent.plan.files \X (1..Cardinality(Items)) :
                    f.kind = kind /\ n \in DOMAIN f.pages}
    IN Cardinality(pages)

\* The summary shown before an export announces the pages that are made, in
\* the merged file, over the source files and over the group files alike.
CountsAgree ==
    Planned => \A kind \in {f.kind : f \in intent.plan.files} :
        CountOf(kind) = intent.scope.expectedPages

\* Every selected item is on exactly one page of each kind of file, only in
\* files of its own source or group, the index names a file that has it, and
\* no two files have one name.
EveryItemOnce ==
    Planned =>
        /\ \A f, g \in intent.plan.files : f.name = g.name => f = g
        /\ \A i \in intent.scope.request.ids :
             /\ \A kind \in {f.kind : f \in intent.plan.files} :
                  Cardinality({<<f, n>> \in intent.plan.files \X (1..Cardinality(Items)) :
                                 f.kind = kind /\ n \in DOMAIN f.pages /\ i \in f.pages[n].items}) = 1
             /\ \E m \in intent.plan.mappings : m.item = i /\ m.file = intent.plan.index[i]
        /\ \A f \in intent.plan.files : \A m, n \in DOMAIN f.pages :
             /\ f.kind = "source" => f.pages[m].source = f.pages[n].source
             /\ f.kind = "group" => f.pages[m].key[1] = f.pages[n].key[1]

\* No page shows a part of an excluded receipt, and no page of a group shows a
\* part of a page that another group's file has.
NothingForeign ==
    Planned =>
        \A f \in intent.plan.files : \A n \in DOMAIN f.pages :
          /\ \A x \in intent.scope.excluded :
               f.pages[n].source = Original[x].source /\ f.pages[n].page = Original[x].page
                 => f.pages[n].shown \cap Original[x].area = {}
          /\ f.kind = "group" =>
               \A g \in intent.plan.files \ {f} : \A m \in DOMAIN g.pages :
                 f.pages[n].source = g.pages[m].source /\ f.pages[n].page = g.pages[m].page
                   => f.pages[n].shown \cap g.pages[m].shown = {}
=============================================================================
