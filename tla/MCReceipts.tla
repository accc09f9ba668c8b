----------------------------- MODULE MCReceipts -----------------------------
(***************************************************************************)
(* Small instances of the modules about what a job finds and makes of it:  *)
(* the result of a page of fragments (BatchResults) and of receipts        *)
(* (ReceiptResults), the published snapshot (ResultSnapshot) and the plan  *)
(* of an export (ExportScope); and the grouping of receipts: what is       *)
(* stored (GroupingStore), the trials of reading rules (GroupingTrials),   *)
(* what a request rests on (GroupingBasis), and the files of a grouped     *)
(* export (GroupingDraft).                                                 *)
(*                                                                         *)
(* The instances share nothing, so a run checks several side by side:      *)
(* `part' is fixed in the initial state and says which of them a behaviour *)
(* is about; x1, x2, ... are its variables.                                *)
(***************************************************************************)
EXTENDS Integers, Sequences, SequencesExt, TLC

CONSTANTS
    f1, f2, f3, g, h, r1, r2, NONE, Unassigned, Absent, Unused

VARIABLES
    part,  \* the instance a behaviour is about
    x1, x2, x3, x4, x5, x6, x7, x8, x9, x10, x11, x12, x13

vars == <<part, x1, x2, x3, x4, x5, x6, x7, x8, x9, x10, x11, x12, x13>>

-----------------------------------------------------------------------------
(* Pages, snapshots and plans.                                             *)

MCOne   == <<[sha |-> "s", pages |-> 1]>>
MCTwins == <<[sha |-> "s", pages |-> 1], [sha |-> "s", pages |-> 1]>>

Band(p, q) == [from |-> p, to |-> q]
Candidate(r, k) == [rect |-> r, conf |-> k]

\* One candidate, two, one that is too small, one that overlaps another.
Layouts == {<<>>,
            <<Candidate(Band(0, 6), 95)>>,
            <<Candidate(Band(0, 1), 95)>>,
            <<Candidate(Band(0, 3), 95), Candidate(Band(3, 6), 80)>>,
            <<Candidate(Band(0, 6), 60), Candidate(Band(3, 6), 95)>>}

Word(ws, r, k) == [words |-> ws, at |-> r, conf |-> k]

\* Where a block may be: in the first half, in the second, across, off the page.
Places == {Band(0, 1), Band(4, 5), Band(2, 4), Band(5, 7)}

Words ==
    {<<>>} \cup
    {<<Word(ws, p, k)>> : ws \in {{"fee"}, {"fee", "bank"}}, p \in Places, k \in {80, 98}} \cup
    {<<Word({"fee"}, p, 98), Word({w}, q, k)>> :
        p \in {Band(0, 1), Band(4, 5)}, w \in {"fee", "bank", "refund"}, q \in Places, k \in {80, 98}}

MCContents ==
    {[blocks |-> ws, receipts |-> l, exceeded |-> e, policy |-> p, ocr |-> FALSE, title |-> 100] :
        ws \in Words, l \in Layouts, e \in BOOLEAN, p \in {"single", "multiple", "unknown"}} \cup
    {[blocks |-> ws, receipts |-> l, exceeded |-> FALSE, policy |-> "single", ocr |-> TRUE, title |-> t] :
        ws \in Words, l \in Layouts, t \in {80, 100}}

\* For two sources: fewer pages, every kind of them.
MCFew ==
    {[blocks |-> ws, receipts |-> l, exceeded |-> FALSE, policy |-> "single", ocr |-> FALSE, title |-> 100] :
        ws \in {<<>>, <<Word({"fee"}, Band(0, 1), 98)>>, <<Word({"fee"}, Band(2, 4), 98)>>,
                <<Word({"fee"}, Band(0, 1), 98), Word({"bank"}, Band(4, 5), 80)>>,
                <<Word({"fee"}, Band(4, 5), 98), Word({"fee", "refund"}, Band(0, 1), 98)>>},
        l \in Layouts}

MCCriterias == {[include |-> <<"fee">>, mode |-> "all", exclude |-> <<>>],
                [include |-> <<"fee">>, mode |-> "any", exclude |-> <<"refund">>],
                [include |-> <<"fee", "bank">>, mode |-> "any", exclude |-> <<>>],
                [include |-> <<"fee", "bank">>, mode |-> "all", exclude |-> <<"refund">>]}

Block(k, ws, r, q) == [kind |-> k, words |-> ws, at |-> r, conf |-> q, lines |-> <<>>]
Lined(ws, vs, r) ==
    [kind |-> "text", words |-> ws \cup vs, at |-> r, conf |-> 98,
     lines |-> <<[at |-> Band(r.from, 290), words |-> ws], [at |-> Band(310, r.to), words |-> vs]>>]
Slot(r, k, t) == [rect |-> r, conf |-> k, titled |-> t]
Object(r, i) == [at |-> r, image |-> i]

\* None, one receipt, two side by side, with a narrow, a wide and too wide a
\* seam, and two of which the second is small.
SlotLayouts == {<<>>,
            <<Slot(Band(20, 580), 95, TRUE)>>,
            <<Slot(Band(0, 300), 95, TRUE), Slot(Band(300, 600), 95, TRUE)>>,
            <<Slot(Band(0, 302), 95, TRUE), Slot(Band(298, 600), 80, TRUE)>>,
            <<Slot(Band(0, 305), 95, TRUE), Slot(Band(295, 600), 95, TRUE)>>,
            <<Slot(Band(0, 305), 95, TRUE), Slot(Band(295, 600), 95, FALSE)>>,
            <<Slot(Band(0, 310), 95, TRUE), Slot(Band(290, 600), 95, TRUE)>>,
            <<Slot(Band(0, 300), 95, TRUE), Slot(Band(292, 400), 95, TRUE)>>}

\* In the first half, in the second, on the seam, across, below every small slot, off the page.
Points == {Band(40, 60), Band(320, 340), Band(280, 330), Band(290, 301), Band(585, 596), Band(590, 640)}

Kinds == {<<"text", 80>>, <<"text", 98>>, <<"vacant", 98>>}

BlockSeqs ==
    {<<>>, <<Lined({"fee"}, {"bank"}, Band(270, 330))>>} \cup
    {<<Block(k[1], {"fee"}, p, k[2])>> : k \in Kinds \cup {<<"watermark", 98>>}, p \in Points} \cup
    {<<Block("text", {"fee"}, p, 98), Block(k[1], {w}, q, k[2])>> :
        k \in Kinds, p \in {Band(40, 60), Band(320, 340)}, w \in {"bank", "refund"}, q \in Points}

ObjectSets == {{}, {Object(Band(296, 312), TRUE)}, {Object(Band(290, 300), FALSE)},
               {Object(Band(575, 590), TRUE)}, {Object(Band(100, 140), TRUE), Object(Band(400, 440), FALSE)}}

Plain(bs, os, cs) ==
    [blocks |-> bs, objects |-> os, complete |-> TRUE, white |-> FALSE, native |-> TRUE,
     candidates |-> cs, exceeded |-> FALSE, policy |-> "multiple", special |-> FALSE,
     saved |-> <<>>, reference |-> <<>>, sameForm |-> TRUE, warning |-> FALSE, history |-> "none"]

\* What a page of the same source with two receipts looks like.
Reference(k, e) == [Plain(<<>>, {}, <<Slot(Band(0, 300), k, TRUE), Slot(Band(300, 600), 95, TRUE)>>)
                      EXCEPT !.exceeded = e]

Halves == <<Band(10, 295), Band(305, 590)>>

Few == {<<Block("text", {"fee"}, p, 98), Block("text", {w}, q, 98)>> :
          p \in {Band(40, 60)}, w \in {"bank", "refund"}, q \in {Band(40, 60), Band(320, 340), Band(298, 303)}}

MCReceiptContents ==
    {Plain(bs, o, l) : bs \in BlockSeqs, o \in ObjectSets, l \in SlotLayouts} \cup
    {[Plain(bs, o, l) EXCEPT !.complete = k, !.white = w, !.native = n] :
        bs \in Few \cup {<<Block("text", {"fee"}, Band(40, 60), 98)>>}, o \in ObjectSets,
        l \in SlotLayouts, k, w, n \in BOOLEAN} \cup
    {[Plain(bs, {}, l) EXCEPT !.policy = p, !.exceeded = e, !.special = s, !.warning = w] :
        bs \in Few, l \in SlotLayouts, p \in {"single", "multiple", "unknown"}, e, s, w \in BOOLEAN} \cup
    {[Plain(bs, {}, l) EXCEPT !.reference = <<Reference(k, e)>>, !.sameForm = f, !.exceeded = x] :
        bs \in Few, l \in SlotLayouts, k \in {80, 95}, e, f, x \in BOOLEAN} \cup
    {[Plain(bs, {}, l) EXCEPT !.history = k, !.saved = Halves, !.special = s, !.exceeded = x] :
        bs \in Few, l \in SlotLayouts, k \in {"several", "short", "fits", "saved"}, s, x \in BOOLEAN}

\* For two sources: fewer pages.
MCReceiptFew == {Plain(bs, {}, l) : bs \in Few \cup {<<>>}, l \in SlotLayouts}

MCOptionses ==
    {[mode |-> "split_all", include |-> {}, all |-> TRUE, exclude |-> {}],
     [mode |-> "search", include |-> {"fee"}, all |-> TRUE, exclude |-> {}],
     [mode |-> "search", include |-> {"fee", "bank"}, all |-> TRUE, exclude |-> {"refund"}],
     [mode |-> "search", include |-> {"fee", "bank"}, all |-> FALSE, exclude |-> {"refund"}]}

At(s, n, cells, sure) == [source |-> s, page |-> 1, position |-> n, area |-> cells, sure |-> sure]

MCOriginal == (f1 :> At(1, 1, {1}, TRUE)) @@ (f2 :> At(1, 2, {2, 3}, FALSE)) @@ (f3 :> At(2, 1, {1, 2}, TRUE))
\* Overlapping candidates on one page.
MCTouching == (f1 :> At(1, 1, {1, 2}, TRUE)) @@ (f2 :> At(1, 2, {2, 3}, TRUE))
MCLabel == (g :> <<"y">>) @@ (h :> <<"y">>) @@ (Unassigned :> <<"pending">>)
MCRoute == (f1 :> g) @@ (f2 :> g) @@ (f3 :> h)
MCTouchingRoute == (f1 :> g) @@ (f2 :> h)

\* One page of fragments, read and laid out in every way considered.
Results == INSTANCE BatchResults
    WITH Sources <- MCOne, Criterias <- MCCriterias, Contents <- MCContents, Height <- 6,
         MinCrop <- 2, criteria <- x1, content <- x2, results <- x3, outcome <- x4, items <- x5

\* Two sources of equal content.
ResultTwins == INSTANCE BatchResults
    WITH Sources <- MCTwins, Criterias <- MCCriterias, Contents <- MCFew, Height <- 6,
         MinCrop <- 2, criteria <- x1, content <- x2, results <- x3, outcome <- x4, items <- x5

\* One page of receipts.
ReceiptPage == INSTANCE ReceiptResults
    WITH Sources <- MCOne, Optionses <- MCOptionses, Contents <- MCReceiptContents,
         Height <- 600, MaxRisks <- 3, options <- x1, content <- x2, results <- x3,
         outcome <- x4, items <- x5

\* Two sources of equal content.
ReceiptPages == INSTANCE ReceiptResults
    WITH Sources <- MCTwins, Optionses <- MCOptionses, Contents <- MCReceiptFew, Height <- 600,
         MaxRisks <- 3, options <- x1, content <- x2, results <- x3, outcome <- x4, items <- x5

\* Two receipts, one in each source, read one or two at a time.
Snapshot == INSTANCE ResultSnapshot
    WITH Sources <- 2, Slots <- 1, Limit <- 2, MaxEntries <- 1, MaxRevision <- 2,
         MaxMoves <- 1, job <- x1, access <- x2, pages <- x3, snaps <- x4, damaged <- x5,
         cache <- x6, review <- x7, walk <- x8, call <- x9

\* Three fragments, two of them on one page.
Fragments == INSTANCE ExportScope
    WITH Original <- MCOriginal, Whole <- 1..3, Crops <- {{1}, {2}}, Receipts <- FALSE,
         Stem <- <<"x", "x">>, Label <- MCLabel, Route <- MCRoute,
         Pending <- Unassigned, MaxChanges <- 3,
         review <- x1, grouping <- x2, changed <- x3, seen <- x4, intent <- x5, changes <- x6

\* The same three as receipts.
Plan == INSTANCE ExportScope
    WITH Original <- MCOriginal, Whole <- 1..3, Crops <- {{1}, {2, 3}, {3}}, Receipts <- TRUE,
         Stem <- <<"x", "x">>, Label <- MCLabel, Route <- MCRoute,
         Pending <- Unassigned, MaxChanges <- 3,
         review <- x1, grouping <- x2, changed <- x3, seen <- x4, intent <- x5, changes <- x6

\* Two candidates that overlap.
Touching == INSTANCE ExportScope
    WITH Original <- MCTouching, Whole <- 1..3, Crops <- {{1}, {2}, {2, 3}}, Receipts <- TRUE,
         Stem <- <<"x", "x">>, Label <- MCLabel, Route <- MCTouchingRoute,
         Pending <- Unassigned, MaxChanges <- 2,
         review <- x1, grouping <- x2, changed <- x3, seen <- x4, intent <- x5, changes <- x6

PagesInit ==
    /\ x10 = Unused /\ x11 = Unused /\ x12 = Unused /\ x13 = Unused
    /\ \/ /\ part = "results" /\ Results!Init
          /\ x6 = Unused /\ x7 = Unused /\ x8 = Unused /\ x9 = Unused
       \/ /\ part = "result twins" /\ ResultTwins!Init
          /\ x6 = Unused /\ x7 = Unused /\ x8 = Unused /\ x9 = Unused
       \/ /\ part = "receipts" /\ ReceiptPage!Init
          /\ x6 = Unused /\ x7 = Unused /\ x8 = Unused /\ x9 = Unused
       \/ /\ part = "receipt twins" /\ ReceiptPages!Init
          /\ x6 = Unused /\ x7 = Unused /\ x8 = Unused /\ x9 = Unused
       \/ /\ part = "snapshot" /\ Snapshot!Init
       \/ /\ part = "fragments" /\ Fragments!Init
          /\ x7 = Unused /\ x8 = Unused /\ x9 = Unused
       \/ /\ part = "plan" /\ Plan!Init
          /\ x7 = Unused /\ x8 = Unused /\ x9 = Unused
       \/ /\ part = "touching" /\ Touching!Init
          /\ x7 = Unused /\ x8 = Unused /\ x9 = Unused

PagesNext ==
    /\ UNCHANGED <<part, x10, x11, x12, x13>>
    /\ \/ /\ part = "results" /\ Results!Next
          /\ UNCHANGED <<x6, x7, x8, x9>>
       \/ /\ part = "result twins" /\ ResultTwins!Next
          /\ UNCHANGED <<x6, x7, x8, x9>>
       \/ /\ part = "receipts" /\ ReceiptPage!Next
          /\ UNCHANGED <<x6, x7, x8, x9>>
       \/ /\ part = "receipt twins" /\ ReceiptPages!Next
          /\ UNCHANGED <<x6, x7, x8, x9>>
       \/ /\ part = "snapshot" /\ Snapshot!Next
       \/ /\ part = "fragments" /\ Fragments!Next
          /\ UNCHANGED <<x7, x8, x9>>
       \/ /\ part = "plan" /\ Plan!Next
          /\ UNCHANGED <<x7, x8, x9>>
       \/ /\ part = "touching" /\ Touching!Next
          /\ UNCHANGED <<x7, x8, x9>>

\* Whatever is read on a page and however its layout is found, the page has a
\* result: what is confirmed is sure, the answer is exact and no text is dropped,
\* what is stored is what is published, and of equal sources each keeps its own.
PageResultsHold ==
    /\ part = "results" =>
         /\ Results!ResultsTypeOK /\ Results!LayoutNeverFailsPage
         /\ Results!ConfirmedIsSure /\ Results!AnswerIsExact
         /\ Results!WholePageIsOneReceipt
    /\ part = "result twins" => ResultTwins!AssembledIsAccepted
    /\ part = "receipts" =>
         /\ ReceiptPage!ReceiptResultsTypeOK /\ ReceiptPage!DoubtNeverFailsPage
         /\ ReceiptPage!StoredIsPublished /\ ReceiptPage!NoTextIsDropped
         /\ ReceiptPage!ConfirmedIsSure /\ ReceiptPage!ExclusionIsSure
    /\ part = "receipt twins" => ReceiptPages!ReceiptsAreApart

\* A window that reads a published snapshot piece by piece while the job is
\* relocated, calibrated, deleted and damaged gets every item once, and only
\* what was published (ResultSnapshot).  A plan of an export holds every selected
\* item once and nothing foreign, its counts agree, and it never fails
\* (ExportScope).
SelectionIsExact ==
    /\ part = "snapshot" =>
         /\ Snapshot!SnapshotTypeOK /\ Snapshot!WalkIsWhole
         /\ Snapshot!ReviewIsAuthentic /\ Snapshot!CorruptIsDamaged
    /\ part = "fragments" =>
         Fragments!ScopeTypeOK /\ Fragments!CountsAgree /\ Fragments!EveryItemOnce
    /\ part = "plan" => Plan!PlanNeverFails /\ Plan!CountsAgree /\ Plan!EveryItemOnce
    /\ part = "touching" => Touching!NothingForeign

\* What is delivered rests on the decisions, the groups and the files of that
\* moment (ExportScope).
DeliveredIsCurrent ==
    [][/\ part = "fragments" => Fragments!DeliveredIsCurrent
       /\ part = "plan" => Plan!DeliveredIsCurrent]_vars

-----------------------------------------------------------------------------
(* The grouping of receipts.                                               *)

\* The first receipt names "a", and what the second rectangle shows in addition.
MCPrinted(second) ==
    [s \in {1, 2} |-> [r \in {1, 2} |->
        IF s = 2 THEN "missing" ELSE IF r = 1 THEN "a" ELSE second]]

Decided(rect, status, type) == [rect |-> rect, status |-> status, type |-> type]

\* A boundary in doubt, one the readers are sure of.
MCOriginalReview == <<Decided(1, "pending", NONE), Decided(1, "confirmed", NONE)>>

\* Confirmed as it is, adjusted, excluded, classified.
MCDecisions == {Decided(1, "confirmed", NONE), Decided(2, "confirmed", NONE),
                Decided(1, "excluded", NONE), Decided(1, "confirmed", "tax")}

\* Every boundary status with every type, and an adjusted crop.
MCAnyDecision ==
    {Decided(2, "confirmed", NONE)} \cup
    {Decided(1, s, t) : t \in {NONE, "tax", "loan"},
        s \in {"pending", "needs_review", "confirmed", "page_confirmed", "blocked", "excluded"}}

\* Two receipts, one of which is reviewed again while it is read and exported.
Reviewed == INSTANCE GroupingStore
    WITH N <- 2, Names <- {"a", "own"}, Labels <- {"x"}, ManualIds <- {"m"},
         Own <- <<"own", "a">>, Printed <- MCPrinted("own"), Ruled <- [s \in {1, 2} |-> "a"],
         Clashing <- {<<1, 1>>}, Readers <- {1}, MaxRev <- 4, MaxReviews <- 1, MaxVersion <- 0,
         Types <- {"tax"}, Decisions <- MCDecisions, Original <- MCOriginalReview,
         profile <- x1, review <- x2, version <- x3, rules <- x4, task <- x5, items <- x6,
         groups <- x7, history <- x8, reading <- x9, exported <- x10

\* One receipt, reviewed twice in any way.
Restored == INSTANCE GroupingStore
    WITH N <- 1, Names <- {"a", "own"}, Labels <- {}, ManualIds <- {},
         Own <- <<"own">>, Printed <- MCPrinted("own"), Ruled <- [s \in {1} |-> "a"],
         Clashing <- {}, Readers <- {1}, MaxRev <- 5, MaxReviews <- 2, MaxVersion <- 0,
         Types <- {"tax", "loan"}, Decisions <- MCAnyDecision, Original <- MCOriginalReview,
         profile <- x1, review <- x2, version <- x3, rules <- x4, task <- x5, items <- x6,
         groups <- x7, history <- x8, reading <- x9, exported <- x10

\* Two receipts, read again by new versions of the readers.
Updated == INSTANCE GroupingStore
    WITH N <- 2, Names <- {"a", "own"}, Labels <- {"x"}, ManualIds <- {"m"},
         Own <- <<"own", "a">>, Printed <- MCPrinted("own"), Ruled <- [s \in {1, 2} |-> "a"],
         Clashing <- {<<1, 1>>}, Readers <- {1}, MaxRev <- 5, MaxReviews <- 0, MaxVersion <- 1,
         Types <- {}, Decisions <- {}, Original <- MCOriginalReview,
         profile <- x1, review <- x2, version <- x3, rules <- x4, task <- x5, items <- x6,
         groups <- x7, history <- x8, reading <- x9, exported <- x10

\* Two trials of a reading rule, applied and undone.
Tried == INSTANCE GroupingTrials
    WITH N <- 2, Names <- {"a", "b", "own"}, Labels <- {"x"}, ManualIds <- {},
         Own <- <<"own">>, Printed <- MCPrinted("a"), Ruled <- [s \in {1, 2} |-> "b"],
         Clashing <- {}, Readers <- {}, MaxRev <- 4, MaxReviews <- 0, MaxVersion <- 0,
         Types <- {}, Decisions <- {}, Original <- MCOriginalReview,
         Trials <- {1, 2}, Matching <- {1, 2}, MaxActive <- 1, profile <- x1, review <- x2,
         version <- x3, rules <- x4, task <- x5, items <- x6, groups <- x7, history <- x8,
         reading <- x9, exported <- x10, trial <- x11

\* The same while a refresh reads the receipts.
Read == INSTANCE GroupingTrials
    WITH N <- 2, Names <- {"a", "b", "own"}, Labels <- {"x"}, ManualIds <- {},
         Own <- <<"own">>, Printed <- MCPrinted("a"), Ruled <- [s \in {1, 2} |-> "b"],
         Clashing <- {}, Readers <- {1}, MaxRev <- 3, MaxReviews <- 0, MaxVersion <- 0,
         Types <- {}, Decisions <- {}, Original <- MCOriginalReview,
         Trials <- {1, 2}, Matching <- {1, 2}, MaxActive <- 1, profile <- x1, review <- x2,
         version <- x3, rules <- x4, task <- x5, items <- x6, groups <- x7, history <- x8,
         reading <- x9, exported <- x10, trial <- x11

\* Two requests rest on what they read while it changes.
Basis == INSTANCE GroupingBasis
    WITH Requests <- {r1, r2}, MaxEntries <- 1, MaxChanges <- 2, MaxRevision <- 1, batch <- x1,
         reviews <- x2, rules <- x3, grouping <- x4, cache <- x5, view <- x6, request <- x7,
         changes <- x8

\* The files of a grouped export, with three meddlings.
Draft == INSTANCE GroupingDraft
    WITH MaxWrites <- 3, MaxMeddles <- 3, batch <- x1, review <- x2, original <- x3,
         stage <- x4, want <- x5, authority <- x6, frozen <- x7, place <- x8, intact <- x9,
         aliens <- x10, residuals <- x11, writes <- x12, meddles <- x13

GroupingInit ==
    \/ /\ part = "review" /\ Reviewed!Init
       /\ x11 = Unused /\ x12 = Unused /\ x13 = Unused
    \/ /\ part = "restored" /\ Restored!Init
       /\ x11 = Unused /\ x12 = Unused /\ x13 = Unused
    \/ /\ part = "update" /\ Updated!Init
       /\ x11 = Unused /\ x12 = Unused /\ x13 = Unused
    \/ /\ part = "trials" /\ Tried!TrialInit
       /\ x12 = Unused /\ x13 = Unused
    \/ /\ part = "reading" /\ Read!TrialInit
       /\ x12 = Unused /\ x13 = Unused
    \/ /\ part = "basis" /\ Basis!Init
       /\ x9 = Unused /\ x10 = Unused /\ x11 = Unused /\ x12 = Unused /\ x13 = Unused
    \/ /\ part = "draft" /\ Draft!Init

GroupingNext ==
    /\ UNCHANGED part
    /\ \/ /\ part = "review" /\ Reviewed!Next
          /\ UNCHANGED <<x11, x12, x13>>
       \/ /\ part = "restored" /\ Restored!Next
          /\ UNCHANGED <<x11, x12, x13>>
       \/ /\ part = "update" /\ Updated!Next
          /\ UNCHANGED <<x11, x12, x13>>
       \/ /\ part = "trials" /\ Tried!TrialNext
          /\ UNCHANGED <<x12, x13>>
       \/ /\ part = "reading" /\ Read!TrialNext
          /\ UNCHANGED <<x12, x13>>
       \/ /\ part = "basis" /\ Basis!Next
          /\ UNCHANGED <<x9, x10, x11, x12, x13>>
       \/ /\ part = "draft" /\ Draft!Next

ReceiptsSpec == (PagesInit \/ GroupingInit) /\ [][PagesNext \/ GroupingNext]_vars

\* The one receipt that is reviewed in any way, alone.
RestoredSpec == (GroupingInit /\ part = "restored") /\ [][GroupingNext]_vars

\* The tables of a grouping always agree, whatever refreshes, reviews, updates,
\* edits and trials interleave: a recorded assignment has its group and is the
\* effective one, and an item names its group as the table does.  What is written
\* rests on the pages, reviews, notices and rules of that moment, whatever was
\* cached and changed while the request ran, and an up-to-date window is refused
\* only for a change (GroupingBasis).
GroupsResolve ==
    /\ part = "review" => Reviewed!AssignmentResolves /\ Reviewed!LabelsAgree
    /\ part = "restored" =>
         Restored!GroupingTypeOK /\ Restored!AssignmentResolves /\ Restored!LabelsAgree
    /\ part = "update" =>
         Updated!GroupingTypeOK /\ Updated!AssignmentResolves /\ Updated!LabelsAgree
    /\ part = "trials" => Tried!TrialTypeOK /\ Tried!LabelsAgree
    /\ part = "reading" => Read!TrialTypeOK /\ Read!LabelsAgree
    /\ part = "basis" =>
         /\ Basis!BasisTypeOK /\ Basis!WrittenIsCurrent
         /\ Basis!CachedIsAudited /\ Basis!RefusedForAReason

\* No step of a grouping takes what it must keep: a correction of a person stays
\* exactly until its receipt got another crop, boundary status or type, a replaced row is in the history,
\* a stored reading is of the reviewed rectangle and the active rules, an export
\* is of the review of that moment, a trial leaves what a person decided alone,
\* and its undo brings back what was there.
GroupingKeeps ==
    [][/\ part = "review" =>
            Reviewed!CorrectionsStay /\ Reviewed!HistoryKeeps /\ Reviewed!ExportIsReviewed
       /\ part = "restored" =>
            Restored!CorrectionsStay /\ Restored!HistoryKeeps /\ Restored!ExportIsReviewed
       /\ part = "update" => Updated!CorrectionsStay /\ Updated!ReadingIsCurrent
       /\ part = "trials" => Tried!TrialsKeepManual /\ Tried!UndoRestores
       /\ part = "reading" => Read!TrialsKeepManual /\ Read!UndoRestores]_vars

\* A grouped export publishes whole files that were made of what is current when
\* they appear, touches no file of others, and a failure names what it leaves
\* (GroupingDraft).
DraftIsWhole ==
    [][part = "draft" =>
        /\ Draft!DraftTypeOK'
        /\ Draft!PublishedIsCurrent /\ Draft!PublishedIsWhole
        /\ Draft!OthersKept /\ Draft!FailureNamesRemains]_vars


GroupingSymmetry == Permutations({r1, r2})
=============================================================================
