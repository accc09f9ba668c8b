----------------------------- MODULE MCReviews ------------------------------
(***************************************************************************)
(* Small instances of the modules about stored reviews: the reviews of a   *)
(* task (TaskReviews), of segments (ReviewSegments) and receipts           *)
(* (ReviewReceipts), of which ReviewProofs states what they share, and the *)
(* rounds of a calibration (CalibrationJournal) with the templates they    *)
(* leave (LayoutTemplates).                                                *)
(*                                                                         *)
(* The instances share nothing, so one run checks them side by side:       *)
(* `part' is fixed in the initial state and says which of them a behaviour *)
(* is about.  The reviews keep their own names and rest in their initial   *)
(* state while another instance runs; x1, x2, ... are the variables of the *)
(* others.  The values a1, a2, b1, b2, c1, c2 are interchangeable and play *)
(* several roles.                                                          *)
(***************************************************************************)
EXTENDS ReviewProofs, TLC

CONSTANTS
    a1, a2, b1, b2, c1, c2, k1, k2, s1, s2, ok, redo, i1, i2, s, t, x, r3,
    OTHERJOB, Unused

VARIABLES
    part,  \* the instance a behaviour is about
    x1, x2, x3, x4, x5, x6, x7, x8, x9

allVars == <<taskVars, segmentVars, rvars, part, x1, x2, x3, x4, x5, x6, x7, x8, x9>>

\* Two analyses that disagree on one item, one of a single item, and one with
\* an item that cannot be persisted.
MCManifests ==
    {[i \in {i1, i2} |-> s], [i \in {i1, i2} |-> IF i = i1 THEN s ELSE t],
     [i \in {i1} |-> s], [i \in {i1, i2} |-> IF i = i1 THEN s ELSE x]}

Reviewed(i, task, segment, v) == [id |-> i, key |-> <<task, segment>>, verdict |-> v]

\* Batches of two clients: in any order, of one segment twice, under an
\* identifier of somebody else, with an invalid verdict at the end.
MCBatches ==
    {<<Reviewed(i1, k1, s1, ok), Reviewed(i2, k1, s2, ok)>>,
     <<Reviewed(i2, k1, s1, redo), Reviewed(i1, k1, s2, redo)>>,
     <<Reviewed(i2, k1, s1, ok)>>,
     <<Reviewed(i1, k1, s2, ok), Reviewed(i1, k1, s2, redo)>>,
     <<Reviewed(i1, k2, s1, ok)>>,
     <<Reviewed(i2, k1, s2, redo), Reviewed(i1, k2, s1, redo)>>,
     <<Reviewed(i2, k1, s1, redo), Reviewed(i1, k1, s2, Invalid)>>}

\* Two rounds of calibration, their numbers around the worker's revision.
Calibration == INSTANCE CalibrationJournal
    WITH Rounds <- {1, 3}, FIRST <- 2, Modes <- {"calibration", "template"}, Shapes <- {"a"},
         Statuses <- {"excluded"}, MaxRev <- 1, result <- x1, pages <- x2, layout <- x3,
         op <- x4, undo <- x5, context <- x6, rows <- x7, passed <- x8, truth <- x9

\* Three rounds publish templates of one slot.
Templates == INSTANCE LayoutTemplates
    WITH Rounds <- {a1, a2, r3}, Slots <- {c1}, round <- x1, intent <- x2, tmpl <- x3,
         withdrawn <- x4, undone <- x5

\* Two rounds publish templates of two slots.
Positions == INSTANCE LayoutTemplates
    WITH Rounds <- {a1, a2}, Slots <- {c1, c2}, round <- x1, intent <- x2, tmpl <- x3,
         withdrawn <- x4, undone <- x5

AllInit ==
    /\ TaskInit /\ SegmentInit /\ ReceiptInit
    /\ \/ /\ part \in {"tasks", "segments", "receipts"}
          /\ x1 = Unused /\ x2 = Unused /\ x3 = Unused /\ x4 = Unused /\ x5 = Unused
          /\ x6 = Unused /\ x7 = Unused /\ x8 = Unused /\ x9 = Unused
       \/ /\ part = "rounds" /\ Calibration!Init
       \/ /\ part = "templates" /\ Templates!Init
          /\ x6 = Unused /\ x7 = Unused /\ x8 = Unused /\ x9 = Unused
       \/ /\ part = "positions" /\ Positions!Init
          /\ x6 = Unused /\ x7 = Unused /\ x8 = Unused /\ x9 = Unused
    /\ part # "receipts" => context = NONE

\* The instances in the variables x1, x2, ... rest, and those of the reviews.
OthersRest == UNCHANGED <<x1, x2, x3, x4, x5, x6, x7, x8, x9>>
ReviewsRest == UNCHANGED taskVars /\ UNCHANGED segmentVars /\ UNCHANGED rvars

AllNext ==
    /\ UNCHANGED part
    /\ \/ /\ part = "tasks" /\ TaskNext
          /\ UNCHANGED segmentVars /\ UNCHANGED rvars /\ OthersRest
       \/ /\ part = "segments" /\ SegmentNext
          /\ UNCHANGED taskVars /\ UNCHANGED rvars /\ OthersRest
       \/ /\ part = "receipts" /\ ReviewStep
          /\ UNCHANGED taskVars /\ UNCHANGED segmentVars /\ OthersRest
       \/ /\ part = "rounds" /\ Calibration!Next /\ ReviewsRest
       \/ /\ part = "templates" /\ Templates!Next /\ ReviewsRest
          /\ UNCHANGED <<x6, x7, x8, x9>>
       \/ /\ part = "positions" /\ Positions!Next /\ ReviewsRest
          /\ UNCHANGED <<x6, x7, x8, x9>>

AllSpec == AllInit /\ [][AllNext]_allVars

\* The instance `positions' alone.
PositionsSpec == AllSpec /\ part = "positions"

-----------------------------------------------------------------------------
\* A round of calibration is in both databases or in neither as far as anybody
\* can see, once, and the templates it leaves form one chain per series, of which
\* none of an undone round is used (CalibrationJournal, LayoutTemplates).
UpkeepIsWhole ==
    /\ part = "rounds" =>
         Calibration!CalibrationTypeOK /\ Calibration!NeverMixed /\ Calibration!ProjectedOnce
    /\ part = "templates" =>
         /\ Templates!TemplateTypeOK /\ Templates!SeriesIsChain
         /\ Templates!WithdrawnIsInactive /\ Templates!HiddenAtOnce
    /\ part = "positions" => Positions!SeriesIsChain /\ Positions!WithdrawnIsInactive

\* No operation takes more than its own: a save overwrites only what its window
\* has seen, and who saves a receipt has seen every decision that goes with it; an
\* undo takes back what its round did and nothing a person decided later; a new
\* version of a template keeps the positions of the old one.
OnlyTheirOwn ==
    [][/\ NoBlindOverwrite /\ SaverSawAll
       /\ part = "rounds" => Calibration!UndoTakesOnlyItsRound
       /\ part = "templates" => Templates!VersionKeepsPositions
       /\ part = "positions" => Positions!VersionKeepsPositions]_allVars

\* docs/manual-test-checklist.md says of the templates that tasks to come do not
\* use boundaries that have been undone.  The code does not keep to it.
UndoneStaysOut == part = "positions" => Positions!UndoneStaysOut

Symmetry == Permutations({a1, a2}) \cup Permutations({b1, b2}) \cup Permutations({c1, c2})
=============================================================================
