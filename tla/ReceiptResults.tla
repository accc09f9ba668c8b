--------------------------- MODULE ReceiptResults ---------------------------
(***************************************************************************)
(* From the pages of a receipt batch to its review snapshot                *)
(* (src/engine/batch_pdf.py compute_receipt_page, receipt_layout.py,       *)
(* receipt_selection.py, receipt_checkpoint.py, receipt_snapshot.py,       *)
(* schema 2).                                                              *)
(*                                                                         *)
(* A page is what the parser found on it: text blocks, visible objects and *)
(* the receipts the layout inferred, together with what its source knows   *)
(* of the form (a policy, a reference page, a saved or a historical        *)
(* layout).  Rectangles are full-width bands in points; confidences are    *)
(* percentages.  The slots of a page come first, the receipts in them are  *)
(* told from blank ones, the search selects among the receipts, and what   *)
(* is doubtful goes to a person.                                           *)
(***************************************************************************)
EXTENDS Integers, Sequences, FiniteSets, SequencesExt, FiniteSetsExt

CONSTANTS
    Sources,      \* the job's sources in import order: [sha, pages]
    Optionses,    \* the jobs considered: [mode, include, all, exclude]
    Contents,     \* the pages considered
    Height,       \* the height of every page
    MaxRisks      \* how many risks of a layout are listed before a sentinel

MinCrop == 12

ReceiptResultsAssumption ==
    /\ Height \in Nat /\ Height >= MinCrop
    /\ MaxRisks \in Nat
    /\ \A o \in Optionses :
         /\ o.mode \in {"search", "split_all"} /\ o.all \in BOOLEAN
         /\ (o.mode = "search") = (o.include # {})
         /\ o.mode = "split_all" => o.exclude = {}
    /\ \A s \in DOMAIN Sources : Sources[s].pages \in Nat \ {0}

VARIABLES
    options,      \* what the job asks for
    content,      \* what was read on each page (the document)
    results,      \* the durable checkpoint of each page
    outcome,      \* what became of the snapshot
    items         \* the snapshot, once assembled

vars == <<options, content, results, outcome, items>>

PageKeys == UNION {{s} \X (1 .. Sources[s].pages) : s \in DOMAIN Sources}

\* The pages in the order of the snapshot: by source, then by page.
InOrder == SetToSortSeq(PageKeys, LAMBDA a, b :
               a[1] < b[1] \/ (a[1] = b[1] /\ a[2] < b[2]))

Unread  == [blocks |-> <<>>]
Missing == [state |-> "pending", slots |-> <<>>, review |-> FALSE, instances |-> <<>>,
            excluded |-> {}, candidates |-> <<>>, diagnostics |-> {}]
Failed  == [Missing EXCEPT !.state = "failed"]

Init ==
    /\ options \in Optionses
    /\ content = [k \in PageKeys |-> Unread]
    /\ results = [k \in PageKeys |-> Missing]
    /\ outcome = "open"
    /\ items = <<>>

-----------------------------------------------------------------------------
(* Bands.                                                                  *)

Band(a, b) == [from |-> a, to |-> b]
Size(r) == r.to - r.from
Covers(outer, inner) == outer.from <= inner.from /\ inner.to <= outer.to
Touches(a, b) == a.from < b.to /\ b.from < a.to
OnPage(r) == 0 <= r.from /\ r.from < r.to /\ r.to <= Height

Least(S)    == CHOOSE n \in S : \A m \in S : n <= m
Greatest(S) == CHOOSE n \in S : \A m \in S : n >= m

-----------------------------------------------------------------------------
(* The slots of a page.                                                    *)

\* Slots from top to bottom, apart from each other and large enough to crop.
ValidLayout(slots) ==
    /\ slots # <<>>
    /\ \A i \in DOMAIN slots : OnPage(slots[i]) /\ Size(slots[i]) >= MinCrop
    /\ \A i \in DOMAIN slots : i > 1 => slots[i - 1].to <= slots[i].from

\* How far two receipts may overlap and still be a shared separator.
AllowedOverlap(a, b) == Least({12, Least({Size(a), Size(b)}) \div 20})

\* A seam of more than four points: complete visuals, a title on each side, and
\* nothing taller than a perforation mark across it.
ClearSeam(page, i, upper, lower) ==
    /\ page.complete
    /\ page.candidates[i].titled /\ page.candidates[i + 1].titled
    /\ ~\E o \in page.objects :
          o.image /\ Size(o.at) > 8 /\ o.at.from < upper.to /\ o.at.to > lower.from

\* The seam after slot i is split at its middle, unless text crosses it.
SplitSeam(page, slots, i) ==
    LET upper   == slots[i]
        lower   == slots[i + 1]
        overlap == upper.to - lower.from
        middle  == (upper.to + lower.from) \div 2
        refused == \/ overlap > AllowedOverlap(upper, lower)
                   \/ overlap > 4 /\ ~ClearSeam(page, i, upper, lower)
                   \/ \E b \in ToSet(page.blocks) :
                        b.kind # "watermark" /\ b.at.from < middle /\ middle < b.at.to
    IN  IF slots = <<>> \/ overlap <= 0 THEN slots
        ELSE IF refused THEN <<>>
        ELSE [slots EXCEPT ![i] = Band(upper.from, middle), ![i + 1] = Band(middle, lower.to)]

\* A slot grows by at most twelve points to take in an image that leaves it,
\* never into another receipt nor off the paper.
Stretched(page, slots) ==
    [i \in DOMAIN slots |->
        LET slot  == slots[i]
            above == IF i > 1 THEN slots[i - 1].to ELSE 0
            below == IF i < Len(slots) THEN slots[i + 1].from ELSE Height
            taken == {o.at : o \in {p \in page.objects :
                        /\ p.image /\ Touches(slot, p.at) /\ ~Covers(slot, p.at)
                        /\ above <= p.at.from /\ p.at.to <= below
                        /\ Greatest({slot.from - p.at.from, 0})
                             + Greatest({p.at.to - slot.to, 0}) <= 12}}
        IN  Band(Least({slot.from} \cup {r.from : r \in taken}),
                 Greatest({slot.to} \cup {r.to : r \in taken}))]

\* The slots the evidence of a page suggests; none when it is ambiguous.
EvidenceSlots(page) ==
    LET Split(slots, i) == IF slots = <<>> THEN <<>> ELSE SplitSeam(page, slots, i)
        boxes == [i \in DOMAIN page.candidates |-> page.candidates[i].rect]
        seams == [i \in 1 .. (Len(boxes) - 1) |-> i]
        slots == Stretched(page, FoldLeft(Split, boxes, seams))
    IN  IF ValidLayout(slots) THEN slots ELSE <<>>

Suggestion(basis, slots, review, notes) ==
    [basis |-> basis, slots |-> slots, review |-> review, notes |-> notes]

\* The layout of the page itself, or of a reference page of the same form.  What
\* cannot be told becomes one slot that a person must divide.
UnsureLayout(page, base, policy) ==
    \/ page.exceeded \/ base.exceeded
    \/ Len(base.candidates) = 1 /\ policy # "single"
    \/ \E c \in ToSet(base.candidates) : c.conf < 90

SuggestLayout(page, policy, reference) ==
    LET whole == <<Band(0, Height)>>
        base  == IF reference = <<>> THEN page ELSE reference[1]
        slots == EvidenceSlots(base)
    IN  IF policy = "single" /\ Len(page.candidates) = 1
        THEN Suggestion("native_single", whole, page.exceeded \/ page.special, {})
        ELSE IF slots = <<>>
        THEN Suggestion("equal_division", whole, TRUE, {"layout_requires_manual_slots"})
        ELSE Suggestion(IF reference = <<>> THEN "page_evidence" ELSE "source_reference",
                        slots, UnsureLayout(page, base, policy), {})

\* What the source knows of the form: pages that contradict each other are only
\* a warning, and a reference that is no proven form gives its slots alone.
FromSource(page) ==
    LET own == SuggestLayout(page, page.policy, <<>>)
    IN  CASE page.warning ->
               [own EXCEPT !.review = TRUE, !.notes = @ \cup {"reference_layout_conflict"}]
          [] ~page.warning /\ page.reference # <<>> /\ ~page.sameForm ->
               [SuggestLayout(page.reference[1], "multiple", <<>>) EXCEPT !.basis = "source_reference"]
          [] ~page.warning /\ (page.reference = <<>> \/ page.sameForm) ->
               SuggestLayout(page, page.policy, page.reference)

\* A layout of an earlier task: one that fits is applied for a person to see,
\* several, or one that would truncate a table, are only a warning.
FromHistory(page) ==
    LET initial == FromSource(page)
    IN  CASE page.history = "none" -> initial
          [] page.history = "several" ->
               [initial EXCEPT !.review = TRUE, !.notes = @ \cup {"historical_template_ambiguous"}]
          [] page.history = "short" ->
               [initial EXCEPT !.review = TRUE, !.notes = @ \cup {"reference_layout_conflict"}]
          [] page.history = "fits" ->
               Suggestion("historical_reference", page.saved, TRUE,
                          initial.notes \cup {"historical_layout_applied"})

\* A special document asks for a person, except on a layout saved for this page.
Watched(page, made) ==
    IF page.special
    THEN [made EXCEPT !.review = @ \/ made.basis # "manual_layout",
                      !.notes = @ \cup {"special_document"}]
    ELSE made

\* A layout saved for this very page is kept exactly.
Suggested(page) ==
    Watched(page, IF page.history = "saved"
                  THEN Suggestion("manual_layout", page.saved, FALSE, {})
                  ELSE FromHistory(page))

-----------------------------------------------------------------------------
(* The receipts in the slots.                                              *)

\* A block that touches several slots is replaced by its lines, where it has any.
Text(page, slots) ==
    LET Crosses(b) == Cardinality({i \in DOMAIN slots : Touches(slots[i], b.at)}) > 1
    IN  IF ~page.native THEN page.blocks
        ELSE FlattenSeq([n \in DOMAIN page.blocks |->
                LET b == page.blocks[n]
                IN  IF Crosses(b) /\ b.lines # <<>>
                    THEN [l \in DOMAIN b.lines |->
                            [b EXCEPT !.at = b.lines[l].at, !.words = b.lines[l].words]]
                    ELSE <<b>>])

In(text, slot)       == {n \in DOMAIN text : text[n].kind # "watermark" /\ Touches(slot, text[n].at)}
Markers(text, slot)  == {n \in In(text, slot) : text[n].kind = "vacant"}
Written(text, slot)  == {n \in In(text, slot) : text[n].kind = "text"}
Visible(page, slot)  == {o \in page.objects : Touches(slot, o.at)}

\* The slot's images only graze it, and rendering them shows white.
ProvenWhite(page, text, slot) ==
    /\ page.complete /\ page.native /\ page.white
    /\ \E n \in DOMAIN text : text[n].kind # "watermark"
    /\ \A o \in Visible(page, slot) : o.image /\ ~Covers(slot, o.at)

Exclusion(page, text, slot) ==
    CASE /\ Markers(text, slot) # {} /\ Written(text, slot) = {}
         /\ Visible(page, slot) = {} /\ page.complete -> "invalid"
      [] OTHER -> IF /\ In(text, slot) = {}
                     /\ \/ Visible(page, slot) = {} /\ page.complete
                        \/ Visible(page, slot) # {} /\ ProvenWhite(page, text, slot)
                  THEN "blank" ELSE "none"

Kept(page, text, slots) == {i \in DOMAIN slots : Exclusion(page, text, slots[i]) = "none"}

Occupied(text, slot) == \E n \in Written(text, slot) : Covers(slot, text[n].at)

Risk(code, slot) == [code |-> code, slot |-> slot, ids |-> {}]

\* What is doubtful about one kept slot.
SlotRisks(page, text, slots, i) ==
    LET slot == slots[i]
    IN  {Risk("suspected_invalid_slot", i) :
            n \in {m \in Markers(text, slot) :
                     /\ ~page.special /\ Covers(slot, text[m].at)
                     /\ Written(text, slot) # {} \/ Visible(page, slot) # {}}}
        \cup {Risk("uncertain_text", i) : n \in {m \in Written(text, slot) : text[m].conf < 90}}
        \cup {Risk("content_crosses_slot", i) :
                n \in {m \in Written(text, slot) : ~Covers(slot, text[m].at)}}
        \cup {Risk("visual_crosses_slot", i) :
                o \in {p \in Visible(page, slot) : ~Covers(slot, p.at)}}
        \cup (IF Occupied(text, slot) THEN {} ELSE {Risk("occupancy_uncertain", i)})

\* What no slot holds.
Outside(page, text, slots) ==
    LET Free(r) == ~\E i \in DOMAIN slots : Touches(slots[i], r)
    IN  {Risk("content_outside_slots", 0) :
            n \in {m \in DOMAIN text : text[m].kind = "text" /\ Free(text[m].at)}}
        \cup {Risk("visual_outside_slots", 0) : o \in {p \in page.objects : Free(p.at)}}

\* The first risks, slot by slot, and a sentinel when there are more.
Listed(risks) ==
    ToSet(SubSeq(risks, 1, Least({Len(risks), MaxRisks})))
        \cup (IF Len(risks) > MaxRisks THEN {Risk("diagnostic_budget_exceeded", 0)} ELSE {})

Risks(page, text, slots) ==
    LET kept == SetToSortSeq(Kept(page, text, slots), <)
    IN  Listed(FlattenSeq([n \in DOMAIN kept |-> SetToSeq(SlotRisks(page, text, slots, kept[n]))])
               \o SetToSeq(Outside(page, text, slots)))

-----------------------------------------------------------------------------
(* The selection.                                                          *)

\* Every clause whose keyword a block holds; watermarks are searched as well.
Matches(text, opts) ==
    UNION {{[query |-> <<"include", w>>, block |-> n] : w \in opts.include \cap text[n].words}
           \cup {[query |-> <<"exclude", w>>, block |-> n] : w \in opts.exclude \cap text[n].words}
             : n \in DOMAIN text}

TouchedBy(block, slots, kept) == {i \in kept : Touches(slots[i], block.at)}

\* The match lies in one receipt and leaves it nowhere.
Reliable(block, slots, kept) ==
    LET touched == TouchedBy(block, slots, kept)
    IN  Cardinality(touched) = 1 /\ \A i \in touched : Covers(slots[i], block.at)

\* A match that may be about another receipt, or was read badly, is only a doubt.
Removes(text, m, slots, kept) ==
    /\ m.query[1] = "exclude"
    /\ text[m.block].conf >= 90
    /\ Reliable(text[m.block], slots, kept)

Doubts(text, m, slots, kept) ==
    text[m.block].conf < 90 \/ ~Reliable(text[m.block], slots, kept)

Findings(text, slots, kept, opts) ==
    UNION {LET b       == text[m.block]
               touched == TouchedBy(b, slots, kept)
               Note(code) == [code |-> code, slot |-> 0, ids |-> touched]
           IN  {Note(c) : c \in {d \in {"unassigned_block", "ambiguous_block",
                                        "cross_boundary_block", "low_confidence_exclude"} :
                  CASE d = "unassigned_block"       -> touched = {}
                    [] d = "ambiguous_block"        -> Cardinality(touched) > 1
                    [] d = "cross_boundary_block"   -> Cardinality(touched) = 1 /\ ~Reliable(b, slots, kept)
                    [] d = "low_confidence_exclude" ->
                         touched # {} /\ m.query[1] = "exclude" /\ b.conf < 90}}
             : m \in Matches(text, opts)}

\* The receipts of the answer, each with the matches that speak for it.
Satisfied(found, opts) ==
    IF opts.all THEN opts.include \subseteq found ELSE found \cap opts.include # {}

Selected(page, text, slots, kept, opts) ==
    LET ms      == Matches(text, opts)
        Of(i)   == {m \in ms : i \in TouchedBy(text[m.block], slots, kept)}
        For(i)  == {m \in Of(i) : m.query[1] = "include"}
        Chosen(i) ==
            IF opts.mode = "split_all" THEN TRUE
            ELSE /\ Satisfied({m.query[2] : m \in For(i)}, opts)
                 /\ ~\E m \in Of(i) : Removes(text, m, slots, kept)
        Candidate(i) ==
            [slot |-> i, basis |-> IF opts.mode = "split_all" THEN "occupied_slot" ELSE "keyword",
             evidence |-> {[query |-> m.query, at |-> text[m.block].at] : m \in For(i)},
             review |-> \/ ~Occupied(text, slots[i])
                        \/ \E m \in Of(i) : Doubts(text, m, slots, kept)]
        order == SetToSortSeq({i \in kept : Chosen(i)}, <)
    IN  [n \in DOMAIN order |-> Candidate(order[n])]

-----------------------------------------------------------------------------
(* The checkpoint of a page.                                               *)

GlobalRisks == {"content_outside_slots", "visual_outside_slots", "diagnostic_budget_exceeded"}

\* A selected receipt needs a review when its layout, its page or its slot does.
\* Fault: the risks of the slot are forgotten.
NeedsReviewMutant(candidate, suggestion, risks) ==
    \/ candidate.review
    \/ suggestion.review
    \/ \E r \in risks : r.code \in GlobalRisks
NeedsReview(candidate, suggestion, risks) ==
    \/ candidate.review
    \/ suggestion.review
    \/ \E r \in risks : r.code \in GlobalRisks \/ r.slot = candidate.slot

CheckpointOf(page, opts, suggestion, text, kept, risks) ==
    LET slots  == suggestion.slots
        order  == SetToSortSeq(kept, <)
        chosen == Selected(page, text, slots, kept, opts)
    IN  [state       |-> "succeeded",
         slots       |-> slots,
         review      |-> suggestion.review,
         instances   |-> [n \in DOMAIN order |->
                            [slot |-> order[n], rect |-> slots[order[n]],
                             occupied |-> Occupied(text, slots[order[n]])]],
         excluded    |-> DOMAIN slots \ kept,
         candidates  |-> [n \in DOMAIN chosen |->
                            [chosen[n] EXCEPT !.review = NeedsReview(chosen[n], suggestion, risks)]],
         diagnostics |-> {Risk(c, 0) : c \in suggestion.notes} \cup risks
                         \cup Findings(text, slots, kept, opts)]

CheckpointIn(page, opts, suggestion, text) ==
    CheckpointOf(page, opts, suggestion, text,
                 Kept(page, text, suggestion.slots), Risks(page, text, suggestion.slots))

CheckpointWith(page, opts, suggestion) ==
    CheckpointIn(page, opts, suggestion, Text(page, suggestion.slots))

Checkpoint(page, opts) == CheckpointWith(page, opts, Suggested(page))

\* The selector refuses a page with text that leaves it.
ReadablePage(page, text) == \A n \in DOMAIN text : OnPage(text[n].at)

InstanceOf(r, slot) == CHOOSE i \in ToSet(r.instances) : i.slot = slot

\* Every slot is a receipt or excluded, every candidate one of the receipts.
ValidPage(r, mode) ==
    LET present == {i.slot : i \in ToSet(r.instances)}
    IN  /\ ValidLayout(r.slots)
        /\ present \cup r.excluded = DOMAIN r.slots /\ present \cap r.excluded = {}
        /\ Len(r.instances) = Cardinality(present)
        /\ \A i \in ToSet(r.instances) : i.rect = r.slots[i.slot]
        /\ \A c \in ToSet(r.candidates) : c.slot \in present
        /\ Cardinality({c.slot : c \in ToSet(r.candidates)}) = Len(r.candidates)
        /\ mode = "split_all" => Len(r.candidates) = Len(r.instances)

ValidCandidate(r, c, mode) ==
    LET instance == InstanceOf(r, c.slot)
    IN  /\ (c.basis = "keyword") = (mode = "search")
        /\ (c.basis = "keyword") = (c.evidence # {})
        /\ ~instance.occupied => c.review
        /\ \A e \in c.evidence : /\ OnPage(e.at) /\ Touches(instance.rect, e.at)
                                 /\ Covers(instance.rect, e.at) \/ c.review

\* A diagnostic names slots and receipts of its page.
ValidDiagnostic(r, d) ==
    /\ d.slot = 0 \/ d.slot \in DOMAIN r.slots
    /\ d.ids \subseteq {i.slot : i \in ToSet(r.instances)}

\* No risk may be stored beside a receipt that needs no review.
ReviewConsistent(r) ==
    /\ r.review => \A c \in ToSet(r.candidates) : c.review
    /\ \A d \in r.diagnostics : \A c \in ToSet(r.candidates) :
          (d.code \in GlobalRisks \/ d.slot = c.slot \/ c.slot \in d.ids) => c.review

ValidCheckpoint(r, mode) ==
    /\ ValidPage(r, mode)
    /\ \A c \in ToSet(r.candidates) : ValidCandidate(r, c, mode)
    /\ \A d \in r.diagnostics : ValidDiagnostic(r, d)
    /\ ReviewConsistent(r)

\* A checkpoint is kept when it validates, else the page fails.
Stored(page, made) ==
    IF /\ ReadablePage(page, Text(page, made.slots))
       /\ ValidCheckpoint(made, options.mode)
    THEN made ELSE Failed

\* One page is computed.
ComputePage(k) ==
    /\ outcome = "open"
    /\ results[k] = Missing
    /\ \E page \in Contents :
         /\ content' = [content EXCEPT ![k] = page]
         /\ results' = [results EXCEPT ![k] = Stored(page, Checkpoint(page, options))]
    /\ UNCHANGED <<options, outcome, items>>

-----------------------------------------------------------------------------
(* The snapshot.                                                           *)

\* The instance names its content, page and slot; the item also its source.
ItemId(k, slot) == <<Sources[k[1]].sha, k[2], slot, k[1]>>

Item(k, c) ==
    LET rect == results[k].slots[c.slot]
    IN  [id |-> ItemId(k, c.slot), source |-> k[1], page |-> k[2], position |-> c.slot,
         rect |-> rect, occupied |-> InstanceOf(results[k], c.slot).occupied,
         basis |-> c.basis, evidence |-> c.evidence,
         status |-> IF c.review THEN "needs_review" ELSE "confirmed"]

\* Items by source, page and position.
Assembled ==
    FlattenSeq([n \in DOMAIN InOrder |->
        LET k       == InOrder[n]
            ordered == SortSeq(results[k].candidates, LAMBDA a, b : a.slot < b.slot)
        IN  [c \in DOMAIN ordered |-> Item(k, ordered[c])]])

\* The evidence answers the job's own clauses.
BoundQueries(r, opts) ==
    \A c \in ToSet(r.candidates) :
        LET found == {e.query : e \in c.evidence}
            asked == {<<"include", w>> : w \in opts.include}
        IN  /\ found \subseteq asked
            /\ opts.mode = "search" => found # {} /\ (opts.all => found = asked)

ValidItem(item) ==
    /\ OnPage(item.rect) /\ Size(item.rect) >= MinCrop
    /\ ~item.occupied => item.status = "needs_review"
    /\ (item.evidence # {}) = (item.basis = "keyword")
    /\ \A e \in item.evidence : /\ OnPage(e.at) /\ Touches(item.rect, e.at)
                                /\ Covers(item.rect, e.at) \/ item.status = "needs_review"

Complete == \A k \in PageKeys : results[k].state = "succeeded"

\* Every page has its checkpoint: assemble and publish, or refuse what does not hold.
Finalize ==
    /\ outcome = "open"
    /\ Complete
    /\ items' = Assembled
    /\ outcome' = IF /\ \A k \in PageKeys : /\ ValidCheckpoint(results[k], options.mode)
                                            /\ BoundQueries(results[k], options)
                     /\ \A i \in DOMAIN items' : ValidItem(items'[i])
                  THEN "published" ELSE "refused"
    /\ UNCHANGED <<options, content, results>>

\* A page failed: the job waits for a retry and nothing is assembled.
EndPartial ==
    /\ outcome = "open"
    /\ \A k \in PageKeys : results[k] # Missing
    /\ \E k \in PageKeys : results[k] = Failed
    /\ outcome' = "partial_failed"
    /\ UNCHANGED <<options, content, results, items>>

Next ==
    \/ \E k \in PageKeys : ComputePage(k)
    \/ Finalize
    \/ EndPartial

Spec == Init /\ [][Next]_vars

-----------------------------------------------------------------------------
(* Properties.                                                             *)

\* The types of the state; a snapshot rests on a checkpoint of every page, and
\* what it crops can be cropped.
ReceiptResultsTypeOK ==
    /\ options \in Optionses
    /\ DOMAIN content = PageKeys /\ DOMAIN results = PageKeys
    /\ outcome \in {"open", "published", "refused", "partial_failed"}
    /\ \A k \in PageKeys :
         /\ results[k].state \in {"pending", "succeeded", "failed"}
         /\ results[k].state # "succeeded" => results[k].instances = <<>>
    /\ \A i \in DOMAIN items : OnPage(items[i].rect) /\ Size(items[i].rect) >= MinCrop
    /\ outcome \in {"open", "partial_failed"} => items = <<>>
    /\ outcome \in {"published", "refused"} =>
         \A k \in PageKeys : results[k].state = "succeeded"

\* The lines of a page, as finely as they can be told apart.
Lines(page) ==
    UNION {IF page.native /\ b.lines # <<>>
           THEN {[b EXCEPT !.at = l.at, !.words = l.words] : l \in ToSet(b.lines)}
           ELSE {b} : b \in ToSet(page.blocks)}

\* A page fails only for text that leaves it: however its layout was found, cut
\* off or doubted, what compute_receipt_page makes of it is what the checkpoint
\* codec accepts, its review flags included.
DoubtNeverFailsPage ==
    \A k \in PageKeys : results[k] = Failed =>
        \E b \in ToSet(content[k].blocks) : ~OnPage(b.at)

\* The pages that were stored always make a snapshot.
StoredIsPublished == outcome # "refused"

\* No text of a page is dropped in silence: a receipt holds some of it, or the
\* page says that something lies outside, and then every receipt of it is reviewed.
NoTextIsDropped ==
    \A k \in PageKeys : results[k].state = "succeeded" =>
        \A line \in Lines(content[k]) : line.kind = "text" =>
            \/ \E i \in ToSet(results[k].instances) : Touches(i.rect, line.at)
            \/ /\ \E d \in results[k].diagnostics : d.code \in GlobalRisks
               /\ \A c \in ToSet(results[k].candidates) : c.review

\* A receipt is confirmed without a review only when all that touches it lies
\* in it and was read well, nothing lies outside the slots, nothing that touches it
\* is excluded, and its layout was neither cut off nor guessed: it was saved for
\* this page, or comes from evidence of the page or of a form it was matched with.
ConfirmedIsSure ==
    \A n \in DOMAIN items : items[n].status = "confirmed" =>
        LET page == content[<<items[n].source, items[n].page>>]
            slots == results[<<items[n].source, items[n].page>>].slots
            rect == items[n].rect
        IN  /\ \A line \in Lines(page) : Touches(rect, line.at) =>
                  /\ line.kind = "text" => Covers(rect, line.at) /\ line.conf >= 90
                  /\ line.words \cap options.exclude = {}
            /\ \A line \in Lines(page) :
                  line.kind = "text" => \E i \in DOMAIN slots : Touches(slots[i], line.at)
            /\ \A o \in page.objects : Touches(rect, o.at) => Covers(rect, o.at)
            /\ page.history \in {"none", "saved"}
            /\ page.history = "none" => ~page.warning
            /\ page.history = "none" /\ (page.reference = <<>> \/ page.sameForm) => ~page.exceeded
            /\ page.history = "none" /\ page.reference = <<>> =>
                  page.policy = "single" \/ Len(page.candidates) > 1

\* A search keeps back a receipt that holds what it asks for only on a well-read
\* excluded keyword that lies in that receipt alone.
ExclusionIsSure ==
    \A k \in PageKeys : outcome = "published" /\ options.mode = "search" =>
        \A i \in ToSet(results[k].instances) :
            LET inside == {b \in Lines(content[k]) : Covers(i.rect, b.at)}
                asked  == {w \in options.include : \E b \in inside : w \in b.words}
                wanted == IF options.all THEN asked = options.include ELSE asked # {}
            IN  wanted =>
                  \/ \E n \in DOMAIN items :
                        <<items[n].source, items[n].page>> = k /\ items[n].position = i.slot
                  \/ \E b \in inside : b.conf >= 90 /\ b.words \cap options.exclude # {}

\* The receipts of a snapshot are told apart, also when two sources are the same
\* document, and no point of a page is cropped twice.
ReceiptsAreApart ==
    \A m, n \in DOMAIN items : m < n =>
        /\ items[m].id # items[n].id
        /\ <<items[m].source, items[m].page>> = <<items[n].source, items[n].page>> =>
              items[m].rect.to <= items[n].rect.from

=============================================================================
