---------------------------- MODULE BatchResults ----------------------------
(***************************************************************************)
(* From the pages of a search batch to its review snapshot                 *)
(* (src/engine/batch_pdf.py compute_page, engine.py _selection_payloads,   *)
(* batch_models.py validate_page_result, batch_results.py, and the checks  *)
(* batch_store.publish_snapshot makes of what it is given, schema 1).      *)
(*                                                                         *)
(* A page is what the parser found on it: text blocks, each with the       *)
(* keywords it holds, and the receipts the layout inferred.  Rectangles    *)
(* are full-width bands, an interval of the page height; confidences are   *)
(* percentages.  The worker computes pages in any order, a page whose      *)
(* result does not validate fails, and the assembly runs once every page   *)
(* has a result.                                                           *)
(***************************************************************************)
EXTENDS Integers, Sequences, FiniteSets, SequencesExt, FiniteSetsExt

CONSTANTS
    Sources,      \* the job's sources in import order: [sha, pages]
    Criterias,    \* the searches considered: [include, mode, exclude]
    Contents,     \* the pages considered: [blocks, receipts, exceeded, policy, title]
    Height,       \* the height of every page
    MinCrop       \* the smallest height of a crop (12 points)

ResultsAssumption ==
    /\ Height \in Nat /\ MinCrop \in 1 .. Height
    /\ \A c \in Criterias : c.include # <<>> /\ c.mode \in {"all", "any"}
    /\ \A s \in DOMAIN Sources : Sources[s].pages \in Nat \ {0}

VARIABLES
    criteria,     \* the search of the job
    content,      \* what was read on each page (the document)
    results,      \* the durable result of each page
    outcome,      \* what became of the snapshot
    items         \* the snapshot, once assembled

vars == <<criteria, content, results, outcome, items>>

PageKeys == UNION {{s} \X (1 .. Sources[s].pages) : s \in DOMAIN Sources}

\* The pages in the order of the snapshot: by source, then by page.
InOrder == SetToSortSeq(PageKeys, LAMBDA a, b :
               a[1] < b[1] \/ (a[1] = b[1] /\ a[2] < b[2]))

Unread  == [blocks |-> <<>>, receipts |-> <<>>, exceeded |-> FALSE,
            policy |-> "unknown", title |-> 100, ocr |-> FALSE]
Missing == [state |-> "pending", hits |-> <<>>, selections |-> <<>>, fully |-> FALSE]
Failed  == [Missing EXCEPT !.state = "failed"]

Init ==
    /\ criteria \in Criterias
    /\ content = [k \in PageKeys |-> Unread]
    /\ results = [k \in PageKeys |-> Missing]
    /\ outcome = "open"
    /\ items = <<>>

-----------------------------------------------------------------------------
(* Rectangles.                                                             *)

NoRect == [from |-> -1, to |-> -1]
WholePage == [from |-> 0, to |-> Height]

Size(r) == r.to - r.from
Covers(outer, inner) == outer.from <= inner.from /\ inner.to <= outer.to
Ordered(r) == 0 <= r.from /\ r.from < r.to
Inside(r) == Ordered(r) /\ r.to <= Height
LegalCrop(r) == Inside(r) /\ Size(r) >= MinCrop

Least(S) == CHOOSE n \in S : \A m \in S : n <= m

-----------------------------------------------------------------------------
(* One page: the search, the receipts the hits fall in, the selections.    *)

\* One include keyword and nothing else: the search of the first version.
Legacy(crit) == Len(crit.include) = 1 /\ crit.mode = "all" /\ crit.exclude = <<>>

Clauses(crit) ==
    [i \in 1 .. Len(crit.include) |-> [query |-> crit.include[i], role |-> "include"]]
    \o [i \in 1 .. Len(crit.exclude) |-> [query |-> crit.exclude[i], role |-> "exclude"]]

\* A hit for every clause whose keyword a block holds, block by block.
Hits(page, crit) ==
    FlattenSeq([b \in DOMAIN page.blocks |->
        LET block == page.blocks[b]
            found == SelectSeq(Clauses(crit), LAMBDA c : c.query \in block.words)
        IN  [i \in DOMAIN found |->
                [query |-> found[i].query, role |-> found[i].role,
                 at |-> block.at, conf |-> block.conf]]])

\* The smallest receipt that contains the hit, the surest of equal ones; 0 when none does.
SelectCandidate(receipts, rect) ==
    LET fits == {i \in DOMAIN receipts : Covers(receipts[i].rect, rect)}
        NotAfter(i, j) ==
            \/ Size(receipts[i].rect) < Size(receipts[j].rect)
            \/ /\ Size(receipts[i].rect) = Size(receipts[j].rect)
               /\ receipts[i].conf > receipts[j].conf
            \/ /\ Size(receipts[i].rect) = Size(receipts[j].rect)
               /\ receipts[i].conf = receipts[j].conf
               /\ i <= j
    IN  IF fits = {} THEN 0 ELSE CHOOSE i \in fits : \A j \in fits : NotAfter(i, j)

\* Only a page with one receipt is asked for the layout of its source.
Policy(page) == IF Len(page.receipts) = 1 THEN page.policy ELSE "multiple"

\* The whole page may be taken: it holds one receipt, and every hit is in it.
FullyMatched(page, hits) ==
    /\ ~page.exceeded
    /\ Len(page.receipts) = 1
    /\ Policy(page) # "multiple"
    /\ \A h \in DOMAIN hits : SelectCandidate(page.receipts, hits[h].at) # 0

\* Evidence cut off by its budget, or one receipt on a source of unknown
\* layout, is never sure.
SelectionConfidence(page, chosen) ==
    IF chosen = 0 THEN 0
    ELSE IF page.exceeded \/ (Len(page.receipts) = 1 /\ Policy(page) = "unknown")
         THEN Least({page.receipts[chosen].conf, 89})
         ELSE page.receipts[chosen].conf

\* On a page that was read by recognition, no selection is surer than its hit
\* and than the titles that bound the receipts.
Recognized(page, hit, selection) ==
    IF ~page.ocr THEN selection
    ELSE LET sure == Least({selection.conf, hit.conf, page.title})
         IN  [selection EXCEPT !.conf = sure, !.review = @ \/ sure < 90]

Selection(page, hits, h) ==
    LET chosen == SelectCandidate(page.receipts, hits[h].at)
        whole  == FullyMatched(page, hits)
        conf   == SelectionConfidence(page, chosen)
    IN  Recognized(page, hits[h],
            [match     |-> hits[h].at,
             index     |-> chosen,
             candidate |-> IF chosen = 0 THEN NoRect ELSE page.receipts[chosen].rect,
             rect      |-> IF chosen = 0 THEN NoRect
                           ELSE IF whole THEN WholePage ELSE page.receipts[chosen].rect,
             conf      |-> conf,
             review    |-> chosen = 0 \/ page.exceeded \/ conf < 90])

PageResult(page, crit) ==
    LET hits == Hits(page, crit)
    IN  [state      |-> "succeeded",
         hits       |-> hits,
         selections |-> [h \in DOMAIN hits |-> Selection(page, hits, h)],
         fully      |-> hits # <<>> /\ FullyMatched(page, hits)]

\* What a durable page result must say of itself.
ValidMatch(hit) ==
    /\ Ordered(hit.at)
    /\ hit.conf \in 0 .. 100
    /\ hit.role \in {"include", "exclude"}

ValidSelection(s, hit) ==
    /\ s.match = hit.at /\ Inside(s.match)
    /\ s.candidate # NoRect => Inside(s.candidate) /\ Covers(s.candidate, s.match)
    /\ IF s.rect = NoRect
       THEN s.conf = 0 /\ s.index = 0 /\ s.review
       ELSE Inside(s.rect) /\ Covers(s.rect, s.match) /\ (s.review <=> s.conf < 90)

ValidPageResult(r) ==
    /\ \A h \in DOMAIN r.hits : ValidMatch(r.hits[h])
    /\ Len(r.selections) = Len(r.hits)
    /\ \A h \in DOMAIN r.hits : ValidSelection(r.selections[h], r.hits[h])

\* One page is computed: its result is kept when it validates, else it fails.
ComputePage(k) ==
    /\ outcome = "open"
    /\ results[k] = Missing
    /\ \E page \in Contents :
         LET result == PageResult(page, criteria)
         IN  /\ content' = [content EXCEPT ![k] = page]
             /\ results' = [results EXCEPT ![k] =
                               IF ValidPageResult(result) THEN result ELSE Failed]
    /\ UNCHANGED <<criteria, outcome, items>>

-----------------------------------------------------------------------------
(* The assembly.                                                           *)

\* Distinct regions are never folded into one page, whatever the flag says.
AutoFullPage(r) ==
    /\ r.fully
    /\ Cardinality({IF s.candidate # NoRect THEN s.candidate ELSE s.rect
                      : s \in ToSet(r.selections)}) = 1

Resolved(r) == \A s \in ToSet(r.selections) : s.index # 0 /\ s.candidate # NoRect

Queries(r, hs) == {r.hits[h].query : h \in hs}
Of(r, i) == {h \in DOMAIN r.hits : r.selections[h].index = i}
OfRole(r, hs, role) == {h \in hs : r.hits[h].role = role}

\* The receipt holds what the search asks for, and nothing it excludes.
Wanted(r, hs, crit) ==
    /\ IF crit.mode = "any" THEN Queries(r, hs) \cap ToSet(crit.include) # {}
       ELSE ToSet(crit.include) \subseteq Queries(r, hs)
    /\ Queries(r, hs) \cap ToSet(crit.exclude) = {}

\* A receipt is as sure as the least sure of its readings and selections.
EvidenceConfidence(r, hs) ==
    Least(UNION {{r.hits[h].conf, r.selections[h].conf} : h \in OfRole(r, hs, "include")})

\* What becomes an item: every hit of a legacy search, else every wanted receipt.
Entries(r, crit) ==
    IF Legacy(crit)
    THEN [h \in DOMAIN r.hits |->
             [hits |-> {h}, match |-> r.hits[h].at,
              candidate |-> r.selections[h].candidate, conf |-> r.selections[h].conf]]
    ELSE LET wanted == {i \in {s.index : s \in ToSet(r.selections)} : Wanted(r, Of(r, i), crit)}
             sorted == SetToSortSeq(wanted, <)
         IN  [n \in DOMAIN sorted |->
                LET hs == Of(r, sorted[n])
                IN  [hits |-> hs, match |-> r.hits[Least(OfRole(r, hs, "include"))].at,
                     candidate |-> r.selections[Least(hs)].candidate,
                     conf |-> EvidenceConfidence(r, hs)]]

Status(conf, candidate, match) ==
    IF conf < 70 \/ ~LegalCrop(candidate) \/ ~Inside(match) THEN "blocked"
    ELSE IF conf < 90 THEN "needs_review" ELSE "confirmed"

\* Sources of equal content would share their identifiers: the later one's
\* carries its position.
SegmentId(k, n, used) ==
    LET base == <<Sources[k[1]].sha, k[2], n, 0>>
    IN  IF base \in used THEN [base EXCEPT ![4] = k[1]] ELSE base

Item(k, n, entry, full, used) ==
    LET id == SegmentId(k, n, used)
    IN  [segment  |->
            [id |-> id, source |-> k[1], page |-> k[2], no |-> n, sha |-> Sources[k[1]].sha,
             match |-> entry.match, candidate |-> entry.candidate,
             final |-> IF full THEN NoRect ELSE entry.candidate,
             conf |-> entry.conf, mode |-> IF full THEN "full_page" ELSE "candidate",
             status |-> Status(entry.conf, entry.candidate, entry.match)],
         evidence |-> {results[k].hits[h] : h \in entry.hits},
         original |->
            [id |-> id, source |-> k[1], page |-> k[2], no |-> n,
             persistable |-> Inside(entry.match) /\
                             (entry.candidate = NoRect \/ Inside(entry.candidate)),
             match |-> entry.match, candidate |-> entry.candidate,
             conf |-> entry.conf, auto |-> full]]

\* The items of one page are added to those of the pages before it.
AddPage(made, k) ==
    LET entries == Entries(results[k], criteria)
        AddItem(sofar, n) ==
            Append(sofar, Item(k, n, entries[n], AutoFullPage(results[k]),
                               {item.segment.id : item \in ToSet(sofar)}))
    IN  FoldLeft(AddItem, made, [n \in DOMAIN entries |-> n])

Assembled == FoldLeft(AddPage, <<>>, InOrder)

-----------------------------------------------------------------------------
(* What the store checks before it publishes.                              *)

\* A rectangle is in order, and on the page where it has to be.
SnapshotRect(r, bounded) == Ordered(r) /\ (bounded => r.to <= Height)

\* Identifiers and places are unique, and the geometry is on the page.
ValidOriginals(made) ==
    /\ \A i, j \in DOMAIN made : i # j =>
          /\ made[i].original.id # made[j].original.id
          /\ <<made[i].original.source, made[i].original.page, made[i].original.no>> #
             <<made[j].original.source, made[j].original.page, made[j].original.no>>
    /\ \A i \in DOMAIN made :
          LET o == made[i].original
          IN  /\ o.page <= Sources[o.source].pages
              /\ o.conf \in 0 .. 100
              /\ o.persistable => Inside(o.match) /\ (o.candidate # NoRect => Inside(o.candidate))

\* The segment is the unedited form of its original.
ValidSegment(s, o) ==
    /\ s.id = o.id /\ s.source = o.source /\ s.page = o.page /\ s.no = o.no
    /\ s.sha = Sources[o.source].sha
    /\ s.match = o.match /\ s.candidate = o.candidate /\ s.conf = o.conf
    /\ (s.mode = "full_page") = o.auto
    /\ IF s.mode = "full_page" THEN s.final = NoRect ELSE s.final = s.candidate
    /\ SnapshotRect(s.match, o.persistable)
    /\ \A r \in {s.candidate, s.final} : r = NoRect \/ SnapshotRect(r, o.persistable)
    /\ s.status \in {"blocked", "needs_review", "confirmed"}

\* There is evidence, all of its own page, and one of it lies where the segment does.
ValidEvidence(hits, s) ==
    /\ hits # {}
    /\ \A h \in hits : /\ SnapshotRect(h.at, FALSE)
                       /\ h.conf \in 0 .. 100 /\ h.role \in {"include", "exclude"}
    /\ \E h \in hits : h.at = s.match

StoreAccepts(made) ==
    /\ ValidOriginals(made)
    /\ \A i \in DOMAIN made : /\ ValidSegment(made[i].segment, made[i].original)
                              /\ ValidEvidence(made[i].evidence, made[i].segment)

Complete == \A k \in PageKeys : results[k].state = "succeeded"

\* Every page has its result: assemble, and publish what the store accepts.
\* A hit of a multi-keyword search outside every receipt stops the assembly.
Finalize ==
    /\ outcome = "open"
    /\ Complete
    /\ IF ~Legacy(criteria) /\ \E k \in PageKeys : ~Resolved(results[k])
       THEN outcome' = "unresolved" /\ items' = <<>>
       ELSE LET made == Assembled
            IN  /\ outcome' = IF StoreAccepts(made) THEN "published" ELSE "refused"
                /\ items' = made
    /\ UNCHANGED <<criteria, content, results>>

\* A page failed: the job waits for a retry and nothing is assembled.
EndPartial ==
    /\ outcome = "open"
    /\ \A k \in PageKeys : results[k] # Missing
    /\ \E k \in PageKeys : results[k] = Failed
    /\ outcome' = "partial_failed"
    /\ UNCHANGED <<criteria, content, results, items>>

Next ==
    \/ \E k \in PageKeys : ComputePage(k)
    \/ Finalize
    \/ EndPartial

Spec == Init /\ [][Next]_vars

-----------------------------------------------------------------------------
(* Properties.                                                             *)

\* The types of the state; a snapshot rests on a result of every page.
ResultsTypeOK ==
    /\ criteria \in Criterias
    /\ DOMAIN content = PageKeys /\ DOMAIN results = PageKeys
    /\ \A k \in PageKeys : results[k].state \in {"pending", "succeeded", "failed"}
    /\ outcome \in {"open", "unresolved", "published", "refused", "partial_failed"}
    /\ outcome \in {"published", "refused", "unresolved"} =>
         \A k \in PageKeys : results[k].state = "succeeded"
    /\ \A i \in DOMAIN items : items[i].segment.status \in {"blocked", "needs_review", "confirmed"}

\* A page fails only for a hit that leaves the page: whatever the layout found,
\* was cut off from or was unsure of, what compute_page makes of it validates.
LayoutNeverFailsPage ==
    \A k \in PageKeys : results[k] = Failed =>
        \E b \in DOMAIN content[k].blocks : content[k].blocks[b].at.to > Height

\* What the assembly makes of validated pages is what the store accepts, also
\* when sources have equal content; it stops short only for a hit of a
\* multi-keyword search that lies in no receipt.
AssembledIsAccepted ==
    /\ outcome # "refused"
    /\ outcome = "unresolved" =>
         \E k \in PageKeys : \E b \in DOMAIN content[k].blocks :
            /\ content[k].blocks[b].words \cap (ToSet(criteria.include) \cup ToSet(criteria.exclude)) # {}
            /\ \A i \in DOMAIN content[k].receipts :
                 ~Covers(content[k].receipts[i].rect, content[k].blocks[b].at)

\* A receipt is confirmed without a review only when its layout was read in
\* full on a source of known layout, its crop is large enough, and, where
\* several keywords decide or the page was read by recognition, every reading
\* it rests on is sure.
ConfirmedIsSure ==
    \A i \in DOMAIN items :
        LET s    == items[i].segment
            page == content[<<s.source, s.page>>]
        IN  outcome = "published" /\ s.status = "confirmed" =>
              /\ ~page.exceeded
              /\ Len(page.receipts) = 1 => page.policy # "unknown"
              /\ Size(s.candidate) >= MinCrop
              /\ page.ocr => page.title >= 90
              /\ page.ocr \/ ~Legacy(criteria) =>
                   \A h \in items[i].evidence : h.role = "include" => h.conf >= 90

\* Every receipt of the search's answer is in the snapshot once, and no other:
\* with receipts that do not overlap, the answer is what the words of the page say.
AnswerIsExact ==
    outcome = "published" /\ ~Legacy(criteria) =>
        \A k \in PageKeys : \A i \in DOMAIN content[k].receipts :
            LET page == content[k]
                Holds(word) == \E b \in DOMAIN page.blocks :
                                  /\ word \in page.blocks[b].words
                                  /\ SelectCandidate(page.receipts, page.blocks[b].at) = i
                answer == /\ IF criteria.mode = "any"
                             THEN \E w \in ToSet(criteria.include) : Holds(w)
                             ELSE \A w \in ToSet(criteria.include) : Holds(w)
                          /\ \A w \in ToSet(criteria.exclude) : ~Holds(w)
            IN  Cardinality({n \in DOMAIN items :
                    /\ items[n].segment.source = k[1] /\ items[n].segment.page = k[2]
                    /\ items[n].segment.candidate = page.receipts[i].rect})
                = IF answer THEN 1 ELSE 0

\* A crop of the whole page never takes a second receipt with it, and is never
\* taken where the evidence was cut off or the source is known for several.
WholePageIsOneReceipt ==
    \A i \in DOMAIN items :
        items[i].segment.mode = "full_page" =>
            LET page == content[<<items[i].segment.source, items[i].segment.page>>]
            IN  /\ Len(page.receipts) = 1
                /\ page.policy # "multiple" /\ ~page.exceeded

=============================================================================
