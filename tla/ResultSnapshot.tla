--------------------------- MODULE ResultSnapshot ---------------------------
(***************************************************************************)
(* Reading a published receipt snapshot (src/engine/batch_store.py         *)
(* results_page, review_snapshot; validated_read_cache.py; and the walk of *)
(* src/src/services/receiptBatchClient.ts loadAllResults).                 *)
(*                                                                         *)
(* The snapshot of a revision is a list of rows, one for each receipt the  *)
(* pages of the job gave.  A window walks it page by page while the job is *)
(* archived, its sources are moved to other paths, a calibration publishes *)
(* another revision, or the job is deleted; results_page reads the header  *)
(* and the rows in two statements without a transaction.  review_snapshot  *)
(* rebuilds the snapshot from the pages inside one, and remembers the      *)
(* answers it has checked.  Rows may also be damaged on disk.              *)
(***************************************************************************)
EXTENDS Integers, Sequences, FiniteSets, SequencesExt, FiniteSetsExt

CONSTANTS
    Sources,       \* the number of sources of the job
    Slots,         \* how many receipts each source has
    Limit,         \* how many items a window asks for at once
    MaxEntries,    \* how many checked answers are remembered
    MaxRevision, MaxMoves   \* bounds: calibrations, relocations

SnapshotAssumption ==
    /\ Sources \in Nat \ {0} /\ Slots \in Nat \ {0} /\ Limit \in Nat \ {0}
    /\ MaxEntries \in Nat /\ MaxRevision \in Nat \ {0} /\ MaxMoves \in Nat

VARIABLES
    job,       \* state, published revision, whether a deletion is pending
    access,    \* the path of each source (numbered; 0 as it was imported)
    pages,     \* the durable result of each page: the version of each receipt
    snaps,     \* the published snapshots, by revision
    damaged,   \* what happened to the rows on disk
    cache,     \* the checked answers, the most recent last
    review,    \* the last answer of review_snapshot and what was true then
    walk,      \* the window's walk
    call       \* a request for a page between its two reads

vars == <<job, access, pages, snaps, damaged, cache, review, walk, call>>

SourceSet == 1 .. Sources
Receipts  == SourceSet \X (1 .. Slots)

\* The order of a snapshot: by source, then by position.
InOrder == SetToSortSeq(Receipts, LAMBDA a, b : a[1] < b[1] \/ (a[1] = b[1] /\ a[2] < b[2]))

\* What the pages give, with the paths of the time.
Rebuilt(results, paths) ==
    [n \in DOMAIN InOrder |->
        [id |-> InOrder[n], version |-> results[InOrder[n]], path |-> paths[InOrder[n][1]]]]

Rows(list) == [n \in DOMAIN list |-> [at |-> n - 1, item |-> list[n]]]

\* A snapshot of what the pages give: the rows, their number, the paths and versions of the time.
Publication(results, paths) ==
    [rows |-> Rows(Rebuilt(results, paths)), count |-> Len(InOrder),
     paths |-> paths, digest |-> results]

NoReview == [status |-> "none", originals |-> <<>>, job |-> <<>>, paths |-> <<>>, truth |-> <<>>]
NoCall   == [open |-> FALSE]
Idle     == [phase |-> "idle", revision |-> 0, offset |-> 0, total |-> 0, got |-> <<>>]

Init ==
    /\ job = [state |-> "ready_for_review", revision |-> 1, deleting |-> FALSE]
    /\ access = [s \in SourceSet |-> 0]
    /\ pages = [r \in Receipts |-> 1]
    /\ snaps = <<Publication([r \in Receipts |-> 1], [s \in SourceSet |-> 0])>>
    /\ damaged = "no"
    /\ cache = <<>>
    /\ review = NoReview
    /\ walk = Idle
    /\ call = NoCall

-----------------------------------------------------------------------------
(* What happens to the job meanwhile.                                      *)

Archive ==
    /\ job.state = "ready_for_review" /\ ~job.deleting
    /\ job' = [job EXCEPT !.state = "archived"]
    /\ UNCHANGED <<access, pages, snaps, damaged, cache, review, walk, call>>

\* A source is found again at another path; published rows keep the old one.
Relocate(s) ==
    /\ ~job.deleting /\ access[s] < MaxMoves
    /\ access' = [access EXCEPT ![s] = @ + 1]
    /\ UNCHANGED <<job, pages, snaps, damaged, cache, review, walk, call>>

\* A calibration replaces the result of a page and publishes a new revision.
Calibrate(r) ==
    /\ job.state \in {"ready_for_review", "archived"} /\ ~job.deleting /\ damaged = "no"
    /\ Len(snaps) < MaxRevision
    /\ pages' = [pages EXCEPT ![r] = Len(snaps) + 1]
    /\ snaps' = Append(snaps, Publication(pages', access))
    /\ job' = [job EXCEPT !.revision = Len(snaps')]
    /\ UNCHANGED <<access, damaged, cache, review, walk, call>>

RequestDeletion ==
    /\ ~job.deleting
    /\ job' = [job EXCEPT !.deleting = TRUE]
    /\ UNCHANGED <<access, pages, snaps, damaged, cache, review, walk, call>>

\* The rows go with the job.
Delete ==
    /\ job.deleting /\ job.state # "deleted"
    /\ job' = [job EXCEPT !.state = "deleted"]
    /\ snaps' = [n \in DOMAIN snaps |-> [snaps[n] EXCEPT !.rows = <<>>]]
    /\ UNCHANGED <<access, pages, damaged, cache, review, walk, call>>

Foreign == [id |-> <<0, 0>>, version |-> 1, path |-> 0]

\* A row of the published snapshot is lost, takes the content of another row or
\* of another job, or its receipt is changed.
Damage(kind, n) ==
    LET rev  == job.revision
        rows == snaps[rev].rows
    IN  /\ damaged = "no" /\ job.state # "deleted" /\ n \in DOMAIN rows
        /\ damaged' = kind
        /\ snaps' = [snaps EXCEPT ![rev].rows =
             CASE kind = "lost"    -> RemoveAt(rows, n)
               [] kind = "copied"  -> [rows EXCEPT ![n].item = rows[IF n = 1 THEN Len(rows) ELSE 1].item]
               [] kind = "foreign" -> [rows EXCEPT ![n].item = Foreign]
               [] kind = "changed" -> [rows EXCEPT ![n].item.version = 0]]
        /\ UNCHANGED <<job, access, pages, cache, review, walk, call>>

-----------------------------------------------------------------------------
(* review_snapshot.                                                        *)

Available(rev) ==
    /\ job.state \in {"ready_for_review", "archived"} /\ job.revision = rev /\ ~job.deleting

\* A row's receipt is one of this job, at the path it was published with.
Bound(item, snap) == item.id \in Receipts /\ item.path = snap.paths[item.id[1]]

\* Everything the check looks at, read in one transaction.
Fingerprint == <<job, access, pages, snaps[job.revision]>>

\* Every row is what the pages give, at its place, and none is missing.
\* Fault: the rows are expected at the sources' paths of now.
AuthenticMutant(snap) ==
    LET expected == Rebuilt(pages, access)
    IN  /\ Len(snap.rows) = snap.count /\ Len(expected) = snap.count
        /\ \A n \in DOMAIN snap.rows :
              snap.rows[n].at = n - 1 /\ snap.rows[n].item = expected[n]
        /\ snap.digest = pages
Authentic(snap) ==
    LET expected == Rebuilt(pages, snap.paths)
    IN  /\ Len(snap.rows) = snap.count /\ Len(expected) = snap.count
        /\ \A n \in DOMAIN snap.rows :
              /\ snap.rows[n].at = n - 1
              /\ Bound(snap.rows[n].item, snap)
              /\ snap.rows[n].item = expected[n]
        /\ snap.digest = pages

Answer == [key |-> Fingerprint, originals |-> Rebuilt(pages, access), job |-> job, paths |-> access]

Remembered == {n \in DOMAIN cache : cache[n].key = Fingerprint}

Put(entries, entry) ==
    IF MaxEntries = 0 THEN entries
    ELSE LET all == Append(entries, entry)
         IN  SubSeq(all, Max({1, Len(all) - MaxEntries + 1}), Len(all))

Truth == [originals |-> Rebuilt(pages, access), job |-> job, paths |-> access,
          rows |-> Authentic(snaps[job.revision])]

Reviewed(a) ==
    [status |-> "ok", originals |-> a.originals, job |-> a.job, paths |-> a.paths, truth |-> Truth]

ReviewSnapshot(rev) ==
    /\ IF ~Available(rev)
       THEN review' = [NoReview EXCEPT !.status = "conflict"] /\ UNCHANGED cache
       ELSE IF Remembered # {}
       THEN LET n == CHOOSE m \in Remembered : TRUE
            IN  /\ review' = Reviewed(cache[n])
                /\ cache' = Append(RemoveAt(cache, n), cache[n])
       ELSE IF Authentic(snaps[rev])
       THEN review' = Reviewed(Answer) /\ cache' = Put(cache, Answer)
       ELSE review' = [NoReview EXCEPT !.status = "corrupt"] /\ UNCHANGED cache
    /\ UNCHANGED <<job, access, pages, snaps, damaged, walk, call>>

-----------------------------------------------------------------------------
(* The walk of a window, one request at a time.                            *)

StartWalk ==
    /\ walk.phase = "idle"
    /\ ~job.deleting
    /\ walk' = [Idle EXCEPT !.phase = "walking", !.revision = job.revision]
    /\ UNCHANGED <<job, access, pages, snaps, damaged, cache, review, call>>

Stop(phase) == walk' = [walk EXCEPT !.phase = phase] /\ call' = NoCall

\* The first reads: the job, the header and the sources.
ReadHeader ==
    /\ walk.phase = "walking" /\ ~call.open
    /\ IF ~Available(walk.revision) THEN Stop("refused")
       ELSE /\ call' = [open |-> TRUE, total |-> snaps[walk.revision].count,
                        snap |-> snaps[walk.revision], paths |-> access]
            /\ UNCHANGED walk
    /\ UNCHANGED <<job, access, pages, snaps, damaged, cache, review>>

Selection(rows) == SubSeq(rows, walk.offset + 1, Min({walk.offset + Limit, Len(rows)}))

\* Fewer rows than there should be, or a row away from its place.
Misplaced(rows) ==
    \/ walk.offset + Len(rows) < call.total /\ Len(rows) < Limit
    \/ walk.offset + Len(rows) > call.total
    \/ \E n \in DOMAIN rows : rows[n].at # walk.offset + n - 1

\* What the window makes of a page: no receipt twice, and as many as announced.
Take(list, next) ==
    LET ids == {walk.got[n].id : n \in DOMAIN walk.got}
        got == walk.got \o list
    IN  /\ walk' = [walk EXCEPT !.got = got, !.offset = next, !.total = call.total,
                       !.phase = CASE \E n \in DOMAIN list : list[n].id \in ids -> "corrupt"
                                   [] Cardinality({g.id : g \in ToSet(got)}) < Len(got) -> "corrupt"
                                   [] walk.got # <<>> /\ walk.total # call.total -> "changed"
                                   [] OTHER -> IF next < call.total THEN "walking"
                                               ELSE IF Len(got) = call.total THEN "done" ELSE "corrupt"]
        /\ call' = NoCall

\* The second read: the rows, as many as fit the answer, at the sources' paths.
ReadRows(fit) ==
    /\ call.open
    /\ LET rows == Selection(snaps[walk.revision].rows)
           kept == SubSeq(rows, 1, Min({fit, Len(rows)}))
       IN  IF Misplaced(rows) \/ \E n \in DOMAIN kept : ~Bound(kept[n].item, call.snap)
           THEN Stop("corrupt")
           ELSE Take([n \in DOMAIN kept |->
                        [kept[n].item EXCEPT !.path =
                           IF kept[n].item.id \in Receipts THEN call.paths[kept[n].item.id[1]] ELSE 0]],
                     walk.offset + Len(kept))
    /\ UNCHANGED <<job, access, pages, snaps, damaged, cache, review>>

\* The user leaves, or starts over.
EndWalk ==
    /\ walk.phase \notin {"idle", "walking"}
    /\ walk' = Idle /\ call' = NoCall
    /\ UNCHANGED <<job, access, pages, snaps, damaged, cache, review>>

Next ==
    \/ Archive
    \/ \E s \in SourceSet : Relocate(s)
    \/ \E r \in Receipts : Calibrate(r)
    \/ RequestDeletion \/ Delete
    \/ \E k \in {"lost", "copied", "foreign", "changed"}, n \in DOMAIN InOrder : Damage(k, n)
    \/ \E rev \in DOMAIN snaps : ReviewSnapshot(rev)
    \/ StartWalk \/ ReadHeader \/ EndWalk
    \/ \E fit \in 1 .. Limit : ReadRows(fit)

Spec == Init /\ [][Next]_vars

-----------------------------------------------------------------------------
(* Properties.                                                             *)

\* The types of the state; the cache holds at most what it may, each answer once.
SnapshotTypeOK ==
    /\ job.state \in {"ready_for_review", "archived", "deleted"}
    /\ job.revision \in DOMAIN snaps
    /\ Len(cache) <= MaxEntries
    /\ \A m, n \in DOMAIN cache : m # n => cache[m].key # cache[n].key
    /\ walk.phase \in {"idle", "walking", "done", "refused", "changed", "corrupt"}
    /\ call.open => walk.phase = "walking"
    /\ review.status \in {"none", "ok", "conflict", "corrupt"}

\* A walk that ends gives every receipt of one published revision once and no
\* other, whatever was archived, moved, calibrated or damaged on the way; in
\* order and as published where the rows were not damaged.
WalkIsWhole ==
    walk.phase = "done" =>
        /\ {walk.got[n].id : n \in DOMAIN walk.got} = Receipts
        /\ Len(walk.got) = Len(InOrder)
        /\ damaged = "no" =>
             \A n \in DOMAIN walk.got :
                /\ walk.got[n].id = InOrder[n]
                /\ walk.got[n].version = snaps[walk.revision].digest[walk.got[n].id]

\* What review_snapshot gives to a review is what the pages give, for the job and
\* the paths of that moment, whether it was checked now or remembered, and never
\* when a row was damaged.
ReviewIsAuthentic ==
    review.status = "ok" =>
        /\ review.originals = review.truth.originals
        /\ review.job = review.truth.job /\ review.paths = review.truth.paths
        /\ review.truth.rows

\* Archiving, moving sources and calibrating never make a snapshot look damaged,
\* to a walk or to a review; a walk may also find the rows of a deleted job gone.
CorruptIsDamaged ==
    /\ review.status = "corrupt" => damaged # "no"
    /\ walk.phase \in {"corrupt", "changed"} => damaged # "no" \/ job.state = "deleted"

=============================================================================
