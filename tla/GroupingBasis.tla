--------------------------- MODULE GroupingBasis ---------------------------
(***************************************************************************)
(* What a grouping request rests on (src/engine/receipt_grouping_basis.py, *)
(* receipt_grouping_api.py).                                               *)
(*                                                                         *)
(* A warm engine reuses the pages and reviews it has audited.  A request   *)
(* stamps everything it may read, takes the audited inputs of that stamp   *)
(* from the cache or loads them, for a refresh reads the documents and the *)
(* rules, and commits under the locks of both databases if the stamp still *)
(* holds.  Stamping and loading read the two databases one after the other *)
(* while reviews are saved, sources moved and calibrations published, and  *)
(* a calibration itself commits in one database before the other.          *)
(***************************************************************************)
EXTENDS Integers, Sequences, SequencesExt

CONSTANTS
    Requests,      \* concurrent requests
    MaxEntries,    \* audited inputs kept
    MaxChanges,    \* bound: changes around the requests
    MaxRevision    \* bound: revisions of the grouping

BasisAssumption ==
    /\ MaxEntries \in Nat \ {0} /\ MaxChanges \in Nat /\ MaxRevision \in Nat

VARIABLES
    batch,      \* the job: published revision, paths of its sources
    reviews,    \* the review rows: the revision they are bound to, their version
    rules,      \* the active reading rules
    grouping,   \* revision, result revision and fingerprint of the stored grouping
    cache,      \* the audited inputs, the most recent last
    view,       \* the grouping the user's window shows
    request,    \* the requests
    changes     \* how much happened

vars == <<batch, reviews, rules, grouping, cache, view, request, changes>>

None == [none |-> TRUE]
Idle == [at |-> "idle", op |-> "prepare", rev |-> 0, view |-> None, since |-> 0, fresh |-> FALSE,
         stamp |-> <<>>, value |-> None, rules |-> 0]

Init ==
    /\ batch = [rev |-> 1, access |-> 0]
    /\ reviews = [rev |-> 1, version |-> 0]
    /\ rules = 0
    /\ grouping = [revision |-> 0, fp |-> None, used |-> None, truth |-> None, read |-> 0, rules |-> 0]
    /\ cache = <<>>
    /\ view = grouping
    /\ request = [r \in Requests |-> Idle]
    /\ changes = 0

-----------------------------------------------------------------------------
(* Around the requests.                                                    *)

Change == changes < MaxChanges /\ changes' = changes + 1

SaveReview ==
    /\ Change /\ reviews.rev = batch.rev
    /\ reviews' = [reviews EXCEPT !.version = @ + 1]
    /\ UNCHANGED <<batch, rules, grouping, cache, view, request>>

Relocate ==
    /\ Change
    /\ batch' = [batch EXCEPT !.access = @ + 1]
    /\ UNCHANGED <<reviews, rules, grouping, cache, view, request>>

SaveRule ==
    /\ Change
    /\ rules' = rules + 1
    /\ UNCHANGED <<batch, reviews, grouping, cache, view, request>>

\* A calibration publishes new pages, and then projects the reviews onto them.
Calibrate ==
    /\ Change /\ reviews.rev = batch.rev
    /\ batch' = [batch EXCEPT !.rev = @ + 1]
    /\ UNCHANGED <<reviews, rules, grouping, cache, view, request>>
Project ==
    /\ reviews.rev # batch.rev
    /\ reviews' = [rev |-> batch.rev, version |-> reviews.version + 1]
    /\ UNCHANGED <<batch, rules, grouping, cache, view, request, changes>>

\* The window loads the grouping again.
Reload ==
    /\ view # grouping
    /\ view' = grouping
    /\ UNCHANGED <<batch, reviews, rules, grouping, cache, request, changes>>

-----------------------------------------------------------------------------
(* The inputs of a request.                                                *)

\* The stamps are digests of the rows themselves.
ReviewStamp == reviews
BatchStamp == batch

\* The fingerprint: the original receipts, their reviews and the notices of the
\* pages, wherever the files are.
Fingerprint(value) == [pages |-> value.job.rev, review |-> value.review, notices |-> value.notices]

\* What an audit at once would give.
Audited == [job |-> batch, review |-> reviews.version, notices |-> batch.rev]

Hits(rev, stamp) == {n \in DOMAIN cache : cache[n].rev = rev /\ cache[n].stamp = stamp}

Latest(entries, n) == Append(RemoveAt(entries, n), entries[n])

\* The least recently used entry makes room.
Put(entry) ==
    LET all == Append(SelectSeq(cache, LAMBDA e : e.rev # entry.rev \/ e.stamp # entry.stamp), entry)
    IN  IF Len(all) > MaxEntries THEN Tail(all) ELSE all

-----------------------------------------------------------------------------
(* The steps of a request.                                                 *)

Others == UNCHANGED <<batch, reviews, rules, view, changes>>
Set(r, row) == request' = [request EXCEPT ![r] = row]
Refuse(r)   == Set(r, [Idle EXCEPT !.at = "refused", !.view = request[r].view,
                                   !.since = request[r].since, !.fresh = request[r].fresh])

\* Whether nothing a request rests on has changed since its window was shown.
Fresh(op) ==
    /\ reviews.rev = batch.rev /\ view.revision = grouping.revision
    /\ op # "prepare" => /\ view.truth.notices = batch.rev
                         /\ view.truth.review = reviews.version

\* A window asks about the results of the job, on top of the grouping it shows.
Begin(r, op) ==
    /\ request[r].at = "idle"
    /\ op # "prepare" => view.fp # None
    /\ Set(r, [Idle EXCEPT !.at = "begun", !.op = op, !.rev = batch.rev, !.view = view,
                           !.since = changes, !.fresh = Fresh(op)])
    /\ Others /\ UNCHANGED <<grouping, cache>>

StampBatch(r) ==
    /\ request[r].at = "begun"
    /\ Set(r, [request[r] EXCEPT !.at = "stamping", !.stamp = <<BatchStamp>>])
    /\ Others /\ UNCHANGED <<grouping, cache>>

\* With its inputs a request of an outdated view goes no further.
Based(r, row, value) ==
    IF row.op # "prepare" /\ row.view.fp # Fingerprint(value) THEN Refuse(r)
    ELSE Set(r, [row EXCEPT !.at = IF row.op = "refresh" THEN "reading" ELSE "ready", !.value = value])

StampReviews(r) ==
    LET row  == [request[r] EXCEPT !.stamp = Append(@, ReviewStamp)]
        hits == Hits(row.rev, row.stamp)
    IN  /\ request[r].at = "stamping"
        /\ IF hits = {}
           THEN Set(r, [row EXCEPT !.at = "loading"]) /\ UNCHANGED cache
           ELSE \E n \in hits : Based(r, row, cache[n].value) /\ cache' = Latest(cache, n)
        /\ Others /\ UNCHANGED grouping

\* The audit: the snapshot in one transaction, the reviews in another, then the
\* notices of the pages.
LoadSnapshot(r) ==
    /\ request[r].at = "loading" /\ request[r].value = None
    /\ IF batch.rev # request[r].rev THEN Refuse(r)
       ELSE Set(r, [request[r] EXCEPT !.value = [job |-> batch]])
    /\ Others /\ UNCHANGED <<grouping, cache>>

LoadReviews(r) ==
    /\ request[r].at = "loading" /\ DOMAIN request[r].value = {"job"}
    /\ IF reviews.rev # request[r].rev THEN Refuse(r)
       ELSE Set(r, [request[r] EXCEPT !.value = [job |-> @.job, review |-> reviews.version]])
    /\ Others /\ UNCHANGED <<grouping, cache>>

LoadNotices(r) ==
    /\ request[r].at = "loading" /\ DOMAIN request[r].value = {"job", "review"}
    /\ Set(r, [request[r] EXCEPT !.at = "restamping",
                 !.value = [job |-> @.job, review |-> @.review, notices |-> batch.rev]])
    /\ Others /\ UNCHANGED <<grouping, cache>>

\* The same stamp again, so that nothing changed while the audit read it.
RestampBatch(r) ==
    /\ request[r].at = "restamping"
    /\ IF BatchStamp # request[r].stamp[1] THEN Refuse(r)
       ELSE Set(r, [request[r] EXCEPT !.at = "restamped"])
    /\ Others /\ UNCHANGED <<grouping, cache>>

RestampReviews(r) ==
    LET q == request[r]
    IN  /\ q.at = "restamped"
        /\ IF ReviewStamp # q.stamp[2] THEN Refuse(r) /\ UNCHANGED cache
           ELSE /\ Based(r, q, q.value)
                /\ cache' = Put([rev |-> q.rev, stamp |-> q.stamp, value |-> q.value])
        /\ Others /\ UNCHANGED grouping

\* A refresh finds its receipts in the grouping, lists the rules, and reads.
Read(r) ==
    /\ request[r].at = "reading"
    /\ IF request[r].view.revision # grouping.revision \/ request[r].view.fp # grouping.fp THEN Refuse(r)
       ELSE Set(r, [request[r] EXCEPT !.at = "ready", !.rules = rules])
    /\ Others /\ UNCHANGED <<grouping, cache>>

\* Nothing a commit rests on has moved: the job, and every row of both stamps.
StillHolds(q) == q.value.job = batch /\ q.stamp = <<BatchStamp, ReviewStamp>>

\* What an operation asks of the stored grouping.
Expected(q) ==
    /\ q.view.revision = grouping.revision
    /\ q.op # "prepare" => q.view.fp = grouping.fp
    /\ q.op = "refresh" => q.rules = rules

\* Under both locks.  A save or a refresh may find that nothing changes.
Commit(r, writes) ==
    LET q == request[r]
    IN  /\ q.at = "ready"
        /\ IF ~(StillHolds(q) /\ Expected(q)) THEN Refuse(r) /\ ~writes /\ UNCHANGED grouping
           ELSE /\ writes => grouping.revision < MaxRevision
                /\ q.op = "prepare" => (writes <=> grouping.fp # Fingerprint(q.value))
                /\ Set(r, Idle)
                /\ grouping' = IF ~writes THEN grouping
                               ELSE [revision |-> grouping.revision + 1, fp |-> Fingerprint(q.value),
                                     used |-> q.value, truth |-> Audited,
                                     read |-> IF q.op = "refresh" THEN q.rules ELSE rules, rules |-> rules]
        /\ Others /\ UNCHANGED cache

Finish(r) ==
    /\ request[r].at = "refused"
    /\ Set(r, Idle)
    /\ Others /\ UNCHANGED <<grouping, cache>>

Next ==
    \/ SaveReview \/ Relocate \/ SaveRule \/ Calibrate \/ Project \/ Reload
    \/ \E r \in Requests :
        \/ \E op \in {"prepare", "save", "refresh"} : Begin(r, op)
        \/ StampBatch(r) \/ StampReviews(r)
        \/ LoadSnapshot(r) \/ LoadReviews(r) \/ LoadNotices(r)
        \/ RestampBatch(r) \/ RestampReviews(r)
        \/ Read(r) \/ Finish(r)
        \/ \E writes \in BOOLEAN : Commit(r, writes)

Spec == Init /\ [][Next]_vars

-----------------------------------------------------------------------------
(* Properties.                                                             *)

\* The types of the state; the cache keeps to its limit and each entry once.
BasisTypeOK ==
    /\ batch.rev \in Nat /\ reviews.rev \in {batch.rev, batch.rev - 1}
    /\ Len(cache) <= MaxEntries
    /\ \A m, n \in DOMAIN cache : m # n => cache[m] # cache[n]
    /\ grouping.revision \in 0 .. MaxRevision
    /\ \A r \in Requests :
          request[r].at \in {"idle", "begun", "stamping", "loading", "restamping", "restamped",
                             "reading", "ready", "refused"}

\* What is written to a grouping rests on the pages, the reviews, the notices and
\* the rules of the moment it is written, however old the window, whatever was
\* cached and whatever changed while the request ran.
WrittenIsCurrent ==
    grouping.used # None =>
        /\ grouping.used = grouping.truth
        /\ grouping.read = grouping.rules

\* What the cache would give a request now is what an audit would find now.
CachedIsAudited ==
    reviews.rev = batch.rev =>
        \A n \in Hits(batch.rev, <<BatchStamp, ReviewStamp>>) : cache[n].value = Audited

\* A request whose window was up to date is refused only when something changed
\* while it ran; moving the files before does not make a window outdated.
RefusedForAReason ==
    \A r \in Requests :
        request[r].at = "refused" /\ request[r].fresh =>
            changes > request[r].since \/ grouping.revision # request[r].view.revision

=============================================================================
