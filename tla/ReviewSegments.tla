--------------------------- MODULE ReviewSegments ---------------------------
(***************************************************************************)
(* The review of the segments of one context (review_store_v2.py, the      *)
(* codec of version 2, and the recovery read of review_read.py).           *)
(*                                                                         *)
(* Windows review the same documents.  Each prepares the context with the  *)
(* result it computed, edits some items and saves them under the revisions *)
(* it saw.  A later analysis registers another manifest; the decisions     *)
(* taken under an older one stay in the table.                             *)
(***************************************************************************)
EXTENDS Naturals, FiniteSets

CONSTANTS
    Items,      \* logical keys: source, page and segment number
    Signatures, \* what an analysis found for an item
    Reviewers,  \* clients of the review database
    Manifests,  \* what analyses find: functions from items to signatures
    Loose,      \* signatures of items that cannot be persisted
    MaxResults, \* bound: result revisions
    MaxDecisions, \* bound: accepted saves
    Missing     \* no context, no row, no window

VARIABLES
    binding,  \* the row of review_contexts_v2: its result revision and manifest
    segments, \* review_segments_v2, by logical key
    view,     \* what each window holds: a result, the revisions and decisions it saw
    result,   \* the manifest each result revision stands for, once computed
    saves,    \* number of accepted saves, which also names group operations
    decided,  \* per item, the accepted save that decided it last (history)
    groups    \* per group operation, the manifest it confirmed (history)

segmentVars == <<binding, segments, view, result, saves, decided, groups>>

ResultRuns == 1..MaxResults
SegmentStatuses == {"needs_review", "confirmed", "group_confirmed"}
Decisions == [status : SegmentStatuses, framed : BOOLEAN]

\* _final_rect_is_legal: only an undecided record may lack a final rectangle
Legal(d) == d.framed \/ d.status = "needs_review"

Row == [sig : Signatures, run : ResultRuns, rev : Nat \ {0}, decision : Decisions, op : 0..MaxDecisions]
Binding == [run : ResultRuns, manifest : Manifests]
View == [run : ResultRuns, revs : [Items -> Nat], seen : [Items -> 0..MaxDecisions]]

ASSUME SegmentAssumption ==
    /\ MaxResults \in Nat /\ MaxDecisions \in Nat /\ Loose \subseteq Signatures
    /\ \A m \in Manifests : DOMAIN m \subseteq Items /\ m \in [DOMAIN m -> Signatures]
    /\ Missing \notin Manifests \cup Row \cup Binding \cup View

Revision(i) == IF segments[i] = Missing THEN 0 ELSE segments[i].rev
Persistable(m, i) == m[i] \notin Loose

SegmentTypeOK ==
    /\ binding \in {Missing} \cup Binding
    /\ segments \in [Items -> {Missing} \cup Row]
    /\ \A i \in Items : segments[i] # Missing => Legal(segments[i].decision)
    /\ result \in [ResultRuns -> {Missing} \cup Manifests]
    /\ saves \in 0..MaxDecisions
    /\ decided \in [Items -> 0..MaxDecisions]
    /\ view \in [Reviewers -> {Missing} \cup View]

SegmentInit ==
    /\ binding = Missing
    /\ segments = [i \in Items |-> Missing]
    /\ view = [w \in Reviewers |-> Missing]
    /\ result = [r \in ResultRuns |-> Missing]
    /\ saves = 0
    /\ decided = [i \in Items |-> 0]
    /\ groups = [n \in 1..MaxDecisions |-> Missing]

-----------------------------------------------------------------------------
\* a row still describes what the manifest lists
Matches(row, m, i) == row # Missing /\ i \in DOMAIN m /\ row.sig = m[i]

\* prepare: rows that match are rebound to the new result revision
Reprepared(m, r) ==
    [i \in Items |-> IF Matches(segments[i], m, i) THEN [segments[i] EXCEPT !.run = r] ELSE segments[i]]

\* a window analysed the documents and prepares the context with its result
Prepare(w, r, m) ==
    /\ result[r] \in {Missing, m}
    /\ binding # Missing /\ binding.run = r => binding.manifest = m
    /\ result' = [result EXCEPT ![r] = m]
    /\ binding' = [run |-> r, manifest |-> m]
    /\ segments' = Reprepared(m, r)
    /\ view' = [view EXCEPT ![w] =
          [run |-> r, revs |-> [i \in Items |-> Revision(i)], seen |-> decided]]
    /\ UNCHANGED <<saves, decided, groups>>

\* read_review_snapshot refuses a row it would have to repair
Stale(m, i) == Matches(segments[i], m, i) /\ segments[i].run # binding.run

\* a window reads the stored review again, changing nothing
Restore(w) ==
    /\ view[w] # Missing
    /\ binding # Missing /\ binding.run = view[w].run
    /\ \A i \in DOMAIN binding.manifest : ~Stale(binding.manifest, i)
    /\ view' = [view EXCEPT ![w].revs = [i \in Items |-> Revision(i)], ![w].seen = decided]
    /\ UNCHANGED <<binding, segments, result, saves, decided, groups>>

\* Fault: the revision of a record is compared with what is stored later
CurrentMutant(w, S) == TRUE

\* every record of the request carries the stored revision
Current(w, S) == \A i \in S : view[w].revs[i] = Revision(i)

\* a save that confirms the group covers the whole manifest, every other save
\* confirms no group
GroupComplete(S, d, group) ==
    IF group
    THEN /\ S = DOMAIN binding.manifest
         /\ S # {}
         /\ \A i \in S : d[i].status = "group_confirmed"
    ELSE \A i \in S : d[i].status # "group_confirmed"

\* the operation stored with a record: new for a group, none otherwise
Operation(i, group) == IF group THEN saves + 1 ELSE 0

SavedRun(i) == binding.run

\* save: all records of the request or none
Save(w, S, d, group) ==
    /\ saves < MaxDecisions
    /\ view[w] # Missing /\ binding # Missing
    /\ binding.run = view[w].run
    /\ S \subseteq DOMAIN binding.manifest
    /\ \A i \in S : Persistable(binding.manifest, i) /\ Legal(d[i])
    /\ Current(w, S)
    /\ GroupComplete(S, d, group)
    /\ segments' = [i \in Items |->
          IF i \in S
          THEN [sig |-> binding.manifest[i], run |-> SavedRun(i), rev |-> view[w].revs[i] + 1,
                decision |-> d[i], op |-> Operation(i, group)]
          ELSE segments[i]]
    /\ saves' = saves + 1
    /\ decided' = [i \in Items |-> IF i \in S THEN saves + 1 ELSE decided[i]]
    /\ groups' = IF group THEN [groups EXCEPT ![saves + 1] = binding.manifest] ELSE groups
    /\ view' = [view EXCEPT
          ![w].revs = [i \in Items |-> IF i \in S THEN view[w].revs[i] + 1 ELSE view[w].revs[i]],
          ![w].seen = [i \in Items |-> IF i \in S THEN saves + 1 ELSE view[w].seen[i]]]
    /\ UNCHANGED <<binding, result>>

SegmentNext ==
    \E w \in Reviewers :
        \/ \E r \in ResultRuns, m \in Manifests : Prepare(w, r, m)
        \/ Restore(w)
        \/ \E S \in SUBSET Items \ {{}}, group \in BOOLEAN :
              \E d \in [S -> Decisions] : Save(w, S, d, group)

SegmentSpec == SegmentInit /\ [][SegmentNext]_segmentVars

-----------------------------------------------------------------------------
\* the scope digest covers the items of the manifest and their signatures
Scope(m, op) == groups[op] = m

\* _group_is_confirmed, of the stored rows under the present manifest
GroupConfirmed ==
    /\ binding # Missing /\ DOMAIN binding.manifest # {}
    /\ \A i \in DOMAIN binding.manifest :
          /\ Persistable(binding.manifest, i)
          /\ Matches(segments[i], binding.manifest, i)
          /\ segments[i].decision.status = "group_confirmed"
          /\ Legal(segments[i].decision)
          /\ segments[i].op # 0
          /\ Scope(binding.manifest, segments[i].op)
    /\ Cardinality({segments[i].op : i \in DOMAIN binding.manifest}) = 1

\* What is reported as a confirmed group is one decision of one window over
\* exactly the items now listed, none of which was decided again since.
GroupIsOneDecision ==
    GroupConfirmed =>
        \E n \in 1..saves :
            /\ groups[n] = binding.manifest
            /\ \A i \in DOMAIN binding.manifest : decided[i] = n

\* The read-only recovery never reports a corruption of what prepare and save
\* wrote: a matching row is bound to the result revision of its context.
NoFalseCorruption ==
    binding # Missing => \A i \in DOMAIN binding.manifest : ~Stale(binding.manifest, i)

\* A window that saves an item replaces the decision it saw, whatever other
\* windows prepared or saved in between: no decision is lost unseen.
NoBlindOverwrite ==
    \A i \in Items : decided'[i] # decided[i] =>
          \E w \in Reviewers : view[w] # Missing /\ view[w].seen[i] = decided[i]
                             /\ view'[w].seen[i] = decided'[i]
=============================================================================
