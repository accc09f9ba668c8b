---------------------------- MODULE AtomicReviews ----------------------------
(***************************************************************************)
(* What src/engine/review_store.py promises of its table: "review segment  *)
(* store with all-or-nothing batch writes" (review_store.py:264).  A whole *)
(* batch of one task, or the deletion of a task, takes effect at once; in  *)
(* a batch the last record of a segment counts.                            *)
(***************************************************************************)
EXTENDS Naturals, Sequences

CONSTANTS Tasks, Segments, Batches, Absent

VARIABLE
    rows    \* the record of each segment of each task

Keys == Tasks \X Segments

Init == rows = [k \in Keys |-> Absent]

LastOf(batch, k) ==
    LET places == {i \in DOMAIN batch : batch[i].key = k}
    IN batch[CHOOSE i \in places : \A j \in places : j <= i]

Mentioned(batch) == {batch[i].key : i \in DOMAIN batch}

SaveAll(batch) ==
    rows' = [k \in Keys |-> IF k \in Mentioned(batch) THEN LastOf(batch, k) ELSE rows[k]]

DeleteAll(t) == rows' = [k \in Keys |-> IF k[1] = t THEN Absent ELSE rows[k]]

Next == (\E batch \in Batches : SaveAll(batch)) \/ (\E t \in Tasks : DeleteAll(t))

Spec == Init /\ [][Next]_rows
=============================================================================
