---------------------------- MODULE ReviewProofs ----------------------------
(***************************************************************************)
(* What the review databases say is true: the reviews of a task            *)
(* (TaskReviews), of segments (ReviewSegments) and of receipts             *)
(* (ReviewReceipts), proved for any clients, manifests, jobs, geometries   *)
(* and bounds.  The three are tables of their own, written by requests of  *)
(* their own, and each has its own invariant; ReviewsStayTrue puts them    *)
(* side by side.                                                           *)
(***************************************************************************)
EXTENDS TaskReviews, ReviewSegments, ReviewReceipts, FiniteSetTheorems, TLAPS

\* What the review databases say is true: equal segments carry one decision and
\* an intact database is never reported corrupt; every accepted save of a
\* receipt counts, no job shows the review of another geometry, and a binding is
\* that of the job's last result; a record of a task is unique and what a client
\* was told to be saved is.
ReviewsAreTrue ==
    /\ ReviewRowsTypeOK /\ IdsAreUnique /\ ToldIsSaved
    /\ SegmentTypeOK /\ GroupIsOneDecision /\ NoFalseCorruption
    /\ ReceiptTypeOK /\ EverySaveCounts /\ ReviewIsOwn /\ BindingIsCurrent

-----------------------------------------------------------------------------
(* The reviews of a task.                                                  *)

\* No two records of a table have one identifier.
UniqueIds(table) ==
    \A k, l \in Keys : table[k] # Absent /\ table[l] # Absent /\ table[k].id = table[l].id => k = l

\* A table of valid records, each under its own key.
Sound(table) ==
    /\ table \in [Keys -> TaskRecord \cup {Absent}]
    /\ \A k \in Keys : table[k] # Absent => table[k].key = k /\ table[k].verdict # Invalid
    /\ UniqueIds(table)

\* table has the last of the first n records of a batch for every key they
\* have, and is otherwise as before.
Applied(batch, n, before, table) ==
    \A k \in Keys :
        \/ (\A i \in 1 .. n : batch[i].key # k) /\ table[k] = before[k]
        \/ \E i \in 1 .. n : /\ batch[i].key = k /\ table[k] = batch[i]
                             /\ \A j \in 1 .. n : batch[j].key = k => j <= i

\* The inductive invariant: committed rows, accepted requests and the open
\* transaction, whose table is that of the committed rows with the records
\* written so far.
RowsInv ==
    /\ Sound(taskRows)
    /\ request \in [Clients -> Batches \cup {Absent}]
    /\ \A c \in Clients : request[c] # Absent => Acceptable(request[c])
    /\ told \in [Keys -> Verdicts \cup {Absent}]
    /\ ToldIsSaved
    /\ tx # Absent =>
         /\ tx \in Transaction
         /\ request[tx.client] # Absent
         /\ tx.next \in 1 .. Len(request[tx.client]) + 1
         /\ Sound(tx.rows)
         /\ Applied(request[tx.client], tx.next - 1, taskRows, tx.rows)

\* The records of a batch.
LEMMA BatchFacts ==
    ASSUME NEW batch \in Batches
    PROVE  /\ Len(batch) \in Nat /\ DOMAIN batch = 1 .. Len(batch)
           /\ \A i \in 1 .. Len(batch) : batch[i] \in TaskRecord
           /\ batch # Absent
  BY BatchAssumption, AbsentAssumption

\* A record is a row; one that is valid has a verdict.
LEMMA RecordFacts ==
    ASSUME NEW record \in TaskRecord
    PROVE  record.key \in Keys /\ record # Absent /\ (record.verdict # Invalid => record.verdict \in Verdicts)
  BY AbsentAssumption DEF TaskRecord

\* Writing one more record of a batch, whose identifier no other row has,
\* leaves a sound table that has the last of the records for every segment.
LEMMA UpsertStep ==
    ASSUME NEW batch \in Batches, Acceptable(batch), NEW n \in Nat, n + 1 \in 1 .. Len(batch), NEW before,
           NEW table, Sound(table), Applied(batch, n, before, table),
           ~Taken(table, batch[n + 1])
    PROVE  LET new == [table EXCEPT ![batch[n + 1].key] = batch[n + 1]] IN
           Sound(new) /\ Applied(batch, n + 1, before, new)
<1> DEFINE r == batch[n + 1]
           new == [table EXCEPT ![r.key] = r]
<1>1. r \in TaskRecord /\ r.key \in Keys /\ r.verdict # Invalid
  BY BatchFacts, RecordFacts DEF Acceptable, Valid
<1>2. /\ new \in [Keys -> TaskRecord \cup {Absent}]
      /\ new[r.key] = r /\ \A k \in Keys \ {r.key} : new[k] = table[k]
  BY <1>1 DEF Sound
<1>3. \A k \in Keys \ {r.key} : ~(table[k] # Absent /\ table[k].id = r.id)
  BY DEF Taken
<1> HIDE DEF r, new
<1>4. Sound(new)
  BY <1>1, <1>2, <1>3 DEF Sound, UniqueIds
<1>5. Applied(batch, n + 1, before, new)
  <2> SUFFICES ASSUME NEW k \in Keys
               PROVE  \/ (\A i \in 1 .. n + 1 : batch[i].key # k) /\ new[k] = before[k]
                      \/ \E i \in 1 .. n + 1 : /\ batch[i].key = k /\ new[k] = batch[i]
                                               /\ \A j \in 1 .. n + 1 : batch[j].key = k => j <= i
    BY DEF Applied
  <2>1. CASE k = r.key
    <3>1. n + 1 \in 1 .. n + 1 /\ \A j \in 1 .. n + 1 : j <= n + 1
      OBVIOUS
    <3>2. batch[n + 1].key = k /\ new[k] = batch[n + 1]
      BY <1>2, <2>1 DEF r
    <3> QED
      BY <3>1, <3>2
  <2>2. CASE k # r.key
    <3>1. new[k] = table[k] /\ batch[n + 1].key # k
      BY <1>2, <2>2 DEF r
    <3>2. \A i \in 1 .. n + 1 : i = n + 1 \/ i \in 1 .. n
      OBVIOUS
    <3>3. \A i \in 1 .. n : i \in 1 .. n + 1
      OBVIOUS
    <3>4. CASE (\A i \in 1 .. n : batch[i].key # k) /\ table[k] = before[k]
      BY <3>1, <3>2, <3>4
    <3>5. ASSUME NEW i \in 1 .. n, batch[i].key = k, table[k] = batch[i],
                 \A j \in 1 .. n : batch[j].key = k => j <= i
          PROVE  \E m \in 1 .. n + 1 : /\ batch[m].key = k /\ new[k] = batch[m]
                                       /\ \A j \in 1 .. n + 1 : batch[j].key = k => j <= m
      <4>1. \A j \in 1 .. n + 1 : batch[j].key = k => j <= i
        BY <3>1, <3>2, <3>5
      <4> QED
        BY <3>1, <3>3, <3>5, <4>1
    <3> QED
      BY <3>4, <3>5 DEF Applied
  <2> QED
    BY <2>1, <2>2
<1> QED
  BY <1>4, <1>5 DEF r, new

\* A batch that was written to its end has taken effect as a whole.
LEMMA AppliedIsSaved ==
    ASSUME NEW batch \in Batches, NEW before, NEW table, Applied(batch, Len(batch), before, table)
    PROVE  \A k \in Keys :
              table[k] = IF k \in Atomic!Mentioned(batch) THEN Atomic!LastOf(batch, k) ELSE before[k]
<1> SUFFICES ASSUME NEW k \in Keys
             PROVE  table[k] =
                      IF k \in Atomic!Mentioned(batch) THEN Atomic!LastOf(batch, k) ELSE before[k]
  OBVIOUS
<1> DEFINE places == {i \in DOMAIN batch : batch[i].key = k}
<1>1. Len(batch) \in Nat /\ DOMAIN batch = 1 .. Len(batch)
  BY BatchFacts
<1>2. CASE (\A i \in 1 .. Len(batch) : batch[i].key # k) /\ table[k] = before[k]
  BY <1>1, <1>2 DEF Atomic!Mentioned
<1>3. ASSUME NEW i \in 1 .. Len(batch), batch[i].key = k, table[k] = batch[i],
             \A j \in 1 .. Len(batch) : batch[j].key = k => j <= i
      PROVE  k \in Atomic!Mentioned(batch) /\ table[k] = Atomic!LastOf(batch, k)
  <2>1. i \in places /\ \A j \in places : j <= i
    BY <1>1, <1>3
  <2>2. places \subseteq Nat
    BY <1>1
  <2> DEFINE top == CHOOSE m \in places : \A j \in places : j <= m
  <2>3. top \in places /\ \A j \in places : j <= top
    BY <2>1
  <2> HIDE DEF places, top
  <2>4. top = i
    <3>1. top \in Nat /\ i \in Nat
      BY <2>1, <2>2, <2>3
    <3>2. top <= i /\ i <= top
      BY <2>1, <2>3
    <3> QED
      BY <3>1, <3>2
  <2>5. Atomic!LastOf(batch, k) = batch[top]
    BY DEF Atomic!LastOf, top, places
  <2>6. k \in Atomic!Mentioned(batch)
    BY <1>1, <1>3 DEF Atomic!Mentioned
  <2> QED
    BY <1>3, <2>4, <2>5, <2>6
<1> QED
  BY <1>2, <1>3 DEF Applied

\* A new database.
LEMMA RowsInit == TaskInit => RowsInv
  BY DEF TaskInit, RowsInv, Sound, UniqueIds, ToldIsSaved, Listed

\* The transaction of a client, if there is one.
LEMMA TransactionFacts ==
    ASSUME RowsInv, NEW c \in Clients, InTransaction(c)
    PROVE  /\ tx \in Transaction /\ request[c] \in Batches /\ Acceptable(request[c])
           /\ tx.next \in Nat /\ tx.next - 1 \in Nat
           /\ tx.next \in 1 .. Len(request[c]) + 1
           /\ Len(request[c]) \in Nat
           /\ Sound(tx.rows) /\ Applied(request[c], tx.next - 1, taskRows, tx.rows)
<1>1. request[c] \in Batches
  BY DEF RowsInv, InTransaction
<1> QED
  BY <1>1, BatchFacts DEF RowsInv, InTransaction

\* A request that was accepted is no row yet.
LEMMA SaveRequestStep ==
    ASSUME RowsInv, NEW c \in Clients, NEW batch \in Batches, SaveRequest(c, batch)
    PROVE  RowsInv'
<1>1. /\ UNCHANGED <<taskRows, tx, told>> /\ request[c] = Absent /\ Acceptable(batch)
      /\ request' \in [Clients -> Batches \cup {Absent}]
      /\ request'[c] = batch /\ \A d \in Clients \ {c} : request'[d] = request[d]
  BY DEF RowsInv, SaveRequest
<1>2. tx # Absent => tx.client \in Clients \ {c}
  BY <1>1 DEF RowsInv, Transaction
<1>3. \A d \in Clients : request'[d] # Absent => Acceptable(request'[d])
  BY <1>1 DEF RowsInv
<1>4. ToldIsSaved'
  BY <1>1 DEF RowsInv, ToldIsSaved, Listed
<1> QED
  BY <1>1, <1>2, <1>3, <1>4 DEF RowsInv

\* A transaction begins with the rows as committed.
LEMMA BeginStep ==
    ASSUME RowsInv, NEW c \in Clients, Begin(c)
    PROVE  RowsInv'
<1>1. /\ UNCHANGED <<taskRows, request, told>> /\ request[c] # Absent /\ request[c] \in Batches
      /\ tx' = [client |-> c, rows |-> taskRows, next |-> 1]
  BY DEF RowsInv, Begin
<1>2. tx' \in Transaction /\ tx'.client = c /\ tx'.next = 1 /\ tx'.rows = taskRows
  BY <1>1 DEF RowsInv, Sound, Transaction
<1>3. 1 \in 1 .. Len(request[c]) + 1
  BY <1>1, BatchFacts
<1>4. Applied(request[c], 0, taskRows, taskRows)
  BY DEF Applied
<1>5. ToldIsSaved'
  BY <1>1 DEF RowsInv, ToldIsSaved, Listed
<1> QED
  BY <1>1, <1>2, <1>3, <1>4, <1>5 DEF RowsInv

\* The statement of one record.
LEMMA UpsertsStep ==
    ASSUME RowsInv, NEW c \in Clients, Upsert(c)
    PROVE  RowsInv'
<1> DEFINE batch == request[c]
           n == tx.next - 1
           new == [tx.rows EXCEPT ![batch[n + 1].key] = batch[n + 1]]
<1>1. /\ tx \in Transaction /\ batch \in Batches /\ Acceptable(batch)
      /\ n \in Nat /\ tx.next = n + 1 /\ n + 1 \in 1 .. Len(batch)
      /\ Len(batch) \in Nat
      /\ Sound(tx.rows) /\ Applied(batch, n, taskRows, tx.rows)
      /\ tx.client = c /\ tx # Absent /\ batch # Absent
  BY TransactionFacts, BatchFacts DEF Upsert, InTransaction
<1>2. ~Taken(tx.rows, batch[n + 1])
  BY <1>1 DEF Upsert, Head1
<1>3. UNCHANGED <<taskRows, request, told>> /\ Head1(c) = batch[n + 1]
  BY <1>1 DEF Upsert, Head1
<1>4. tx' = [tx EXCEPT !.rows = new, !.next = tx.next + 1]
  <2>1. tx' = [tx EXCEPT !.rows[Head1(c).key] = Head1(c), !.next = @ + 1]
    BY DEF Upsert
  <2> QED
    BY <1>1, <1>3, <2>1 DEF Transaction
<1> HIDE DEF batch, n, new
<1>5. Sound(new) /\ Applied(batch, n + 1, taskRows, new)
  BY <1>1, <1>2, UpsertStep DEF new
<1>6. new \in [Keys -> TaskRecord \cup {Absent}]
  BY <1>5 DEF Sound
<1>7. tx' \in Transaction /\ tx'.client = c /\ tx'.rows = new /\ tx'.next = n + 2
  <2>1. tx.next + 1 = n + 2 /\ n + 2 \in Nat
    BY <1>1
  <2> QED
    BY <1>1, <1>4, <1>6, <2>1 DEF Transaction
<1>8. n + 2 \in 1 .. Len(batch) + 1 /\ (n + 2) - 1 = n + 1
  BY <1>1
<1>9. ToldIsSaved'
  BY <1>3 DEF RowsInv, ToldIsSaved, Listed
<1>10. tx' # Absent => /\ tx' \in Transaction /\ request'[tx'.client] # Absent
                       /\ tx'.next \in 1 .. Len(request'[tx'.client]) + 1
                       /\ Sound(tx'.rows)
                       /\ Applied(request'[tx'.client], tx'.next - 1, taskRows', tx'.rows)
  BY <1>1, <1>3, <1>5, <1>7, <1>8 DEF batch
<1> QED
  BY <1>3, <1>9, <1>10 DEF RowsInv

\* The transaction is rolled back, or the client had none.
LEMMA GivesUp ==
    ASSUME RowsInv, NEW c \in Clients, request' = [request EXCEPT ![c] = Absent],
           UNCHANGED <<taskRows, told>>,
           tx' = Absent \/ (tx' = tx /\ ~InTransaction(c))
    PROVE  RowsInv'
<1>1. /\ request' \in [Clients -> Batches \cup {Absent}]
      /\ request'[c] = Absent /\ \A d \in Clients \ {c} : request'[d] = request[d]
  BY DEF RowsInv
<1>2. \A d \in Clients : request'[d] # Absent => Acceptable(request'[d])
  BY <1>1 DEF RowsInv
<1>3. ToldIsSaved'
  BY DEF RowsInv, ToldIsSaved, Listed
<1>4. tx' # Absent => tx' = tx /\ tx.client \in Clients \ {c}
  BY DEF RowsInv, Transaction, InTransaction
<1> QED
  BY <1>1, <1>2, <1>3, <1>4 DEF RowsInv

\* The commit is the whole batch at once.
LEMMA CommitStep ==
    ASSUME RowsInv, NEW c \in Clients, Commit(c)
    PROVE  RowsInv' /\ Atomic!SaveAll(request[c]) /\ request[c] \in Batches
<1> DEFINE batch == request[c]
<1>1. /\ tx \in Transaction /\ batch \in Batches /\ Acceptable(batch)
      /\ Len(batch) \in Nat /\ tx.next - 1 = Len(batch)
      /\ Sound(tx.rows) /\ Applied(batch, Len(batch), taskRows, tx.rows)
  BY TransactionFacts DEF Commit
<1>2. /\ taskRows' = tx.rows /\ tx' = Absent
      /\ told' = [k \in Keys |-> IF \E i \in DOMAIN batch : batch[i].key = k
                                 THEN tx.rows[k].verdict ELSE told[k]]
      /\ request' \in [Clients -> Batches \cup {Absent}]
      /\ request'[c] = Absent /\ \A d \in Clients \ {c} : request'[d] = request[d]
  BY DEF Commit, RowsInv
<1> HIDE DEF batch
<1>3. /\ DOMAIN batch = 1 .. Len(batch)
      /\ \A i \in 1 .. Len(batch) : batch[i] \in TaskRecord /\ batch[i].verdict # Invalid
  BY <1>1, BatchFacts DEF Acceptable, Valid
<1>4. ASSUME NEW k \in Keys
      PROVE  /\ told'[k] = IF tx.rows[k] = Absent THEN Absent ELSE tx.rows[k].verdict
             /\ told'[k] \in Verdicts \cup {Absent}
  <2>1. CASE (\A i \in 1 .. Len(batch) : batch[i].key # k) /\ tx.rows[k] = taskRows[k]
    <3>1. told'[k] = told[k]
      BY <1>2, <1>3, <2>1
    <3> QED
      BY <2>1, <3>1 DEF RowsInv, ToldIsSaved, Listed
  <2>2. ASSUME NEW i \in 1 .. Len(batch), batch[i].key = k, tx.rows[k] = batch[i]
        PROVE  /\ told'[k] = IF tx.rows[k] = Absent THEN Absent ELSE tx.rows[k].verdict
               /\ told'[k] \in Verdicts \cup {Absent}
    <3>1. told'[k] = batch[i].verdict
      BY <1>2, <1>3, <2>2
    <3>2. batch[i] # Absent /\ batch[i].verdict \in Verdicts
      BY <1>3, RecordFacts
    <3> QED
      BY <2>2, <3>1, <3>2
  <2> QED
    BY <1>1, <2>1, <2>2 DEF Applied
<1>5. told' \in [Keys -> Verdicts \cup {Absent}]
  BY <1>2, <1>4
<1>6. ToldIsSaved'
  BY <1>2, <1>4 DEF ToldIsSaved, Listed
<1>7. \A d \in Clients : request'[d] # Absent => Acceptable(request'[d])
  BY <1>2 DEF RowsInv
<1>8. RowsInv'
  BY <1>1, <1>2, <1>5, <1>6, <1>7 DEF RowsInv
<1>9. Atomic!SaveAll(batch)
  <2>1. taskRows' \in [Keys -> TaskRecord \cup {Absent}]
    BY <1>1, <1>2 DEF Sound
  <2>2. \A k \in Keys :
            taskRows'[k] = IF k \in Atomic!Mentioned(batch) THEN Atomic!LastOf(batch, k) ELSE taskRows[k]
    BY <1>1, <1>2, AppliedIsSaved
  <2> QED
    BY <2>1, <2>2 DEF Atomic!SaveAll, Atomic!Keys, Keys
<1> QED
  BY <1>1, <1>8, <1>9 DEF batch

\* A deletion takes every row of a task.
LEMMA DeleteStep ==
    ASSUME RowsInv, NEW t \in Tasks, DeleteTask(t)
    PROVE  RowsInv' /\ Atomic!DeleteAll(t)
<1>1. /\ tx = Absent /\ tx' = Absent /\ UNCHANGED request
      /\ taskRows' = [k \in Keys |-> IF k[1] = t THEN Absent ELSE taskRows[k]]
      /\ told' = [k \in Keys |-> IF k[1] = t THEN Absent ELSE told[k]]
  BY DEF DeleteTask
<1>2. Sound(taskRows')
  BY <1>1 DEF RowsInv, Sound, UniqueIds
<1>3. ToldIsSaved' /\ told' \in [Keys -> Verdicts \cup {Absent}]
  BY <1>1 DEF RowsInv, ToldIsSaved, Listed
<1>4. Atomic!DeleteAll(t)
  BY <1>1 DEF Atomic!DeleteAll, Atomic!Keys, Keys
<1> QED
  BY <1>1, <1>2, <1>3, <1>4 DEF RowsInv

\* Nothing happens.
LEMMA StutterStep == RowsInv /\ UNCHANGED taskVars => RowsInv'
  BY DEF taskVars, RowsInv, ToldIsSaved, Listed

\* Every step keeps the invariant, and is a step of the abstract table or
\* leaves it alone.
LEMMA RowsStep == RowsInv /\ [TaskNext]_taskVars => RowsInv' /\ [Atomic!Next]_taskRows
<1> SUFFICES ASSUME RowsInv, [TaskNext]_taskVars PROVE RowsInv' /\ [Atomic!Next]_taskRows
  OBVIOUS
<1>1. ASSUME NEW c \in Clients, NEW batch \in Batches, SaveRequest(c, batch)
      PROVE  RowsInv' /\ UNCHANGED taskRows
  BY <1>1, SaveRequestStep DEF SaveRequest
<1>2. ASSUME NEW c \in Clients, Begin(c) \/ Upsert(c) \/ Rollback(c) \/ End(c)
      PROVE  RowsInv' /\ UNCHANGED taskRows
  BY <1>2, BeginStep, UpsertsStep, GivesUp DEF Begin, Upsert, Rollback, End
<1>3. ASSUME NEW c \in Clients, Commit(c)
      PROVE  RowsInv' /\ Atomic!Next
  BY <1>3, CommitStep DEF Atomic!Next
<1>4. ASSUME NEW t \in Tasks, DeleteTask(t)
      PROVE  RowsInv' /\ Atomic!Next
  BY <1>4, DeleteStep DEF Atomic!Next
<1>5. CASE UNCHANGED taskVars
  BY <1>5, StutterStep DEF taskVars
<1> QED
  BY <1>1, <1>2, <1>3, <1>4, <1>5 DEF TaskNext

\* Whatever batches any number of clients send, under any interleaving, failure
\* and end of processes: rows are valid, no two segments share an identifier
\* (review_store.py: the primary key and the upsert by segment), and what a
\* client was told to be saved is what the store lists.
THEOREM ReviewRowsHold == TaskSpec => [](ReviewRowsTypeOK /\ IdsAreUnique /\ ToldIsSaved)
<1>1. RowsInv => ReviewRowsTypeOK /\ IdsAreUnique /\ ToldIsSaved
  BY DEF RowsInv, Sound, UniqueIds, ReviewRowsTypeOK, IdsAreUnique
<1> QED
  BY <1>1, RowsInit, RowsStep, PTL DEF TaskSpec

\* The row-by-row transaction of ReviewStore.save implements the table that
\* changes by whole batches: readers never see a part of one.
THEOREM SavesImplementAtomic == TaskSpec => SavesAreAtomic
<1>1. TaskInit => Atomic!Init
  BY DEF TaskInit, Atomic!Init, Atomic!Keys, Keys
<1> QED
  BY <1>1, RowsInit, RowsStep, PTL DEF TaskSpec, SavesAreAtomic, Atomic!Spec

-----------------------------------------------------------------------------
(* The review of segments.                                                 *)

\* The saves that decided each item, and the manifests of the groups.
CountsOK ==
    /\ decided \in [Items -> 0 .. MaxDecisions] /\ \A i \in Items : decided[i] <= saves
    /\ groups \in [1 .. MaxDecisions -> Manifests \cup {Missing}]

\* The operation stored with a row is the save that decided it last.
OperationsOK ==
    \A i \in Items : segments[i] # Missing /\ segments[i].op # 0 => segments[i].op = decided[i]

\* Revisions only grow, and a window that has the stored revision has seen the
\* decision stored under it.
SeenOK ==
    \A w \in Reviewers, i \in Items : view[w] # Missing =>
        /\ view[w].revs[i] <= Revision(i)
        /\ view[w].revs[i] = Revision(i) => view[w].seen[i] = decided[i]

SegmentInv == SegmentTypeOK /\ NoFalseCorruption /\ CountsOK /\ OperationsOK /\ SeenOK

\* The parts of a context, a row and a view.
LEMMA SegmentFacts ==
    ASSUME SegmentTypeOK
    PROVE  /\ binding # Missing => /\ binding \in Binding /\ binding.manifest \in Manifests
                                   /\ binding.run \in ResultRuns
                                   /\ DOMAIN binding.manifest \subseteq Items
                                   /\ \A i \in DOMAIN binding.manifest : binding.manifest[i] \in Signatures
           /\ \A i \in Items : /\ Revision(i) \in Nat
                               /\ segments[i] # Missing => segments[i] \in Row
           /\ \A w \in Reviewers : view[w] # Missing => view[w] \in View
  BY SegmentAssumption DEF SegmentTypeOK, Binding, Row, View, Revision

LEMMA SegmentStart == SegmentInit => SegmentInv
<1> SUFFICES ASSUME SegmentInit PROVE SegmentInv
  OBVIOUS
<1>1. 0 \in 0 .. MaxDecisions
  BY SegmentAssumption
<1> QED
  BY <1>1 DEF SegmentInit, SegmentInv, SegmentTypeOK, NoFalseCorruption, CountsOK, OperationsOK, SeenOK

\* Preparing a context rebinds what its manifest still describes, and leaves
\* signatures, revisions, decisions and operations alone.
LEMMA PrepareSegments ==
    ASSUME SegmentInv, NEW w \in Reviewers, NEW r \in ResultRuns, NEW m \in Manifests, Prepare(w, r, m)
    PROVE  SegmentInv'
<1>f. /\ SegmentTypeOK /\ NoFalseCorruption /\ CountsOK /\ OperationsOK /\ SeenOK
      /\ m # Missing /\ DOMAIN m \subseteq Items /\ [run |-> r, manifest |-> m] \in Binding
  BY SegmentAssumption DEF SegmentInv, Binding
<1>p. /\ result' = [result EXCEPT ![r] = m] /\ binding' = [run |-> r, manifest |-> m]
      /\ segments' = Reprepared(m, r)
      /\ view' = [view EXCEPT ![w] = [run |-> r, revs |-> [i \in Items |-> Revision(i)], seen |-> decided]]
      /\ saves' = saves /\ decided' = decided /\ groups' = groups
  BY DEF Prepare
<1>1. ASSUME NEW i \in Items
      PROVE  /\ segments'[i] \in {Missing} \cup Row
             /\ (segments'[i] = Missing) <=> (segments[i] = Missing)
             /\ segments[i] # Missing => /\ segments'[i].sig = segments[i].sig
                                         /\ segments'[i].rev = segments[i].rev
                                         /\ segments'[i].decision = segments[i].decision
                                         /\ segments'[i].op = segments[i].op
             /\ Matches(segments[i], m, i) => segments'[i].run = r
             /\ Revision(i)' = Revision(i)
  <2>1. segments'[i] = IF Matches(segments[i], m, i) THEN [segments[i] EXCEPT !.run = r] ELSE segments[i]
    BY <1>p DEF Reprepared
  <2>2. segments[i] # Missing => segments[i] \in Row
    BY <1>f, SegmentFacts
  <2>3. CASE Matches(segments[i], m, i)
    <3>1. segments[i] \in Row /\ segments[i] # Missing /\ segments'[i] = [segments[i] EXCEPT !.run = r]
      BY <2>1, <2>2, <2>3 DEF Matches
    <3>2. segments'[i] \in Row
      BY <3>1 DEF Row
    <3>3. segments'[i] # Missing
      BY <3>2, SegmentAssumption
    <3>4. /\ segments'[i].sig = segments[i].sig /\ segments'[i].rev = segments[i].rev
          /\ segments'[i].decision = segments[i].decision /\ segments'[i].op = segments[i].op
          /\ segments'[i].run = r
      BY <3>1 DEF Row
    <3> QED
      BY <3>1, <3>2, <3>3, <3>4 DEF Revision
  <2>4. CASE ~Matches(segments[i], m, i)
    BY <2>1, <2>2, <2>4 DEF Revision
  <2> QED
    BY <2>3, <2>4
<1>2. [run |-> r, revs |-> [i \in Items |-> Revision(i)], seen |-> decided] \in View
  BY <1>f, SegmentFacts DEF View, CountsOK
<1>3. SegmentTypeOK'
  <2>1. segments' \in [Items -> {Missing} \cup Row]
    <3>1. segments' = [i \in Items |-> segments'[i]]
      BY <1>p DEF Reprepared
    <3> QED
      BY <3>1, <1>1
  <2>2. \A i \in Items : segments'[i] # Missing => Legal(segments'[i].decision)
    BY <1>1, <1>f DEF SegmentTypeOK
  <2>3. result' \in [ResultRuns -> {Missing} \cup Manifests] /\ view' \in [Reviewers -> {Missing} \cup View]
    BY <1>p, <1>f, <1>2 DEF SegmentTypeOK
  <2>4. binding' \in {Missing} \cup Binding /\ saves' \in 0 .. MaxDecisions /\ decided' \in [Items -> 0 .. MaxDecisions]
    BY <1>p, <1>f DEF SegmentTypeOK
  <2> QED
    BY <2>1, <2>2, <2>3, <2>4 DEF SegmentTypeOK
<1>4. NoFalseCorruption'
  <2>1. binding'.manifest = m /\ binding'.run = r
    BY <1>p
  <2>2. ASSUME NEW i \in DOMAIN m, segments'[i] # Missing, segments'[i].sig = m[i]
        PROVE  segments'[i].run = r
    BY <1>1, <1>f, <2>2 DEF Matches
  <2> QED
    BY <2>1, <2>2 DEF NoFalseCorruption, Stale, Matches
<1>5. CountsOK' /\ OperationsOK'
  BY <1>p, <1>1, <1>f DEF CountsOK, OperationsOK
<1>6. SeenOK'
  <2> SUFFICES ASSUME NEW v \in Reviewers, NEW i \in Items, view'[v] # Missing
               PROVE  /\ view'[v].revs[i] <= Revision(i)'
                      /\ view'[v].revs[i] = Revision(i)' => view'[v].seen[i] = decided'[i]
    BY DEF SeenOK
  <2>1. CASE v = w
    BY <2>1, <1>p, <1>1, <1>f, SegmentFacts DEF SegmentTypeOK
  <2>2. CASE v # w
    BY <2>2, <1>p, <1>1, <1>f DEF SegmentTypeOK, SeenOK
  <2> QED
    BY <2>1, <2>2
<1> QED
  BY <1>3, <1>4, <1>5, <1>6 DEF SegmentInv

\* Reading again takes over what is stored.
LEMMA RestoreSegments ==
    ASSUME SegmentInv, NEW w \in Reviewers, Restore(w)
    PROVE  SegmentInv'
<1>f. SegmentTypeOK /\ NoFalseCorruption /\ CountsOK /\ OperationsOK /\ SeenOK
  BY DEF SegmentInv
<1>p. /\ view[w] # Missing
      /\ view' = [view EXCEPT ![w].revs = [i \in Items |-> Revision(i)], ![w].seen = decided]
      /\ UNCHANGED <<binding, segments, result, saves, decided, groups>>
  BY DEF Restore
<1>1. /\ view'[w] \in View /\ view'[w].revs = [i \in Items |-> Revision(i)] /\ view'[w].seen = decided
      /\ \A v \in Reviewers \ {w} : view'[v] = view[v]
      /\ view' \in [Reviewers -> {Missing} \cup View]
  <2>1. view[w] \in View /\ [i \in Items |-> Revision(i)] \in [Items -> Nat] /\ decided \in [Items -> 0 .. MaxDecisions]
    BY <1>f, <1>p, SegmentFacts DEF CountsOK
  <2>2. [view[w] EXCEPT !.revs = [i \in Items |-> Revision(i)], !.seen = decided] \in View
    BY <2>1 DEF View
  <2>3. view' = [view EXCEPT ![w] = [view[w] EXCEPT !.revs = [i \in Items |-> Revision(i)], !.seen = decided]]
    BY <1>p, <1>f DEF SegmentTypeOK
  <2>4. /\ [view[w] EXCEPT !.revs = [i \in Items |-> Revision(i)], !.seen = decided].revs = [i \in Items |-> Revision(i)]
        /\ [view[w] EXCEPT !.revs = [i \in Items |-> Revision(i)], !.seen = decided].seen = decided
    BY <2>1 DEF View
  <2> QED
    BY <2>2, <2>3, <2>4, <1>f DEF SegmentTypeOK
<1>2. \A i \in Items : Revision(i)' = Revision(i)
  BY <1>p DEF Revision
<1>3. SegmentTypeOK' /\ NoFalseCorruption' /\ CountsOK' /\ OperationsOK'
  BY <1>p, <1>1, <1>f DEF SegmentTypeOK, NoFalseCorruption, Stale, CountsOK, OperationsOK
<1>4. SeenOK'
  <2> SUFFICES ASSUME NEW v \in Reviewers, NEW i \in Items, view'[v] # Missing
               PROVE  /\ view'[v].revs[i] <= Revision(i)'
                      /\ view'[v].revs[i] = Revision(i)' => view'[v].seen[i] = decided'[i]
    BY DEF SeenOK
  <2>1. CASE v = w
    BY <2>1, <1>p, <1>1, <1>2, <1>f, SegmentFacts
  <2>2. CASE v # w
    BY <2>2, <1>p, <1>1, <1>2, <1>f DEF SeenOK
  <2> QED
    BY <2>1, <2>2
<1> QED
  BY <1>3, <1>4 DEF SegmentInv

\* An accepted save: what is stored under the revisions the window saw.
LEMMA SaveSegments ==
    ASSUME SegmentInv, NEW w \in Reviewers, NEW S \in SUBSET Items, NEW group \in BOOLEAN,
           NEW d \in [S -> Decisions], Save(w, S, d, group)
    PROVE  SegmentInv' /\ NoBlindOverwrite
<1>f. /\ SegmentTypeOK /\ NoFalseCorruption /\ CountsOK /\ OperationsOK /\ SeenOK
      /\ MaxDecisions \in Nat
  BY SegmentAssumption DEF SegmentInv
<1> DEFINE fresh(i) == [sig |-> binding.manifest[i], run |-> binding.run, rev |-> view[w].revs[i] + 1,
                        decision |-> d[i], op |-> Operation(i, group)]
           revs == [i \in Items |-> IF i \in S THEN view[w].revs[i] + 1 ELSE view[w].revs[i]]
           seen == [i \in Items |-> IF i \in S THEN saves + 1 ELSE view[w].seen[i]]
<1>p. /\ saves < MaxDecisions /\ view[w] # Missing /\ binding # Missing
      /\ S \subseteq DOMAIN binding.manifest
      /\ \A i \in S : Legal(d[i]) /\ view[w].revs[i] = Revision(i)
      /\ segments' = [i \in Items |-> IF i \in S THEN fresh(i) ELSE segments[i]]
      /\ saves' = saves + 1
      /\ decided' = [i \in Items |-> IF i \in S THEN saves + 1 ELSE decided[i]]
      /\ groups' = IF group THEN [groups EXCEPT ![saves + 1] = binding.manifest] ELSE groups
      /\ view' = [view EXCEPT ![w].revs = revs, ![w].seen = seen]
      /\ binding' = binding /\ result' = result
  BY DEF Save, Current, SavedRun
<1>b. /\ binding \in Binding /\ binding.manifest \in Manifests /\ binding.run \in ResultRuns
      /\ \A i \in S : binding.manifest[i] \in Signatures
      /\ view[w] \in View /\ \A i \in Items : Revision(i) \in Nat
      /\ saves \in Nat /\ saves + 1 \in 0 .. MaxDecisions /\ saves + 1 \in 1 .. MaxDecisions
      /\ \A i \in Items : decided[i] \in Nat /\ decided[i] <= saves
  BY <1>f, <1>p, SegmentFacts DEF SegmentTypeOK, CountsOK
<1>1. ASSUME NEW i \in S
      PROVE  /\ fresh(i) \in Row /\ fresh(i) # Missing
             /\ segments'[i] = fresh(i) /\ Revision(i)' = Revision(i) + 1
             /\ decided'[i] = saves + 1
  <2>1. view[w].revs[i] + 1 \in Nat \ {0} /\ view[w].revs[i] = Revision(i)
    <3> HIDE DEF fresh, revs, seen
    <3>1. i \in Items /\ view[w].revs[i] = Revision(i)
      BY <1>p
    <3>2. Revision(i) \in Nat
      BY <1>b, <3>1
    <3> QED
      BY <3>1, <3>2
  <2>2. Operation(i, group) \in 0 .. MaxDecisions
    <3> HIDE DEF fresh, revs, seen
    <3>1. 0 \in 0 .. MaxDecisions
      BY <1>f
    <3> QED
      BY <1>b, <3>1 DEF Operation
  <2>3. fresh(i) \in Row
    BY <1>b, <2>1, <2>2 DEF Row
  <2>4. fresh(i) # Missing
    BY <2>3, SegmentAssumption
  <2> HIDE DEF revs, seen
  <2>5. segments'[i] = fresh(i)
    BY <1>p
  <2>6. fresh(i).rev = view[w].revs[i] + 1
    OBVIOUS
  <2>7. segments'[i] # Missing /\ segments'[i].rev = Revision(i) + 1
    BY <2>1, <2>4, <2>5, <2>6
  <2>8. Revision(i)' = Revision(i) + 1
    BY <2>7 DEF Revision
  <2> QED
    BY <2>3, <2>4, <2>5, <2>8, <1>p
<1>2. \A i \in Items \ S : segments'[i] = segments[i] /\ Revision(i)' = Revision(i) /\ decided'[i] = decided[i]
  BY <1>p DEF Revision
<1>3. /\ view'[w] \in View /\ view'[w].revs = revs /\ view'[w].seen = seen
      /\ \A v \in Reviewers \ {w} : view'[v] = view[v]
      /\ view' \in [Reviewers -> {Missing} \cup View]
  <2>1. revs \in [Items -> Nat] /\ seen \in [Items -> 0 .. MaxDecisions]
    BY <1>b DEF View
  <2> HIDE DEF revs, seen
  <2>2. [view[w] EXCEPT !.revs = revs, !.seen = seen] \in View
    BY <1>b, <2>1 DEF View
  <2>3. view' = [view EXCEPT ![w] = [view[w] EXCEPT !.revs = revs, !.seen = seen]]
    BY <1>p, <1>f DEF SegmentTypeOK
  <2>4. /\ [view[w] EXCEPT !.revs = revs, !.seen = seen].revs = revs
        /\ [view[w] EXCEPT !.revs = revs, !.seen = seen].seen = seen
    BY <1>b DEF View
  <2> QED
    BY <2>2, <2>3, <2>4, <1>f DEF SegmentTypeOK
<1>4. SegmentTypeOK'
  <2>1. segments' \in [Items -> {Missing} \cup Row]
    <3>1. \A i \in Items : segments'[i] \in {Missing} \cup Row
      BY <1>1, <1>2, <1>f DEF SegmentTypeOK
    <3>2. segments' = [i \in Items |-> segments'[i]]
      BY <1>p
    <3> QED
      BY <3>1, <3>2
  <2>2. \A i \in Items : segments'[i] # Missing => Legal(segments'[i].decision)
    <3>1. \A i \in S : fresh(i).decision = d[i]
      OBVIOUS
    <3> QED
      BY <1>1, <1>2, <1>p, <1>f, <3>1 DEF SegmentTypeOK
  <2>3. decided' \in [Items -> 0 .. MaxDecisions] /\ saves' \in 0 .. MaxDecisions
    BY <1>p, <1>b, <1>f DEF SegmentTypeOK
  <2> QED
    BY <2>1, <2>2, <2>3, <1>3, <1>p, <1>f DEF SegmentTypeOK
<1>5. NoFalseCorruption'
  <2> SUFFICES ASSUME NEW i \in DOMAIN binding.manifest, Matches(segments'[i], binding.manifest, i)
               PROVE  segments'[i].run = binding.run
    BY <1>p DEF NoFalseCorruption, Stale
  <2>1. i \in Items
    BY <1>b, <1>f, <1>p, SegmentFacts
  <2>2. CASE i \in S
    <3>1. fresh(i).run = binding.run
      OBVIOUS
    <3> QED
      BY <2>2, <3>1, <1>1
  <2>3. CASE i \notin S
    BY <2>1, <2>3, <1>2, <1>p, <1>f DEF NoFalseCorruption, Stale
  <2> QED
    BY <2>2, <2>3
<1>6. CountsOK'
  <2>1. \A i \in Items : decided'[i] <= saves'
    BY <1>1, <1>2, <1>b, <1>p
  <2>2. groups' \in [1 .. MaxDecisions -> Manifests \cup {Missing}]
    BY <1>p, <1>b, <1>f DEF CountsOK
  <2> QED
    BY <2>1, <2>2, <1>4 DEF CountsOK, SegmentTypeOK
<1>7. OperationsOK'
  <2>1. \A i \in S : fresh(i).op = Operation(i, group)
    OBVIOUS
  <2>2. \A i \in S : Operation(i, group) # 0 => Operation(i, group) = saves + 1
    BY DEF Operation
  <2> QED
    BY <2>1, <2>2, <1>1, <1>2, <1>f DEF OperationsOK
<1>8. SeenOK'
  <2> SUFFICES ASSUME NEW v \in Reviewers, NEW i \in Items, view'[v] # Missing
               PROVE  /\ view'[v].revs[i] <= Revision(i)'
                      /\ view'[v].revs[i] = Revision(i)' => view'[v].seen[i] = decided'[i]
    BY DEF SeenOK
  <2>1. CASE v = w /\ i \in S
    <3>1. view'[v].revs[i] = view[w].revs[i] + 1 /\ view'[v].seen[i] = saves + 1
      BY <2>1, <1>3
    <3> HIDE DEF fresh, revs, seen
    <3>2. view[w].revs[i] = Revision(i) /\ Revision(i) \in Nat
      BY <2>1, <1>p, <1>b
    <3>3. Revision(i)' = Revision(i) + 1 /\ decided'[i] = saves + 1
      BY <2>1, <1>1
    <3>4. view'[v].revs[i] = Revision(i)' /\ Revision(i)' \in Nat
      BY <3>1, <3>2, <3>3
    <3> QED
      BY <3>1, <3>3, <3>4
  <2>2. CASE v = w /\ i \notin S
    <3>1. view'[v].revs[i] = view[w].revs[i] /\ view'[v].seen[i] = view[w].seen[i]
      BY <2>2, <1>3
    <3> QED
      BY <2>2, <3>1, <1>2, <1>p, <1>f DEF SeenOK
  <2>3. CASE v # w
    <3> HIDE DEF fresh, revs, seen
    <3>1. view'[v] = view[v] /\ view[v] # Missing
      BY <2>3, <1>3
    <3>2. view[v] \in View
      BY <3>1, <1>f, SegmentFacts
    <3>3. view[v].revs[i] \in Nat /\ Revision(i) \in Nat
      BY <3>2, <1>b DEF View
    <3>4. view[v].revs[i] <= Revision(i)
      BY <3>1, <1>f DEF SeenOK
    <3>5. CASE i \in S
      <4>1. Revision(i)' = Revision(i) + 1
        BY <3>5, <1>1
      <4>2. view[v].revs[i] <= Revision(i)' /\ view[v].revs[i] # Revision(i)'
        BY <4>1, <3>3, <3>4
      <4> QED
        BY <4>2, <3>1
    <3>6. CASE i \notin S
      <4>1. Revision(i)' = Revision(i) /\ decided'[i] = decided[i]
        BY <3>6, <1>2
      <4> QED
        BY <4>1, <3>1, <3>4, <1>f DEF SeenOK
    <3> QED
      BY <3>5, <3>6
  <2> QED
    BY <2>1, <2>2, <2>3
<1>9. NoBlindOverwrite
  <2> SUFFICES ASSUME NEW i \in Items, decided'[i] # decided[i]
               PROVE  /\ view[w] # Missing /\ view[w].seen[i] = decided[i]
                      /\ view'[w].seen[i] = decided'[i]
    BY DEF NoBlindOverwrite
  <2>1. i \in S
    BY <1>2
  <2>2. view[w].seen[i] = decided[i]
    BY <2>1, <1>p, <1>f DEF SeenOK
  <2>3. view'[w].seen[i] = saves + 1
    BY <2>1, <1>3
  <2> QED
    BY <2>1, <2>2, <2>3, <1>1, <1>p
<1> QED
  BY <1>4, <1>5, <1>6, <1>7, <1>8, <1>9 DEF SegmentInv

LEMMA SegmentStep == SegmentInv /\ [SegmentNext]_segmentVars => SegmentInv' /\ (NoBlindOverwrite \/ UNCHANGED segmentVars)
<1> SUFFICES ASSUME SegmentInv, [SegmentNext]_segmentVars
             PROVE  SegmentInv' /\ (NoBlindOverwrite \/ UNCHANGED segmentVars)
  OBVIOUS
<1>1. ASSUME NEW w \in Reviewers, NEW r \in ResultRuns, NEW m \in Manifests, Prepare(w, r, m)
      PROVE  SegmentInv' /\ NoBlindOverwrite
  BY <1>1, PrepareSegments DEF Prepare, NoBlindOverwrite
<1>2. ASSUME NEW w \in Reviewers, Restore(w)
      PROVE  SegmentInv' /\ NoBlindOverwrite
  BY <1>2, RestoreSegments DEF Restore, NoBlindOverwrite
<1>3. ASSUME NEW w \in Reviewers, NEW S \in SUBSET Items \ {{}}, NEW group \in BOOLEAN,
             NEW d \in [S -> Decisions], Save(w, S, d, group)
      PROVE  SegmentInv' /\ NoBlindOverwrite
  BY <1>3, SaveSegments
<1>4. CASE UNCHANGED segmentVars
  <2>1. SegmentTypeOK' /\ NoFalseCorruption'
    BY <1>4 DEF segmentVars, SegmentInv, SegmentTypeOK, NoFalseCorruption, Stale
  <2>2. CountsOK' /\ OperationsOK' /\ SeenOK'
    BY <1>4 DEF segmentVars, SegmentInv, CountsOK, OperationsOK, SeenOK, Revision
  <2> QED
    BY <1>4, <2>1, <2>2 DEF SegmentInv
<1> QED
  BY <1>1, <1>2, <1>3, <1>4 DEF SegmentNext

LEMMA SegmentAlways == SegmentSpec => []SegmentInv
<1> QED
  BY SegmentStart, SegmentStep, PTL DEF SegmentSpec

\* A confirmed group is the one save its rows name.
LEMMA GroupOfInv == SegmentInv => GroupIsOneDecision
<1> SUFFICES ASSUME SegmentInv, GroupConfirmed
             PROVE  \E n \in 1 .. saves : /\ groups[n] = binding.manifest
                                          /\ \A i \in DOMAIN binding.manifest : decided[i] = n
  BY DEF GroupIsOneDecision
<1> DEFINE m == binding.manifest
           ops == {segments[i].op : i \in DOMAIN m}
<1>1. /\ binding # Missing /\ DOMAIN m # {} /\ Cardinality(ops) = 1
      /\ \A i \in DOMAIN m : segments[i] # Missing /\ segments[i].op # 0 /\ groups[segments[i].op] = m
  BY DEF GroupConfirmed, Matches, Scope
<1>2. DOMAIN m \subseteq Items /\ \A i \in DOMAIN m : segments[i] \in Row
  BY <1>1, SegmentFacts DEF SegmentInv
<1>3. \A i \in DOMAIN m : /\ segments[i].op = decided[i] /\ segments[i].op \in 0 .. MaxDecisions
                          /\ decided[i] <= saves
  BY <1>1, <1>2 DEF SegmentInv, OperationsOK, CountsOK, Row
<1>4. IsFiniteSet(ops)
  <2>1. ops \subseteq 0 .. MaxDecisions
    BY <1>3
  <2>2. 0 \in Int /\ MaxDecisions \in Int
    BY SegmentAssumption
  <2>3. IsFiniteSet(0 .. MaxDecisions)
    BY <2>2, FS_Interval
  <2> HIDE DEF ops
  <2> QED
    BY <2>1, <2>3, FS_Subset
<1>5. PICK n : ops = {n}
  BY <1>1, <1>4, FS_Singleton
<1>6. \A i \in DOMAIN m : segments[i].op = n
  BY <1>5
<1>7. PICK i \in DOMAIN m : TRUE
  BY <1>1
<1>8. n \in 1 .. saves /\ groups[n] = m
  <2>1. segments[i].op = n /\ n # 0 /\ n \in 0 .. MaxDecisions /\ n <= saves /\ groups[n] = m
    BY <1>1, <1>3, <1>6, <1>7
  <2>2. saves \in Nat /\ MaxDecisions \in Nat
    BY SegmentAssumption DEF SegmentInv, SegmentTypeOK
  <2> QED
    BY <2>1, <2>2
<1> QED
  BY <1>3, <1>6, <1>8

\* Whatever windows analyse, prepare, edit and save the segments of a context
\* (review_store_v2.py), a window that replaces a decision has seen it: no
\* decision is lost unseen.
THEOREM NoDecisionIsLost == SegmentSpec => [][NoBlindOverwrite]_segmentVars
<1>1. SegmentInv /\ [SegmentNext]_segmentVars => [NoBlindOverwrite]_segmentVars
  BY SegmentStep
<1> QED
  BY <1>1, SegmentAlways, PTL DEF SegmentSpec

-----------------------------------------------------------------------------
(* The reviews of receipts.                                                *)

\* The run of the newest result of a job that has a decision of its own.
Newest(j, m) == rows[<<j, m>>] # NONE /\ \A n \in Runs : rows[<<j, n>>] # NONE => n <= m

\* No later result of the job has a decision.
NoneLater(r) == \A n \in Runs : rows[<<r[1], n>>] # NONE => n <= r[2]

\* A record says what the last accepted save of its job said, an exclusion
\* under the same result.
Agrees(d) ==
    /\ last[d.job] # NONE /\ last[d.job].status = d.status /\ last[d.job].shape = d.shape
    /\ d.status = "excluded" => last[d.job].run = d.run

\* The saves counted and the last of each job; no job is deleted here.
HistoryOK ==
    /\ job \in [Jobs -> {NONE} \cup Job]
    /\ count \in [Jobs -> 0 .. MaxSaves]
    /\ last \in [Jobs -> {NONE} \cup Record]

\* A record is of a result its job has had and of an accepted save; one that
\* counts every save is that of the last.
RecordsOK ==
    \A scope \in Results \cup {SHARED} : rows[scope] # NONE =>
        /\ job[rows[scope].job] # NONE /\ rows[scope].run <= job[rows[scope].job].run
        /\ rows[scope].rev <= count[rows[scope].job]
        /\ rows[scope].rev = count[rows[scope].job] => Agrees(rows[scope])

\* The newest record of a job counts every save accepted for it: a scoped one,
\* else the one without scope, else there was none.
NewestOK ==
    \A j \in Jobs :
        \/ \E m \in Runs : Newest(j, m) /\ rows[<<j, m>>].rev = count[j]
        \/ /\ \A n \in Runs : rows[<<j, n>>] = NONE
           /\ Unscoped(j) # NONE => Unscoped(j).rev = count[j]
           /\ Unscoped(j) = NONE => count[j] = 0

\* The context is bound to a result none of whose successors was reviewed, and
\* what prepare binds is bound.
ContextOK == context # NONE => NoneLater(context.result) /\ ~Unrepaired

ReceiptInv == ReceiptTypeOK /\ HistoryOK /\ RecordsOK /\ NewestOK /\ ContextOK

\* The bounds are numbers.
LEMMA BoundFacts == Runs \subseteq Nat /\ 1 \in Runs /\ 0 .. MaxSaves \subseteq Nat /\ 1 .. MaxSaves \subseteq Nat
<1>1. MaxRun \in Nat \ {0} /\ MaxSaves \in Nat \ {0}
  BY ReceiptAssumption
<1> QED
  BY <1>1 DEF Runs

\* The parts of a result, its record and its job.
LEMMA ReceiptFacts ==
    ASSUME ReceiptTypeOK, HistoryOK
    PROVE  /\ \A r \in Results : /\ r[1] \in Jobs /\ r[2] \in Runs /\ r = <<r[1], r[2]>>
                                 /\ r \in Results \cup {SHARED} /\ r # SHARED
                                 /\ rows[r] # NONE => /\ rows[r] \in Record
                                                      /\ rows[r].job = r[1] /\ rows[r].run = r[2]
           /\ rows[SHARED] # NONE => rows[SHARED] \in Record
           /\ \A j \in Jobs, n \in Runs : <<j, n>> \in Results
           /\ \A j \in Jobs : /\ job[j] # NONE => job[j] \in Job /\ job[j].run \in Runs
                              /\ count[j] \in 0 .. MaxSaves
                              /\ Present(j) <=> job[j] # NONE
<1>1. ASSUME NEW r \in Results
      PROVE  /\ r[1] \in Jobs /\ r[2] \in Runs /\ r = <<r[1], r[2]>>
             /\ r \in Results \cup {SHARED} /\ r # SHARED
             /\ rows[r] # NONE => /\ rows[r] \in Record
                                  /\ rows[r].job = r[1] /\ rows[r].run = r[2]
  <2>1. r[1] \in Jobs /\ r[2] \in Runs /\ r = <<r[1], r[2]>>
    BY DEF Results
  <2>2. r # SHARED
    BY ReceiptAssumption
  <2>3. rows[r] # NONE => rows[r] \in Record /\ <<rows[r].job, rows[r].run>> = r
    BY DEF ReceiptTypeOK
  <2> QED
    BY <2>1, <2>2, <2>3
<1>2. rows[SHARED] # NONE => rows[SHARED] \in Record
  BY DEF ReceiptTypeOK
<1>3. \A j \in Jobs, n \in Runs : <<j, n>> \in Results
  BY DEF Results
<1>4. ASSUME NEW j \in Jobs
      PROVE  /\ job[j] # NONE => job[j] \in Job /\ job[j].run \in Runs
             /\ count[j] \in 0 .. MaxSaves
             /\ Present(j) <=> job[j] # NONE
  <2>1. job[j] \in {NONE} \cup Job /\ count[j] \in 0 .. MaxSaves
    BY DEF HistoryOK
  <2>2. job[j] # NONE => job[j] \in Job /\ job[j].run \in Runs
    BY <2>1 DEF Job
  <2> QED
    BY <2>1, <2>2, ReceiptAssumption DEF Present
<1> QED
  BY <1>1, <1>2, <1>3, <1>4

\* What CHOOSE finds among the records of a job is the newest.
LEMMA PriorIsNewest ==
    ASSUME ReceiptInv, NEW j \in Jobs, NEW m \in Runs, Newest(j, m), rows[<<j, m>>].rev = count[j]
    PROVE  Prior(j) = rows[<<j, m>>]
<1> DEFINE mine == {rows[r] : r \in {r \in Results : r[1] = j /\ rows[r] # NONE}}
           newest(d) == \A e \in mine : e.rev < d.rev \/ (e.rev = d.rev /\ e.run <= d.run)
<1>f. ReceiptTypeOK /\ HistoryOK /\ RecordsOK
  BY DEF ReceiptInv
<1>1. \A d \in mine : \E n \in Runs : <<j, n>> \in Results /\ d = rows[<<j, n>>] /\ rows[<<j, n>>] # NONE
  BY <1>f, ReceiptFacts
<1>2. \A d \in mine : /\ d \in Record /\ d.job = j /\ d.run \in Runs /\ d.rev \in Nat
                      /\ d = rows[<<j, d.run>>] /\ d.rev <= count[j] /\ d.run <= m
  <2> SUFFICES ASSUME NEW d \in mine
               PROVE  /\ d \in Record /\ d.job = j /\ d.run \in Runs /\ d.rev \in Nat
                      /\ d = rows[<<j, d.run>>] /\ d.rev <= count[j] /\ d.run <= m
    OBVIOUS
  <2>1. PICK n \in Runs : <<j, n>> \in Results /\ d = rows[<<j, n>>] /\ rows[<<j, n>>] # NONE
    BY <1>1
  <2>2. d \in Record /\ d.job = j /\ d.run = n
    BY <2>1, <1>f, ReceiptFacts
  <2>3. d.rev \in Nat
    BY <2>2 DEF Record
  <2>4. d.rev <= count[j]
    BY <2>1, <2>2, <1>f DEF RecordsOK
  <2>5. n <= m
    BY <2>1 DEF Newest
  <2> QED
    BY <2>1, <2>2, <2>3, <2>4, <2>5
<1>3. rows[<<j, m>>] \in mine /\ rows[<<j, m>>].run = m
  <2>1. <<j, m>> \in Results /\ rows[<<j, m>>] # NONE
    BY <1>f, ReceiptFacts DEF Newest
  <2> QED
    BY <2>1, <1>f, ReceiptFacts
<1>n. count[j] \in Nat /\ m \in Nat
  BY <1>f, BoundFacts DEF HistoryOK
<1> HIDE DEF mine
<1>4. newest(rows[<<j, m>>])
  <2> SUFFICES ASSUME NEW e \in mine
               PROVE  e.rev < count[j] \/ (e.rev = count[j] /\ e.run <= m)
    BY <1>3
  <2>1. e.rev \in Nat /\ e.run \in Nat /\ e.rev <= count[j] /\ e.run <= m
    BY <1>2, BoundFacts
  <2> QED
    BY <2>1, <1>n
<1>5. \A d \in mine : newest(d) => d = rows[<<j, m>>]
  <2> SUFFICES ASSUME NEW d \in mine, newest(d) PROVE d = rows[<<j, m>>]
    OBVIOUS
  <2>1. count[j] < d.rev \/ (count[j] = d.rev /\ m <= d.run)
    BY <1>3
  <2>2. d.run <= m /\ d.rev <= count[j] /\ d.run \in Nat /\ d.rev \in Nat
    BY <1>2, BoundFacts
  <2>3. d.run = m
    BY <2>1, <2>2, <1>n
  <2> QED
    BY <2>3, <1>2
<1>6. Prior(j) = IF mine = {} THEN NONE ELSE CHOOSE d \in mine : newest(d)
  BY DEF Prior, mine
<1> QED
  BY <1>3, <1>4, <1>5, <1>6

\* What is shown for a result none of whose successors was reviewed: nothing, if
\* nothing was saved for its job, else a record that counts every save.  It is
\* its own, or the job's newest, or the one without scope.
LEMMA CurrentIsLast ==
    ASSUME ReceiptInv, NEW r \in Results, NoneLater(r)
    PROVE  /\ RevisionFor(r) = count[r[1]]
           /\ CurrentRecord(r) # NONE =>
                \E scope \in Results \cup {SHARED} :
                   /\ rows[scope] = CurrentRecord(r) /\ rows[scope] # NONE
                   /\ rows[scope] \in Record /\ rows[scope].job = r[1]
                   /\ rows[scope].rev = count[r[1]]
                   /\ scope # SHARED => scope = <<r[1], rows[scope].run>>
                   /\ scope = SHARED => \A n \in Runs : rows[<<r[1], n>>] = NONE
<1>f. /\ ReceiptTypeOK /\ HistoryOK /\ RecordsOK /\ NewestOK
      /\ r[1] \in Jobs /\ r[2] \in Runs /\ r = <<r[1], r[2]>> /\ r # SHARED
  BY ReceiptFacts DEF ReceiptInv
<1>1. ASSUME NEW m \in Runs, Newest(r[1], m), rows[<<r[1], m>>].rev = count[r[1]]
      PROVE  CurrentRecord(r) = rows[<<r[1], m>>] /\ <<r[1], m>> \in Results
  <2>1. Prior(r[1]) = rows[<<r[1], m>>] /\ rows[<<r[1], m>>] # NONE
    BY <1>1, <1>f, PriorIsNewest DEF Newest
  <2>2. rows[r] # NONE => r[2] = m
    BY <1>1, <1>f DEF Newest, NoneLater, Runs
  <2>3. <<r[1], m>> \in Results
    BY <1>f, ReceiptFacts
  <2> QED
    BY <2>1, <2>2, <2>3, <1>f DEF CurrentRecord
<1>2. CASE \E m \in Runs : Newest(r[1], m) /\ rows[<<r[1], m>>].rev = count[r[1]]
  <2>1. PICK m \in Runs : Newest(r[1], m) /\ rows[<<r[1], m>>].rev = count[r[1]]
    BY <1>2
  <2>2. CurrentRecord(r) = rows[<<r[1], m>>] /\ <<r[1], m>> \in Results
    BY <1>1, <2>1
  <2>3. rows[<<r[1], m>>] # NONE
    BY <2>1 DEF Newest
  <2>4. rows[<<r[1], m>>] \in Record /\ rows[<<r[1], m>>].job = r[1] /\ rows[<<r[1], m>>].run = m
    BY <2>2, <2>3, <1>f, ReceiptFacts
  <2> QED
    BY <2>1, <2>2, <2>3, <2>4, <1>f, ReceiptFacts DEF RevisionFor
<1>3. CASE ~ \E m \in Runs : Newest(r[1], m) /\ rows[<<r[1], m>>].rev = count[r[1]]
  <2>1. /\ \A n \in Runs : rows[<<r[1], n>>] = NONE
        /\ Unscoped(r[1]) # NONE => Unscoped(r[1]).rev = count[r[1]]
        /\ Unscoped(r[1]) = NONE => count[r[1]] = 0
    BY <1>3, <1>f DEF NewestOK
  <2>2. Prior(r[1]) = NONE
    <3>1. \A q \in Results : ~(q[1] = r[1] /\ rows[q] # NONE)
      BY <2>1, <1>f, ReceiptFacts
    <3> QED
      BY <3>1 DEF Prior
  <2>3. CurrentRecord(r) = Unscoped(r[1])
    BY <2>1, <2>2, <1>f DEF CurrentRecord
  <2>4. Unscoped(r[1]) # NONE => /\ Unscoped(r[1]) = rows[SHARED] /\ rows[SHARED] \in Record
                                 /\ rows[SHARED].job = r[1]
    BY <1>f, ReceiptFacts DEF Unscoped
  <2> QED
    BY <2>1, <2>3, <2>4 DEF RevisionFor
<1> QED
  BY <1>2, <1>3


\* Nothing changes for a reader while the table and the context stay.
LEMMA SameRows ==
    ASSUME rows' = rows
    PROVE  /\ \A r \in Results : CurrentRecord(r)' = CurrentRecord(r) /\ RevisionFor(r)' = RevisionFor(r)
           /\ \A j \in Jobs, m \in Runs : Newest(j, m)' = Newest(j, m)
           /\ \A j \in Jobs : Unscoped(j)' = Unscoped(j)
           /\ \A r \in Results : NoneLater(r)' = NoneLater(r)
<1>1. ASSUME NEW r \in Results
      PROVE  CurrentRecord(r)' = CurrentRecord(r) /\ NoneLater(r)' = NoneLater(r)
  BY DEF CurrentRecord, Prior, Unscoped, NoneLater
<1>2. \A j \in Jobs : Unscoped(j)' = Unscoped(j)
  BY DEF Unscoped
<1>3. \A j \in Jobs, m \in Runs : Newest(j, m)' = Newest(j, m)
  BY DEF Newest
<1>4. \A r \in Results : RevisionFor(r)' = RevisionFor(r)
  BY <1>1 DEF RevisionFor
<1> QED
  BY <1>1, <1>2, <1>3, <1>4

LEMMA ReceiptStart == ReceiptInit => ReceiptInv
<1> SUFFICES ASSUME ReceiptInit PROVE ReceiptInv
  OBVIOUS
<1>1. window \in [Windows -> {NONE} \cup Window]
  BY DEF ReceiptInit
<1>2. CASE /\ job = [j \in Jobs |-> NONE] /\ context = NONE
           /\ rows = [scope \in Results \cup {SHARED} |-> NONE]
           /\ owners = {} /\ count = [j \in Jobs |-> 0] /\ last = [j \in Jobs |-> NONE]
  <2>1. ReceiptTypeOK
    BY <1>1, <1>2 DEF ReceiptTypeOK
  <2>2. HistoryOK
    <3>1. 0 \in 0 .. MaxSaves
      BY ReceiptAssumption
    <3> QED
      BY <1>2, <3>1 DEF HistoryOK
  <2>3. RecordsOK /\ ContextOK
    BY <1>2 DEF RecordsOK, ContextOK
  <2>4. NewestOK
    BY <1>2, <2>1, <2>2, ReceiptFacts DEF NewestOK, Unscoped
  <2> QED
    BY <2>1, <2>2, <2>3, <2>4 DEF ReceiptInv
<1>3. ASSUME NEW j \in Jobs, NEW c \in Shapes, NEW old,
             old = [job |-> j, run |-> 1, shape |-> c, rev |-> 1, status |-> "confirmed"],
             job = [i \in Jobs |-> IF i = j THEN [run |-> 1, shape |-> c, gate |-> FALSE] ELSE NONE],
             context = [result |-> <<j, 1>>, shape |-> c],
             rows = [scope \in Results \cup {SHARED} |-> IF scope = SHARED THEN old ELSE NONE],
             count = [i \in Jobs |-> IF i = j THEN 1 ELSE 0],
             last = [i \in Jobs |-> IF i = j THEN old ELSE NONE]
      PROVE  ReceiptInv
  <2>1. /\ 1 \in Runs /\ <<j, 1>> \in Results /\ 1 \in 1 .. MaxSaves /\ 1 \in 0 .. MaxSaves /\ 0 \in 0 .. MaxSaves
        /\ [run |-> 1, shape |-> c, gate |-> FALSE] \in Job
    BY BoundFacts, ReceiptAssumption DEF Results, Job
  <2>2. old \in Record /\ old # NONE /\ old.job = j /\ old.run = 1 /\ old.rev = 1 /\ old.status = "confirmed"
    BY <1>3, <2>1, ReceiptAssumption DEF Record
  <2>3. context \in Context /\ context # NONE
    BY <1>3, <2>1, ReceiptAssumption DEF Context
  <2>4. \A r \in Results : rows[r] = NONE
    BY <1>3, ReceiptAssumption
  <2>5. rows[SHARED] = old
    BY <1>3
  <2>6. ReceiptTypeOK
    <3>1. job \in [Jobs -> {NONE, GONE} \cup Job]
      BY <1>3, <2>1
    <3>2. rows \in [Results \cup {SHARED} -> {NONE} \cup Record]
      BY <1>3, <2>2
    <3> QED
      BY <1>1, <2>2, <2>3, <2>4, <2>5, <3>1, <3>2 DEF ReceiptTypeOK
  <2>7. HistoryOK
    BY <1>3, <2>1, <2>2 DEF HistoryOK
  <2>8. RecordsOK
    <3>1. job[j] = [run |-> 1, shape |-> c, gate |-> FALSE] /\ count[j] = 1 /\ last[j] = old
      BY <1>3
    <3>2. job[j] # NONE
      BY <3>1, <2>1, ReceiptAssumption
    <3>3. job[j].run = 1
      BY <3>1
    <3> QED
      BY <3>1, <3>2, <3>3, <2>2, <2>4, <2>5 DEF RecordsOK, Agrees
  <2>9. \A i \in Jobs : Unscoped(i) = IF i = j THEN old ELSE NONE
    BY <2>2, <2>5 DEF Unscoped
  <2>10. NewestOK
    <3>1. \A i \in Jobs, n \in Runs : rows[<<i, n>>] = NONE
      BY <2>4, <2>6, <2>7, ReceiptFacts
    <3>2. \A i \in Jobs : count[i] = IF i = j THEN 1 ELSE 0
      BY <1>3
    <3> QED
      BY <3>1, <3>2, <2>9, <2>2 DEF NewestOK
  <2>11. ContextOK
    <3>1. NoneLater(<<j, 1>>)
      BY <2>4 DEF NoneLater, Results
    <3>2. CurrentRecord(<<j, 1>>) = old
      <4>1. Prior(j) = NONE
        BY <2>4 DEF Prior
      <4> QED
        BY <4>1, <2>1, <2>4, <2>9 DEF CurrentRecord
    <3>3. ~Unrepaired
      BY <3>2, <1>3, <2>2 DEF Unrepaired
    <3> QED
      BY <3>1, <3>3, <1>3 DEF ContextOK
  <2> QED
    BY <2>6, <2>7, <2>8, <2>10, <2>11 DEF ReceiptInv
<1> QED
  BY <1>2, <1>3 DEF ReceiptInit

\* A publication gives a job its first result or its next.
LEMMA PublishReceipts ==
    ASSUME ReceiptInv, NEW j \in Jobs, NEW c \in Shapes, Publish(j, c) \/ Republish(j, c)
    PROVE  ReceiptInv'
<1>f. ReceiptTypeOK /\ HistoryOK /\ RecordsOK /\ NewestOK /\ ContextOK
  BY DEF ReceiptInv
<1>u. UNCHANGED <<context, rows, owners, window, count, last>>
  BY DEF Publish, Republish
<1>1. /\ job' \in [Jobs -> {NONE} \cup Job]
      /\ \A i \in Jobs : job[i] # NONE => job'[i] # NONE /\ job[i].run <= job'[i].run
  <2>1. CASE Publish(j, c)
    <3>1. [run |-> 1, shape |-> c, gate |-> FALSE] \in Job
      BY BoundFacts DEF Job
    <3>2. job[j] = NONE /\ job' = [job EXCEPT ![j] = [run |-> 1, shape |-> c, gate |-> FALSE]]
      BY <2>1 DEF Publish
    <3>3. \A i \in Jobs : job[i] # NONE => job[i].run \in Nat
      BY <1>f, ReceiptFacts, BoundFacts
    <3> QED
      BY <3>1, <3>2, <3>3, <1>f DEF HistoryOK
  <2>2. CASE Republish(j, c)
    <3>1. job[j] \in Job /\ job[j].run \in Runs /\ job[j].run < MaxRun
      BY <2>2, <1>f, ReceiptFacts DEF Republish, Usable
    <3>2. job' = [job EXCEPT ![j] = [job[j] EXCEPT !.run = @ + 1, !.shape = c]]
      BY <2>2, <1>f DEF Republish, HistoryOK
    <3>3. job[j].run + 1 \in Runs
      BY <3>1, ReceiptAssumption DEF Runs
    <3>4. [job[j] EXCEPT !.run = @ + 1, !.shape = c] \in Job
      BY <3>1, <3>3 DEF Job
    <3>5. [job[j] EXCEPT !.run = @ + 1, !.shape = c].run = job[j].run + 1
      BY <3>1 DEF Job
    <3>6. \A i \in Jobs : job[i] # NONE => job[i].run \in Nat
      BY <1>f, ReceiptFacts, BoundFacts
    <3>7. job'[j] # NONE /\ job[j].run <= job'[j].run
      BY <3>1, <3>2, <3>4, <3>5, <3>6, <1>f, ReceiptAssumption DEF HistoryOK
    <3> QED
      BY <3>2, <3>4, <3>6, <3>7, <1>f DEF HistoryOK
  <2> QED
    BY <2>1, <2>2
<1>2. ReceiptTypeOK' /\ HistoryOK'
  BY <1>1, <1>u, <1>f DEF ReceiptTypeOK, HistoryOK
<1>3. RecordsOK'
  <2> SUFFICES ASSUME NEW scope \in Results \cup {SHARED}, rows[scope] # NONE
               PROVE  /\ job'[rows[scope].job] # NONE
                      /\ rows[scope].run <= job'[rows[scope].job].run
                      /\ rows[scope].rev <= count[rows[scope].job]
                      /\ rows[scope].rev = count[rows[scope].job] => Agrees(rows[scope])
    BY <1>u DEF RecordsOK, Agrees
  <2>1. /\ job[rows[scope].job] # NONE /\ rows[scope].run <= job[rows[scope].job].run
        /\ rows[scope].rev <= count[rows[scope].job]
        /\ rows[scope].rev = count[rows[scope].job] => Agrees(rows[scope])
    BY <1>f DEF RecordsOK
  <2>2. rows[scope].job \in Jobs /\ rows[scope].run \in Nat
    BY <1>f, BoundFacts DEF ReceiptTypeOK, Record
  <2>3. job[rows[scope].job].run \in Nat /\ job'[rows[scope].job].run \in Nat
    BY <2>1, <2>2, <1>1, <1>f, <1>2, BoundFacts DEF HistoryOK, Job
  <2> QED
    BY <2>1, <2>2, <2>3, <1>1
<1>4. NewestOK' /\ ContextOK'
  <2>1. NewestOK'
    BY <1>u, <1>f, SameRows DEF NewestOK
  <2>2. context # NONE => context.result \in Results
    BY <1>f DEF ReceiptTypeOK, Context
  <2>3. ContextOK'
    BY <1>u, <1>f, <2>2, SameRows DEF ContextOK, Unrepaired, Carries
  <2> QED
    BY <2>1, <2>3
<1> QED
  BY <1>2, <1>3, <1>4 DEF ReceiptInv

\* A record of a job's present result is stored, under the result or in place of
\* the one without scope: it is the newest, and it is what the context shows.
LEMMA StoreRecord ==
    ASSUME ReceiptInv, NEW j \in Jobs, NEW r \in Results, NEW scope \in {r, SHARED}, NEW new \in Record,
           r[1] = j, NoneLater(r), job[j] # NONE, r[2] <= job[j].run,
           new.job = j, new.run = r[2], rows' = [rows EXCEPT ![scope] = new], job' = job,
           scope = SHARED => /\ new.status # "excluded" /\ Unscoped(j) # NONE
                             /\ \A n \in Runs : rows[<<j, n>>] = NONE,
           HistoryOK', \A i \in Jobs : i # j => count'[i] = count[i] /\ last'[i] = last[i],
           count'[j] >= count[j], count'[j] = count[j] => last'[j] = last[j],
           new.rev = count'[j], Agrees(new)',
           context' \in Context, context'.result = r, window' \in [Windows -> {NONE} \cup Window]
    PROVE  ReceiptInv'
<1>f. /\ ReceiptTypeOK /\ HistoryOK /\ RecordsOK /\ NewestOK
      /\ r[2] \in Runs /\ r = <<j, r[2]>> /\ r # SHARED /\ new # NONE /\ context' # NONE
  BY ReceiptFacts, ReceiptAssumption DEF ReceiptInv
<1>1. ASSUME NEW i \in Jobs, NEW n \in Runs
      PROVE  rows'[<<i, n>>] = IF <<i, n>> = scope THEN new ELSE rows[<<i, n>>]
  BY <1>f, ReceiptFacts DEF ReceiptTypeOK
<1>2. /\ rows'[scope] = new
      /\ \A s \in Results \cup {SHARED} : s # scope => rows'[s] = rows[s]
  BY <1>f DEF ReceiptTypeOK
<1>3. ReceiptTypeOK'
  <2>1. rows' \in [Results \cup {SHARED} -> {NONE} \cup Record]
    BY <1>f DEF ReceiptTypeOK
  <2>2. \A s \in Results : rows'[s] # NONE => <<rows'[s].job, rows'[s].run>> = s
    <3> SUFFICES ASSUME NEW s \in Results, rows'[s] # NONE PROVE <<rows'[s].job, rows'[s].run>> = s
      OBVIOUS
    <3>1. CASE s = scope
      <4>1. s = r /\ rows'[s] = new
        BY <3>1, <1>2, ReceiptAssumption
      <4> QED
        BY <4>1, <1>f
    <3>2. CASE s # scope
      BY <3>2, <1>2, <1>f DEF ReceiptTypeOK
    <3> QED
      BY <3>1, <3>2
  <2>3. rows'[SHARED] # NONE => rows'[SHARED].status # "excluded"
    BY <1>f, <1>2 DEF ReceiptTypeOK
  <2> QED
    BY <2>1, <2>2, <2>3, <1>f DEF ReceiptTypeOK
<1>4. RecordsOK'
  <2> SUFFICES ASSUME NEW s \in Results \cup {SHARED}, rows'[s] # NONE
               PROVE  /\ job[rows'[s].job] # NONE
                      /\ rows'[s].run <= job[rows'[s].job].run
                      /\ rows'[s].rev <= count'[rows'[s].job]
                      /\ rows'[s].rev = count'[rows'[s].job] => Agrees(rows[s])'
    BY DEF RecordsOK
  <2>c. count'[j] \in Nat /\ count[j] \in Nat
    BY BoundFacts, <1>f DEF HistoryOK
  <2>1. CASE s = scope
    BY <2>1, <2>c, <1>2
  <2>2. CASE s # scope
    <3>1. /\ rows'[s] = rows[s] /\ rows[s] \in Record
          /\ job[rows[s].job] # NONE /\ rows[s].run <= job[rows[s].job].run
          /\ rows[s].rev <= count[rows[s].job]
          /\ rows[s].rev = count[rows[s].job] => Agrees(rows[s])
      BY <2>2, <1>2, <1>f DEF RecordsOK, ReceiptTypeOK
    <3>2. rows[s].job \in Jobs /\ rows[s].rev \in Nat
      BY <3>1, BoundFacts DEF Record
    <3>3. rows[s].rev <= count'[rows[s].job]
      BY <3>1, <3>2, <2>c
    <3>4. rows[s].rev = count'[rows[s].job] =>
            count'[rows[s].job] = count[rows[s].job] /\ last'[rows[s].job] = last[rows[s].job]
      BY <3>1, <3>2, <2>c
    <3> QED
      BY <3>1, <3>3, <3>4 DEF Agrees
  <2> QED
    BY <2>1, <2>2
<1>5. \A i \in Jobs : Unscoped(i)' = IF scope = SHARED /\ i = j THEN new ELSE Unscoped(i)
  <2>1. CASE scope = SHARED
    <3>1. rows[SHARED] # NONE /\ rows[SHARED].job = j
      BY <2>1 DEF Unscoped
    <3> QED
      BY <2>1, <3>1, <1>2, <1>f DEF Unscoped
  <2>2. CASE scope # SHARED
    BY <2>2, <1>2 DEF Unscoped
  <2> QED
    BY <2>1, <2>2
<1>6. scope = r => Newest(j, r[2])' /\ NoneLater(r)'
  <2>1. \A n \in Runs : rows[<<j, n>>] # NONE => n <= r[2]
    BY DEF NoneLater
  <2>2. r[2] <= r[2]
    BY <1>f, BoundFacts
  <2>3. scope = r => \A n \in Runs : rows'[<<j, n>>] # NONE => n <= r[2]
    BY <2>1, <2>2, <1>1, <1>f
  <2> QED
    BY <2>3, <1>2, <1>f DEF Newest, NoneLater
<1>7. scope = SHARED => /\ \A n \in Runs : rows'[<<j, n>>] = NONE
                        /\ NoneLater(r)' /\ Unscoped(j)' = new
  BY <1>1, <1>5, <1>f, ReceiptFacts DEF NoneLater
<1>8. NewestOK'
  <2> SUFFICES ASSUME NEW i \in Jobs
               PROVE  \/ \E m \in Runs : Newest(i, m)' /\ rows'[<<i, m>>].rev = count'[i]
                      \/ /\ \A n \in Runs : rows'[<<i, n>>] = NONE
                         /\ Unscoped(i)' # NONE => Unscoped(i)'.rev = count'[i]
                         /\ Unscoped(i)' = NONE => count'[i] = 0
    BY DEF NewestOK
  <2>1. CASE i = j /\ scope = r
    BY <2>1, <1>6, <1>2, <1>f
  <2>2. CASE i = j /\ scope = SHARED
    BY <2>2, <1>7, <1>f
  <2>3. CASE i # j
    <3>1. \A n \in Runs : rows'[<<i, n>>] = rows[<<i, n>>]
      BY <2>3, <1>1, <1>f, ReceiptFacts
    <3>2. \A m \in Runs : Newest(i, m)' <=> Newest(i, m)
      BY <3>1 DEF Newest
    <3>3. Unscoped(i)' = Unscoped(i) /\ count'[i] = count[i]
      BY <2>3, <1>5
    <3> QED
      BY <3>1, <3>2, <3>3, <1>f DEF NewestOK
  <2> QED
    BY <2>1, <2>2, <2>3
<1>9. CurrentRecord(r)' = new
  <2>1. CASE scope = r
    BY <2>1, <1>2, <1>f DEF CurrentRecord
  <2>2. CASE scope = SHARED
    <3>1. \A q \in Results : ~(q[1] = j /\ rows'[q] # NONE)
      BY <2>2, <1>7, <1>f, ReceiptFacts
    <3>2. Prior(j)' = NONE
      BY <3>1 DEF Prior
    <3> QED
      BY <2>2, <3>1, <3>2, <1>7 DEF CurrentRecord
  <2> QED
    BY <2>1, <2>2
<1>10. ContextOK'
  <2>1. NoneLater(context.result)'
    BY <1>6, <1>7 DEF NoneLater
  <2>2. ~Unrepaired'
    BY <1>9 DEF Unrepaired, CurrentRecord
  <2> QED
    BY <2>1, <2>2 DEF ContextOK
<1> QED
  BY <1>3, <1>4, <1>8, <1>10 DEF ReceiptInv

\* A result of a job that is there has no successor.
LEMMA PresentResult ==
    ASSUME ReceiptInv, NEW j \in Jobs, job[j] # NONE
    PROVE  /\ Result(j) \in Results /\ Result(j)[1] = j /\ Result(j)[2] = job[j].run
           /\ NoneLater(Result(j))
<1>f. ReceiptTypeOK /\ HistoryOK /\ RecordsOK
  BY DEF ReceiptInv
<1>1. /\ Result(j) \in Results /\ Result(j)[1] = j /\ Result(j)[2] = job[j].run
  BY <1>f, ReceiptFacts DEF Result
<1>2. \A n \in Runs : rows[<<j, n>>] # NONE => n <= job[j].run
  <2> SUFFICES ASSUME NEW n \in Runs, rows[<<j, n>>] # NONE PROVE n <= job[j].run
    OBVIOUS
  <2>1. <<j, n>> \in Results
    BY <1>f, ReceiptFacts
  <2>2. rows[<<j, n>>].job = j /\ rows[<<j, n>>].run = n
    BY <2>1, <1>f, ReceiptFacts
  <2> QED
    BY <2>1, <2>2, <1>f DEF RecordsOK
<1> QED
  BY <1>1, <1>2 DEF NoneLater

\* Preparing the review of a job binds the context to its present result and
\* takes what its last decision says with it, where the geometry is the same.
LEMMA PrepareReceipts ==
    ASSUME ReceiptInv, NEW w \in Windows, NEW j \in Jobs, PrepareReview(w, j)
    PROVE  ReceiptInv'
<1>f. ReceiptTypeOK /\ HistoryOK /\ RecordsOK /\ NewestOK
  BY DEF ReceiptInv
<1>1. job[j] # NONE /\ job[j] \in Job /\ count[j] \in 0 .. MaxSaves
  BY <1>f, ReceiptFacts DEF PrepareReview, Usable
<1>r. PICK r \in Results : r = Result(j)
  BY <1>1, PresentResult
<1>d. PICK d : d = CurrentRecord(r)
  OBVIOUS
<1>p. /\ context' = [result |-> r, shape |-> job[j].shape]
      /\ rows' = IF Carries(d, r, job[j].shape)
                 THEN [rows EXCEPT ![CarriedScope(d, r)] = Rebound(d, r)]
                 ELSE rows
      /\ window' = [window EXCEPT ![w] = [result |-> r, rev |-> RevisionFor(r)]]
      /\ job' = job /\ count' = count /\ last' = last
  BY <1>r, <1>d DEF PrepareReview
<1>2. r[1] = j /\ r[2] = job[j].run /\ NoneLater(r) /\ r[2] \in Runs
  <2>1. Result(j)[1] = j /\ Result(j)[2] = job[j].run /\ NoneLater(Result(j))
    BY <1>1, PresentResult
  <2> QED
    BY <2>1, <1>r, <1>f, ReceiptFacts
<1>3. /\ RevisionFor(r) = count[j]
      /\ d # NONE =>
           \E scope \in Results \cup {SHARED} :
              /\ rows[scope] = d /\ d \in Record /\ d.job = j /\ d.rev = count[j]
              /\ scope # SHARED => scope = <<j, d.run>>
              /\ scope = SHARED => \A n \in Runs : rows[<<j, n>>] = NONE
  BY <1>2, <1>d, CurrentIsLast
<1>4. context' \in Context /\ context'.result = r /\ window' \in [Windows -> {NONE} \cup Window]
  <2>1. job[j].shape \in Shapes
    BY <1>1 DEF Job
  <2>2. [result |-> r, rev |-> RevisionFor(r)] \in Window
    BY <1>1, <1>2, <1>3 DEF Window
  <2> QED
    BY <2>1, <2>2, <1>p, <1>2, <1>f DEF Context, ReceiptTypeOK
<1>5. CASE Carries(d, r, job[j].shape)
  <2>1. d # NONE /\ (d.status = "excluded" => d.run = r[2])
    BY <1>5 DEF Carries
  <2>2. PICK scope \in Results \cup {SHARED} :
              /\ rows[scope] = d /\ d \in Record /\ d.job = j /\ d.rev = count[j]
              /\ scope # SHARED => scope = <<j, d.run>>
              /\ scope = SHARED => \A n \in Runs : rows[<<j, n>>] = NONE
    BY <2>1, <1>3
  <2>3. PICK new \in Record :
              /\ new = Rebound(d, r) /\ new.job = j /\ new.run = r[2]
              /\ new.rev = count[j] /\ new.status = d.status /\ new.shape = d.shape
    <3>1. /\ Rebound(d, r) \in Record /\ Rebound(d, r).job = j /\ Rebound(d, r).run = r[2]
          /\ Rebound(d, r).rev = count[j] /\ Rebound(d, r).status = d.status
          /\ Rebound(d, r).shape = d.shape
      BY <2>2, <1>2 DEF Rebound, Record
    <3> QED
      BY <3>1
  <2>4. PICK target \in {r, SHARED} :
              /\ target = CarriedScope(d, r)
              /\ target = SHARED => /\ new.status # "excluded" /\ Unscoped(j) # NONE
                                    /\ \A n \in Runs : rows[<<j, n>>] = NONE
    <3>1. CASE scope = SHARED
      <4>1. rows[<<d.job, d.run>>] = NONE
        BY <2>2, <3>1 DEF Record
      <4>2. new.status # "excluded" /\ Unscoped(j) # NONE
        BY <2>1, <2>2, <2>3, <3>1, <1>f DEF ReceiptTypeOK, Unscoped
      <4>3. CarriedScope(d, r) = SHARED
        BY <4>1 DEF CarriedScope
      <4> QED
        BY <2>2, <3>1, <4>2, <4>3
    <3>2. CASE scope # SHARED
      <4>1. CarriedScope(d, r) = r /\ r # SHARED
        BY <2>1, <2>2, <3>2, ReceiptAssumption DEF CarriedScope
      <4> QED
        BY <4>1
    <3> QED
      BY <3>1, <3>2
  <2>5. Agrees(new)'
    <3>1. Agrees(d)
      BY <2>1, <2>2, <1>f DEF RecordsOK
    <3> QED
      BY <3>1, <2>1, <2>2, <2>3, <1>p DEF Agrees
  <2>6. HistoryOK' /\ count'[j] >= count[j] /\ count'[j] = count[j]
    BY <1>p, <1>1, <1>f, BoundFacts DEF HistoryOK
  <2>7. rows' = [rows EXCEPT ![target] = new]
    BY <1>5, <1>p, <2>3, <2>4
  <2>8. r[2] <= job[j].run
    <3>1. r[2] \in Nat
      BY <1>2, BoundFacts
    <3> QED
      BY <3>1, <1>2
  <2> QED
    BY <2>3, <2>4, <2>5, <2>6, <2>7, <2>8, <1>1, <1>2, <1>4, <1>p, StoreRecord
<1>6. CASE ~Carries(d, r, job[j].shape)
  <2>u. rows' = rows /\ count' = count /\ last' = last /\ job' = job /\ context' # NONE
    BY <1>6, <1>p, <1>4, ReceiptAssumption
  <2>1. ReceiptTypeOK' /\ HistoryOK'
    BY <2>u, <1>4, <1>f DEF ReceiptTypeOK, HistoryOK
  <2>2. RecordsOK' /\ NewestOK'
    BY <2>u, <1>f, SameRows DEF RecordsOK, Agrees, NewestOK
  <2>3. ContextOK'
    <3>1. NoneLater(r)' /\ CurrentRecord(r)' = d
      BY <2>u, <1>2, <1>d, SameRows
    <3>2. NoneLater(context.result)'
      BY <3>1, <1>4 DEF NoneLater
    <3>3. CurrentRecord(context.result)' = d
      BY <3>1, <1>4 DEF CurrentRecord
    <3>4. ~Unrepaired'
      BY <3>3, <1>4, <1>6, <1>p DEF Unrepaired, Carries
    <3> QED
      BY <3>2, <3>4 DEF ContextOK
  <2> QED
    BY <2>1, <2>2, <2>3 DEF ReceiptInv
<1> QED
  BY <1>5, <1>6

\* The result a context is bound to is that of a job that is there.
LEMMA BoundResult ==
    ASSUME ReceiptInv, NEW r \in Results, Bound(r)
    PROVE  /\ job[r[1]] # NONE /\ r[2] = job[r[1]].run /\ r[2] <= job[r[1]].run
           /\ NoneLater(r) /\ RevisionFor(r) = count[r[1]]
           /\ context = [result |-> r, shape |-> job[r[1]].shape] /\ context \in Context
<1>1. r[1] \in Jobs /\ job[r[1]] # NONE /\ Result(r[1]) = r
  BY ReceiptFacts DEF Bound, Usable, ReceiptInv
<1>2. r[2] = job[r[1]].run /\ NoneLater(r)
  BY <1>1, PresentResult
<1>3. r[2] \in Nat
  BY BoundFacts, ReceiptFacts DEF ReceiptInv
<1>4. context = [result |-> r, shape |-> job[r[1]].shape] /\ context \in Context
  <2>1. context = [result |-> r, shape |-> job[r[1]].shape]
    BY DEF Bound
  <2>2. job[r[1]].shape \in Shapes
    BY <1>1, ReceiptFacts DEF ReceiptInv, Job
  <2> QED
    BY <2>1, <2>2 DEF Context
<1> QED
  BY <1>1, <1>2, <1>3, <1>4, CurrentIsLast

\* A window reads the review of a job: only what it holds changes.
LEMMA ReadReceipts ==
    ASSUME ReceiptInv, NEW w \in Windows, NEW j \in Jobs, ReadPage(w, j)
    PROVE  ReceiptInv'
<1>f. ReceiptTypeOK /\ HistoryOK /\ RecordsOK /\ NewestOK /\ ContextOK
  BY DEF ReceiptInv
<1>u. UNCHANGED <<job, context, rows, owners, count, last>>
  BY DEF ReadPage
<1>1. job[j] # NONE /\ count[j] \in 0 .. MaxSaves
  BY <1>f, ReceiptFacts DEF ReadPage
<1>2. Result(j) \in Results /\ RevisionFor(Result(j)) = count[j]
  BY <1>1, PresentResult, CurrentIsLast
<1>3. window' \in [Windows -> {NONE} \cup Window]
  <2>1. [result |-> Result(j), rev |-> RevisionFor(Result(j))] \in Window
    BY <1>1, <1>2 DEF Window
  <2> QED
    BY <2>1, <1>f DEF ReadPage, ReceiptTypeOK
<1>4. ReceiptTypeOK' /\ HistoryOK'
  BY <1>u, <1>3, <1>f DEF ReceiptTypeOK, HistoryOK
<1>5. RecordsOK' /\ NewestOK'
  BY <1>u, <1>f, SameRows DEF RecordsOK, Agrees, NewestOK
<1>6. ContextOK'
  <2>1. context # NONE => context.result \in Results
    BY <1>f DEF ReceiptTypeOK, Context
  <2> QED
    BY <1>u, <1>f, <2>1, SameRows DEF ContextOK, Unrepaired, Carries
<1> QED
  BY <1>4, <1>5, <1>6 DEF ReceiptInv

\* A save is accepted from a window that has seen every save of the job; it is
\* stored under its own result and counts one more.
LEMMA SaveReceipts ==
    ASSUME ReceiptInv, NEW w \in Windows, NEW status \in Statuses, SaveReview(w, status)
    PROVE  ReceiptInv' /\ SaverSawAll
<1>f. ReceiptTypeOK /\ HistoryOK /\ RecordsOK /\ NewestOK
  BY DEF ReceiptInv
<1>w. window[w] # NONE /\ window[w] \in Window /\ window[w].result \in Results
  BY <1>f DEF SaveReview, ReceiptTypeOK, Window
<1>r. PICK r \in Results : r = window[w].result
  BY <1>w
<1>j. PICK j \in Jobs : j = r[1]
  BY <1>f, ReceiptFacts
<1>b. /\ Bound(r) /\ count[j] < MaxSaves /\ UpToDate(w)
      /\ job' = job /\ context' = context /\ owners' = owners
  BY <1>r, <1>j DEF SaveReview
<1>1. /\ job[j] # NONE /\ r[2] <= job[j].run /\ NoneLater(r) /\ RevisionFor(r) = count[j]
      /\ context \in Context /\ context.result = r /\ context.shape \in Shapes
      /\ count[j] \in Nat /\ count[j] + 1 \in 1 .. MaxSaves /\ count[j] + 1 \in 0 .. MaxSaves
  <2>1. /\ job[j] # NONE /\ r[2] <= job[j].run /\ NoneLater(r) /\ RevisionFor(r) = count[j]
        /\ context = [result |-> r, shape |-> job[j].shape] /\ context \in Context
    BY <1>b, <1>j, BoundResult
  <2>2. count[j] \in 0 .. MaxSaves /\ MaxSaves \in Nat
    BY <1>f, ReceiptAssumption DEF HistoryOK
  <2>3. count[j] \in Nat /\ count[j] + 1 \in 1 .. MaxSaves /\ count[j] + 1 \in 0 .. MaxSaves
    BY <2>2, <1>b
  <2> QED
    BY <2>1, <2>3 DEF Context
<1>2. PICK new : new = [job |-> j, run |-> r[2], shape |-> context.shape,
                        rev |-> count[j] + 1, status |-> status]
  OBVIOUS
<1>3. /\ new \in Record /\ new.job = j /\ new.run = r[2] /\ new.rev = count[j] + 1
  BY <1>1, <1>2, <1>f, ReceiptFacts DEF Record
<1>p. /\ rows' = [rows EXCEPT ![r] = new] /\ window' = [window EXCEPT ![w].rev = new.rev]
      /\ count' = [count EXCEPT ![j] = @ + 1] /\ last' = [last EXCEPT ![j] = new]
  BY <1>1, <1>2, <1>r, <1>j DEF SaveReview, SaveScope
<1>4. /\ count'[j] = count[j] + 1 /\ last'[j] = new
      /\ \A i \in Jobs : i # j => count'[i] = count[i] /\ last'[i] = last[i]
      /\ HistoryOK'
  BY <1>p, <1>1, <1>3, <1>b, <1>f DEF HistoryOK
<1>5. Agrees(new)'
  <2>1. new # NONE
    BY <1>3, ReceiptAssumption
  <2> QED
    BY <2>1, <1>3, <1>4 DEF Agrees
<1>6. /\ window' \in [Windows -> {NONE} \cup Window]
      /\ window'[w].rev = count[j] + 1
  <2>1. window' = [window EXCEPT ![w] = [window[w] EXCEPT !.rev = new.rev]]
    BY <1>p, <1>f DEF ReceiptTypeOK
  <2>2. [window[w] EXCEPT !.rev = new.rev] \in Window /\ [window[w] EXCEPT !.rev = new.rev].rev = new.rev
    BY <1>w, <1>1, <1>3 DEF Window
  <2> QED
    BY <2>1, <2>2, <1>3, <1>f DEF ReceiptTypeOK
<1>7. ReceiptInv'
  <2>1. r \in {r, SHARED} /\ r # SHARED
    BY ReceiptAssumption
  <2>2. count'[j] >= count[j] /\ count'[j] # count[j] /\ new.rev = count'[j]
    BY <1>1, <1>3, <1>4
  <2> QED
    BY <2>1, <2>2, <1>1, <1>3, <1>4, <1>5, <1>6, <1>p, <1>b, <1>j, StoreRecord
<1>8. SaverSawAll
  <2> SUFFICES ASSUME NEW i \in Jobs, count'[i] # count[i]
               PROVE  /\ window[w] # NONE /\ window[w].result[1] = i
                      /\ window[w].rev = count[i] /\ window'[w].rev = count'[i]
    BY DEF SaverSawAll
  <2>1. i = j
    BY <1>4
  <2>2. window[w].rev = count[j]
    BY <1>1, <1>b, <1>r DEF UpToDate
  <2> QED
    BY <2>1, <2>2, <1>w, <1>r, <1>j, <1>4, <1>6
<1> QED
  BY <1>7, <1>8

LEMMA ReceiptStep == ReceiptInv /\ [ReviewStep]_rvars => ReceiptInv' /\ (SaverSawAll \/ UNCHANGED rvars)
<1> SUFFICES ASSUME ReceiptInv, [ReviewStep]_rvars
             PROVE  ReceiptInv' /\ (SaverSawAll \/ UNCHANGED rvars)
  OBVIOUS
<1>1. ASSUME NEW j \in Jobs, NEW c \in Shapes, Publish(j, c) \/ Republish(j, c)
      PROVE  ReceiptInv' /\ SaverSawAll
  BY <1>1, PublishReceipts DEF Publish, Republish, SaverSawAll
<1>2. ASSUME NEW w \in Windows, NEW j \in Jobs, PrepareReview(w, j)
      PROVE  ReceiptInv' /\ SaverSawAll
  BY <1>2, PrepareReceipts DEF PrepareReview, SaverSawAll
<1>3. ASSUME NEW w \in Windows, NEW j \in Jobs, ReadPage(w, j)
      PROVE  ReceiptInv' /\ SaverSawAll
  BY <1>3, ReadReceipts DEF ReadPage, SaverSawAll
<1>4. ASSUME NEW w \in Windows, NEW status \in Statuses, SaveReview(w, status)
      PROVE  ReceiptInv' /\ SaverSawAll
  BY <1>4, SaveReceipts
<1>5. CASE UNCHANGED rvars
  <2>f. ReceiptTypeOK /\ HistoryOK /\ RecordsOK /\ NewestOK /\ ContextOK
    BY DEF ReceiptInv
  <2>u. UNCHANGED <<job, context, rows, owners, window, count, last>>
    BY <1>5 DEF rvars
  <2>1. ReceiptTypeOK' /\ HistoryOK'
    BY <2>u, <2>f DEF ReceiptTypeOK, HistoryOK
  <2>2. RecordsOK' /\ NewestOK'
    BY <2>u, <2>f, SameRows DEF RecordsOK, Agrees, NewestOK
  <2>3. ContextOK'
    <3>1. context # NONE => context.result \in Results
      BY <2>f DEF ReceiptTypeOK, Context
    <3> QED
      BY <2>u, <2>f, <3>1, SameRows DEF ContextOK, Unrepaired, Carries
  <2> QED
    BY <1>5, <2>1, <2>2, <2>3 DEF ReceiptInv
<1> QED
  BY <1>1, <1>2, <1>3, <1>4, <1>5 DEF ReviewStep

LEMMA ReceiptAlways == ReceiptSpec => []ReceiptInv
<1> QED
  BY ReceiptStart, ReceiptStep, PTL DEF ReceiptSpec

\* What a reader of the receipts is shown.
LEMMA ShownOfInv == ReceiptInv => EverySaveCounts /\ ReviewIsOwn /\ BindingIsCurrent
<1> SUFFICES ASSUME ReceiptInv PROVE EverySaveCounts /\ ReviewIsOwn /\ BindingIsCurrent
  OBVIOUS
<1>f. ReceiptTypeOK /\ HistoryOK /\ RecordsOK /\ ContextOK
  BY DEF ReceiptInv
<1>1. EverySaveCounts
  <2> SUFFICES ASSUME NEW j \in Jobs, Usable(j) PROVE RevisionFor(Result(j)) = count[j]
    BY DEF EverySaveCounts
  <2>1. job[j] # NONE
    BY <1>f, ReceiptFacts DEF Usable
  <2> QED
    BY <2>1, PresentResult, CurrentIsLast
<1>2. ReviewIsOwn
  <2> SUFFICES ASSUME context # NONE,
                      Carries(CurrentRecord(context.result), context.result, context.shape)
               PROVE  /\ last[context.result[1]] # NONE
                      /\ last[context.result[1]].status = CurrentRecord(context.result).status
                      /\ last[context.result[1]].shape = CurrentRecord(context.result).shape
                      /\ CurrentRecord(context.result).status = "excluded" =>
                           last[context.result[1]].run = context.result[2]
    BY DEF ReviewIsOwn
  <2>1. PICK r \in Results : r = context.result
    BY <1>f DEF ReceiptTypeOK, Context
  <2>2. PICK d : d = CurrentRecord(r)
    OBVIOUS
  <2>3. NoneLater(r)
    BY <2>1, <1>f DEF ContextOK
  <2>4. d # NONE /\ (d.status = "excluded" => d.run = r[2])
    BY <2>1, <2>2 DEF Carries
  <2>5. PICK scope \in Results \cup {SHARED} :
              rows[scope] = d /\ d.job = r[1] /\ d.rev = count[r[1]]
    BY <2>2, <2>3, <2>4, CurrentIsLast
  <2>6. Agrees(d)
    BY <2>4, <2>5, <1>f DEF RecordsOK
  <2> QED
    BY <2>1, <2>2, <2>4, <2>5, <2>6 DEF Agrees
<1>3. BindingIsCurrent
  BY <1>f DEF BindingIsCurrent, ContextOK
<1> QED
  BY <1>1, <1>2, <1>3

\* However windows publish, calibrate, read and save the receipts of jobs that
\* share a context (batch_review.py), a save is only accepted from a window that
\* has seen every decision taken for its job before.
THEOREM SaversAreInformed == ReceiptSpec => [][SaverSawAll]_rvars
<1>1. ReceiptInv /\ [ReviewStep]_rvars => [SaverSawAll]_rvars
  BY ReceiptStep
<1> QED
  BY <1>1, ReceiptAlways, PTL DEF ReceiptSpec

-----------------------------------------------------------------------------
\* What the review databases say is always true, of tasks, segments and receipts
\* (review_store.py, review_store_v2.py, receipt_review_store.py), whoever saves,
\* in whatever order, under whatever results.
THEOREM ReviewsStayTrue == TaskSpec /\ SegmentSpec /\ ReceiptSpec => []ReviewsAreTrue
<1>1. TaskSpec => [](ReviewRowsTypeOK /\ IdsAreUnique /\ ToldIsSaved)
  BY ReviewRowsHold
<1>2. SegmentInv => SegmentTypeOK /\ GroupIsOneDecision /\ NoFalseCorruption
  BY GroupOfInv DEF SegmentInv
<1>3. ReceiptInv => ReceiptTypeOK /\ EverySaveCounts /\ ReviewIsOwn /\ BindingIsCurrent
  BY ShownOfInv DEF ReceiptInv
<1>4. /\ ReviewRowsTypeOK /\ IdsAreUnique /\ ToldIsSaved
      /\ SegmentTypeOK /\ GroupIsOneDecision /\ NoFalseCorruption
      /\ ReceiptTypeOK /\ EverySaveCounts /\ ReviewIsOwn /\ BindingIsCurrent
      => ReviewsAreTrue
  BY DEF ReviewsAreTrue
<1> QED
  BY <1>1, <1>2, <1>3, <1>4, SegmentAlways, ReceiptAlways, PTL
=============================================================================
