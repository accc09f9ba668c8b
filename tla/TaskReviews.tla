----------------------------- MODULE TaskReviews -----------------------------
(***************************************************************************)
(* The review segments of single-document tasks: ReviewStore in            *)
(* src/engine/review_store.py and its two handlers in src/engine/engine.py.*)
(* A request decodes and validates its whole batch, then writes it row by  *)
(* row in one SQLite transaction; the row's identifier is the primary key, *)
(* its task, document, page and number are unique together.  Two clients   *)
(* save at the same time and processes end at any point.                   *)
(***************************************************************************)
EXTENDS Naturals, Sequences, FiniteSets

CONSTANTS
    Clients,    \* windows that save
    Tasks,      \* task identifiers
    Segments,   \* a document, page and number, as one value
    Ids,        \* identifiers of records
    Verdicts,   \* what was decided; the rest of a record goes with it
    Invalid,    \* a verdict no validation accepts
    Batches,    \* the batches clients send
    Absent      \* no row, no request

VARIABLES
    taskRows,   \* table review_segments, as committed
    request,    \* the batch a client has had accepted
    tx,         \* the open write transaction: its client, rows and next record
    told        \* history: what the store has answered to be saved, by segment

taskVars == <<taskRows, request, tx, told>>

Keys == Tasks \X Segments
TaskRecord == [id : Ids, key : Keys, verdict : Verdicts \cup {Invalid}]
Transaction == [client : Clients, rows : [Keys -> TaskRecord \cup {Absent}], next : Nat]

\* A batch is a list of decoded records; what stands for nothing is no row, no
\* request and no transaction, and the invalid verdict is none of the valid.
ASSUME BatchAssumption == Batches \subseteq Seq(TaskRecord)
ASSUME AbsentAssumption == Absent \notin TaskRecord \cup Verdicts \cup Batches \cup Transaction
ASSUME InvalidAssumption == Invalid \notin Verdicts

TaskInit ==
    /\ taskRows = [k \in Keys |-> Absent]
    /\ request = [c \in Clients |-> Absent]
    /\ tx = Absent
    /\ told = [k \in Keys |-> Absent]

\* The checks of one decoded record, field by field.
Valid(record) == record.verdict # Invalid

\* records_from_payload and the first lines of save: every record is checked,
\* and all belong to one task, before the transaction begins.
Acceptable(batch) ==
    /\ \A i \in DOMAIN batch : Valid(batch[i])
    /\ \A i, j \in DOMAIN batch : batch[i].key[1] = batch[j].key[1]

SaveRequest(c, batch) ==
    /\ request[c] = Absent
    /\ Acceptable(batch)
    /\ request' = [request EXCEPT ![c] = batch]
    /\ UNCHANGED <<taskRows, tx, told>>

Begin(c) ==
    /\ request[c] # Absent
    /\ tx = Absent
    /\ tx' = [client |-> c, rows |-> taskRows, next |-> 1]
    /\ UNCHANGED <<taskRows, request, told>>

InTransaction(c) == tx # Absent /\ tx.client = c
Head1(c) == request[c][tx.next]

\* Another row has the identifier: the statement fails, on conflict or not.
Taken(table, record) ==
    \E k \in Keys \ {record.key} : table[k] # Absent /\ table[k].id = record.id

\* _upsert_connection: a new row, or every column of the row of the segment.
Upsert(c) ==
    /\ InTransaction(c)
    /\ tx.next <= Len(request[c])
    /\ ~Taken(tx.rows, Head1(c))
    /\ tx' = [tx EXCEPT !.rows[Head1(c).key] = Head1(c), !.next = @ + 1]
    /\ UNCHANGED <<taskRows, request, told>>

\* Fault: the rows written so far are committed.
RollbackMutant(c) ==
    /\ InTransaction(c)
    /\ tx.next <= Len(request[c])
    /\ taskRows' = tx.rows
    /\ tx' = Absent
    /\ request' = [request EXCEPT ![c] = Absent]
    /\ UNCHANGED told

\* A record that cannot be written, because it is taken or the disk is full,
\* undoes the batch.
Rollback(c) ==
    /\ InTransaction(c)
    /\ tx.next <= Len(request[c])
    /\ tx' = Absent
    /\ request' = [request EXCEPT ![c] = Absent]
    /\ UNCHANGED <<taskRows, told>>

Commit(c) ==
    /\ InTransaction(c)
    /\ tx.next > Len(request[c])
    /\ taskRows' = tx.rows
    /\ told' = [k \in Keys |->
                  IF \E i \in DOMAIN request[c] : request[c][i].key = k
                  THEN tx.rows[k].verdict ELSE told[k]]
    /\ tx' = Absent
    /\ request' = [request EXCEPT ![c] = Absent]

\* delete_for_task; the write lock is SQLite's.
DeleteTask(t) ==
    /\ tx = Absent
    /\ taskRows' = [k \in Keys |-> IF k[1] = t THEN Absent ELSE taskRows[k]]
    /\ told' = [k \in Keys |-> IF k[1] = t THEN Absent ELSE told[k]]
    /\ UNCHANGED <<request, tx>>

\* The process of a request ends; SQLite rolls its transaction back.
End(c) ==
    /\ request[c] # Absent
    /\ request' = [request EXCEPT ![c] = Absent]
    /\ tx' = IF InTransaction(c) THEN Absent ELSE tx
    /\ UNCHANGED <<taskRows, told>>

\* What list_for_task returns for a segment: the row, decoded.
Listed(k) == IF taskRows[k] = Absent THEN Absent ELSE taskRows[k].verdict

TaskNext ==
    \/ \E c \in Clients, batch \in Batches : SaveRequest(c, batch)
    \/ \E c \in Clients : Begin(c) \/ Upsert(c) \/ Rollback(c) \/ Commit(c) \/ End(c)
    \/ \E t \in Tasks : DeleteTask(t)

TaskSpec == TaskInit /\ [][TaskNext]_taskVars

-----------------------------------------------------------------------------
\* Rows are valid records, each under its own key.
ReviewRowsTypeOK ==
    /\ \A k \in Keys : taskRows[k] # Absent =>
         taskRows[k] \in TaskRecord /\ taskRows[k].key = k /\ taskRows[k].verdict # Invalid
    /\ request \in [Clients -> Batches \cup {Absent}]
    /\ told \in [Keys -> Verdicts \cup {Absent}]

\* No two segments share an identifier, so none replaces another when records
\* are moved between segments by later batches.
IdsAreUnique ==
    \A k, l \in Keys : taskRows[k] # Absent /\ taskRows[l] # Absent /\ taskRows[k].id = taskRows[l].id
      => k = l

\* What a client was told is saved is what is read, until a later save or the
\* deletion of the task.
ToldIsSaved ==
    \A k \in Keys : told[k] = Listed(k)

Atomic == INSTANCE AtomicReviews WITH rows <- taskRows

\* The table changes by whole batches only: rows written before a record fails,
\* or before the process ends, are never seen.
SavesAreAtomic == Atomic!Spec

=============================================================================
