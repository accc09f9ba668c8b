------------------------------ MODULE PageQueue ------------------------------
(***************************************************************************)
(* The page queue of src/engine/queue.py and its checkpoint file           *)
(* (src/engine/checkpoint.py).  The queue lives in memory; every change is *)
(* followed by one save of the whole queue, and the process may end        *)
(* between any two steps.  run() is split where it saves and where it      *)
(* calls the handler; the handler may itself pause, cancel or add.         *)
(***************************************************************************)
EXTENDS Naturals, Sequences, FiniteSetsExt

CONSTANTS
    MaxRetries,   \* PageQueue.max_retries
    MaxPerRun,    \* QueueLimits.max_items_per_run
    MaxPending,   \* QueueLimits.max_pending_items
    MaxItems,     \* bound on the items ever added
    MaxCrashes    \* bound on the ends of the process

LimitsAssumption ==
    MaxRetries \in Nat /\ MaxPerRun \in Nat \ {0} /\ MaxPending \in Nat \ {0}

VARIABLES
    items,      \* self.items: status and retry_count of each item
    paused,     \* self.paused
    cancelled,  \* self.cancelled
    file,       \* what the checkpoint holds
    run,        \* the loop of run(): its place, the item and the count
    crashes,
    handled,    \* history: how often the handler was called for an item
    asked       \* history: pause or cancel has returned since the last resume

vars == <<items, paused, cancelled, file, run, crashes, handled, asked>>

Idle == [at |-> "idle", next |-> 1, processed |-> 0]

Saved == [items |-> items', paused |-> paused', cancelled |-> cancelled']

Pending == {i \in DOMAIN items : items[i].status = "pending"}

\* A checkpoint that does not exist yet reads as an empty queue.
Init ==
    /\ items = <<>>
    /\ paused = FALSE /\ cancelled = FALSE
    /\ file = [items |-> <<>>, paused |-> FALSE, cancelled |-> FALSE]
    /\ run = Idle
    /\ crashes = 0
    /\ handled = [i \in 1..MaxItems |-> 0]
    /\ asked = FALSE

\* The caller is in control between runs and inside the handler.
CallerRuns == run.at \in {"idle", "handler"}

NewItem == [status |-> "pending", retries |-> 0]

\* add and add_many: all of the items or none.
Add(n) ==
    /\ CallerRuns
    /\ Len(items) + n <= MaxItems
    /\ Cardinality(Pending) + n <= MaxPending
    /\ items' = items \o [i \in 1..n |-> NewItem]
    /\ UNCHANGED <<paused, cancelled, run, crashes, handled, asked>>
    /\ file' = Saved

Pause ==
    /\ CallerRuns
    /\ paused' = TRUE
    /\ asked' = TRUE
    /\ UNCHANGED <<items, cancelled, run, crashes, handled>>
    /\ file' = Saved

Cancel ==
    /\ CallerRuns
    /\ cancelled' = TRUE
    /\ asked' = TRUE
    /\ UNCHANGED <<items, paused, run, crashes, handled>>
    /\ file' = Saved

Resume ==
    /\ CallerRuns
    /\ paused' = FALSE
    /\ cancelled' = FALSE
    /\ asked' = FALSE
    /\ UNCHANGED <<items, run, crashes, handled>>
    /\ file' = Saved

Retriable(item) == item.status = "failed" /\ item.retries < MaxRetries

RetryFailed ==
    /\ CallerRuns
    /\ items' = [i \in DOMAIN items |->
                   IF Retriable(items[i])
                   THEN [status |-> "pending", retries |-> items[i].retries + 1]
                   ELSE items[i]]
    /\ UNCHANGED <<paused, cancelled, run, crashes, handled, asked>>
    /\ file' = Saved

StartRun ==
    /\ run = Idle
    /\ run' = [Idle EXCEPT !.at = "loop"]
    /\ UNCHANGED <<items, paused, cancelled, file, crashes, handled, asked>>

\* The loop ends at the end of the list, paused, cancelled or at its limit.
EndRun ==
    /\ run.at = "loop"
    /\ \/ run.next > Len(items)
       \/ paused \/ cancelled
       \/ run.processed >= MaxPerRun
    /\ run' = Idle
    /\ UNCHANGED <<items, paused, cancelled, file, crashes, handled, asked>>

InLoop ==
    /\ run.at = "loop"
    /\ run.next <= Len(items)
    /\ ~paused /\ ~cancelled
    /\ run.processed < MaxPerRun

Skip ==
    /\ InLoop
    /\ items[run.next].status # "pending"
    /\ run' = [run EXCEPT !.next = @ + 1]
    /\ UNCHANGED <<items, paused, cancelled, file, crashes, handled, asked>>

\* The item is marked and saved before the handler sees it.

BeginItem ==
    /\ InLoop
    /\ items[run.next].status = "pending"
    /\ items' = [items EXCEPT ![run.next].status = "processing"]
    /\ run' = [run EXCEPT !.at = "marked", !.processed = @ + 1]
    /\ UNCHANGED <<paused, cancelled, crashes, handled, asked>>
    /\ file' = Saved

CallHandler ==
    /\ run.at = "marked"
    /\ run' = [run EXCEPT !.at = "handler"]
    /\ handled' = [handled EXCEPT ![run.next] = @ + 1]
    /\ UNCHANGED <<items, paused, cancelled, file, crashes, asked>>

\* The handler returns or raises; one failed page does not stop the queue.
EndItem(outcome) ==
    /\ run.at = "handler"
    /\ items' = [items EXCEPT ![run.next].status = outcome]
    /\ run' = [run EXCEPT !.at = "loop", !.next = @ + 1]
    /\ UNCHANGED <<paused, cancelled, crashes, handled, asked>>
    /\ file' = Saved

\* The process ends and the queue is read back from its checkpoint.
Restart ==
    /\ crashes < MaxCrashes
    /\ crashes' = crashes + 1
    /\ items' = file.items
    /\ paused' = file.paused
    /\ cancelled' = file.cancelled
    /\ run' = Idle
    /\ UNCHANGED <<file, handled, asked>>

Next ==
    \/ \E n \in 1..MaxItems : Add(n)
    \/ Pause \/ Cancel \/ Resume \/ RetryFailed
    \/ StartRun \/ EndRun \/ Skip \/ BeginItem \/ CallHandler
    \/ \E outcome \in {"completed", "failed"} : EndItem(outcome)
    \/ Restart

Spec == Init /\ [][Next]_vars

-----------------------------------------------------------------------------
\* The queue, its checkpoint and the loop have their types.
QueueTypeOK ==
    LET Rows == UNION {[1..n -> [status : {"pending", "processing", "completed", "failed"},
                                 retries : 0..MaxRetries]] : n \in 0..MaxItems}
    IN /\ items \in Rows
       /\ paused \in BOOLEAN /\ cancelled \in BOOLEAN
       /\ file \in [items : Rows, paused : BOOLEAN, cancelled : BOOLEAN]
       /\ run \in [at : {"idle", "loop", "marked", "handler"},
                   next : 1..MaxItems + 1, processed : 0..MaxPerRun]

\* No page is handed to the handler more often than it was added or put back,
\* even when the process ends between the handler and the save that follows.
HandledOncePerTry ==
    \A i \in 1..MaxItems :
      handled[i] <= IF i \in DOMAIN file.items THEN file.items[i].retries + 1 ELSE 0

\* Once pause or cancel has returned no further page is begun until resume,
\* whether or not the process was restarted in between.
PauseHolds == asked /\ asked' => run'.processed <= run.processed
=============================================================================
