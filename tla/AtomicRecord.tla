----------------------------- MODULE AtomicRecord -----------------------------
(***************************************************************************)
(* What the export journal promises of one record: a register that one     *)
(* process at a time reads and saves by compare-and-set.  A save installs  *)
(* the content its process holds, as the next version after the one it     *)
(* has read; once finished a record stays finished, and once removed it    *)
(* never comes back.                                                       *)
(***************************************************************************)
EXTENDS Naturals

CONSTANTS
    Values,      \* contents of a record
    Removable,   \* contents of a finished record
    NONE,        \* no record, no process, nothing to save
    GONE         \* the record after its removal

VARIABLES
    record,      \* NONE, its version, or GONE
    holder       \* NONE or the process with the record: the version it has
                 \* read or saved last, and the content it is saving

Exists == record \notin {NONE, GONE}
Idle == holder # NONE /\ holder.intent = NONE

Init == record = NONE /\ holder = NONE

Create(v) ==
    /\ record = NONE /\ holder = NONE
    /\ record' = [number |-> 0, content |-> v]
    /\ UNCHANGED holder

Load ==
    /\ Exists /\ holder = NONE
    /\ holder' = [loaded |-> record, intent |-> NONE]
    /\ UNCHANGED record

\* Only the newest version is saved on.
Begin(v) ==
    /\ Exists /\ Idle /\ holder.loaded = record
    /\ record.content \in Removable => v \in Removable
    /\ holder' = [holder EXCEPT !.intent = v]
    /\ UNCHANGED record
Save ==
    /\ Exists /\ holder # NONE /\ holder.intent \in Values /\ holder.loaded = record
    /\ record' = [number |-> record.number + 1, content |-> holder.intent]
    /\ holder' = [holder EXCEPT !.intent = NONE]
\* The process learns that its save is done.
Follow ==
    /\ Exists /\ Idle
    /\ holder' = [holder EXCEPT !.loaded = record]
    /\ UNCHANGED record
GiveUp ==
    /\ holder # NONE /\ holder' = [holder EXCEPT !.intent = NONE]
    /\ UNCHANGED record

\* Who removes the record has seen it finished.
Remove ==
    /\ Exists /\ Idle /\ holder.loaded.content \in Removable /\ record.content \in Removable
    /\ record' = GONE
    /\ UNCHANGED holder

\* The process is done or dies.
Release ==
    /\ holder' = NONE
    /\ UNCHANGED record

Next ==
    \/ \E v \in Values : Create(v) \/ Begin(v)
    \/ Load \/ Save \/ Follow \/ GiveUp \/ Remove \/ Release
Spec == Init /\ [][Next]_<<record, holder>>
===============================================================================
