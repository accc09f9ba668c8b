---------------------------- MODULE ExportJournal ----------------------------
(***************************************************************************)
(* The durable record of one export intent (src/engine/export_journal.py): *)
(* an anchor, file 0, and numbered generations of which the newest is the  *)
(* record.  A save publishes a further generation and then deletes the     *)
(* older ones; a removal deletes all files.  One process at a time holds   *)
(* the directory's lock; it may fail or die between any two steps.         *)
(*                                                                         *)
(* Abstractions.  A file's content is the whole record it stands for: a    *)
(* generation is a patch of the anchor, which never changes.  Temporary    *)
(* files are never read and left out.  The directory is private, so files  *)
(* replaced by others, which every step detects and refuses, are left out. *)
(***************************************************************************)
EXTENDS Naturals

CONSTANTS
    Values,      \* contents of a record
    Removable,   \* contents in a state of which the record may be removed
    NONE,        \* no file
    GONE,        \* the record after its removal
    MaxVersion   \* MAX_GENERATION

ASSUME ValuesAssumption ==
    Removable \subseteq Values /\ NONE \notin Values /\ GONE \notin Values /\ NONE # GONE
ASSUME VersionAssumption == MaxVersion \in Nat
ASSUME NoneAssumption ==
    LET Version == [number : Nat, content : Values] IN
    /\ NONE \notin Version /\ GONE \notin Version
    /\ NONE \notin [loaded : Version, intent : Values \cup {NONE}]

VARIABLES
    files,      \* files[v]: the content of generation v, file 0 is the anchor
    created,    \* history: the intent has been created
    pc,         \* where the process that holds the lock is
    version,    \* JournalRecord: the generation it has read or saved last ...
    data,       \* ... and its content
    target,     \* what is being saved
    sure        \* the last save did not raise

loaded == <<version, data>>
vars == <<files, created, pc, loaded, target, sure>>

Versions == 0 .. MaxVersion
Present == {v \in Versions : files[v] # NONE}
IsTop(v) == v \in Present /\ \A u \in Present : u <= v

\* _latest_record
Top == CHOOSE v \in Versions : IsTop(v)

Init ==
    /\ files = [v \in Versions |-> NONE]
    /\ created = FALSE
    /\ pc = "free" /\ version = 0 /\ data = NONE /\ target = NONE /\ sure = FALSE

\* An intent's name is new (uuid4): it is created once.
Create(v) ==
    /\ pc = "free" /\ ~created
    /\ created' = TRUE
    /\ files' = [files EXCEPT ![0] = v]
    /\ UNCHANGED <<pc, loaded, target, sure>>

\* Without its anchor a record does not exist.
Lock ==
    /\ pc = "free" /\ files[0] # NONE
    /\ pc' = "held" /\ version' = Top /\ data' = files[Top] /\ sure' = TRUE
    /\ UNCHANGED <<files, created, target>>

Unlock ==
    /\ pc = "held"
    /\ pc' = "free"
    /\ UNCHANGED <<files, created, loaded, target, sure>>

(***************************************************************************)
(* _save_record                                                            *)
(***************************************************************************)
Raise == pc' = "held" /\ sure' = FALSE /\ UNCHANGED <<files, created, loaded, target>>

\* Callers never take a finished record back into an earlier state
\* (export_bundle and export_publish).
Follows(v) == data \in Removable => v \in Removable

HasGeneration == version < MaxVersion

\* The record must still be the newest; then the content goes to a temporary file.
StartSave(v) ==
    /\ pc = "held" /\ files[0] # NONE /\ IsTop(version) /\ HasGeneration /\ Follows(v)
    /\ pc' = "publishing" /\ target' = v
    /\ UNCHANGED <<files, created, loaded, sure>>

\* The size, the version, the quota or the temporary file is refused.
RefuseSave == pc = "held" /\ Raise

\* _publish_new never replaces a file.
Publish ==
    /\ pc = "publishing"
    /\ \/ /\ version + 1 \notin Present
          /\ files' = [files EXCEPT ![version + 1] = target]
          /\ pc' = "verifying"
          /\ UNCHANGED <<created, loaded, target, sure>>
       \/ Raise

\* The published generation is read again before the record follows it.
Accept ==
    /\ pc = "verifying"
    /\ \/ /\ version' = version + 1 /\ data' = target /\ pc' = "cleaning"
          /\ UNCHANGED <<files, created, target, sure>>
       \/ Raise

\* Fault: the generation that was just published counts as an old one.
OldMutant(v) == v # 0
Old(v) == v \notin {0, version}

\* _cleanup_old_generations: a file that cannot be deleted is left for the
\* next save, or the save raises although it is durable.
CleanOld(v) ==
    /\ pc = "cleaning" /\ v \in Present /\ Old(v)
    /\ files' = [files EXCEPT ![v] = NONE]
    /\ UNCHANGED <<created, pc, loaded, target, sure>>
FinishSave ==
    /\ pc = "cleaning"
    /\ \/ pc' = "held" /\ sure' = TRUE /\ UNCHANGED <<files, created, loaded, target>>
       \/ Raise

(***************************************************************************)
(* _remove_record                                                          *)
(***************************************************************************)
StartRemove ==
    /\ pc = "held" /\ files[0] # NONE /\ files[version] = data /\ data \in Removable
    /\ pc' = "removing"
    /\ UNCHANGED <<files, created, loaded, target, sure>>

\* Fault: the anchor is removed last.
InOrderMutant(v) == v # 0 \/ Present = {0}
\* The anchor is removed first, so that a crash leaves no older content valid.
InOrder(v) == v = 0 \/ files[0] = NONE

RemoveFile(v) ==
    /\ pc = "removing" /\ v \in Present /\ InOrder(v)
    /\ files' = [files EXCEPT ![v] = NONE]
    /\ UNCHANGED <<created, pc, loaded, target, sure>>
FinishRemove ==
    /\ pc = "removing"
    /\ pc' = "free"
    /\ UNCHANGED <<files, created, loaded, target, sure>>

\* The process dies; the operating system releases the lock.
Crash ==
    /\ pc # "free"
    /\ pc' = "free"
    /\ UNCHANGED <<files, created, loaded, target, sure>>

Next ==
    \/ \E v \in Values : Create(v) \/ StartSave(v)
    \/ Lock \/ Unlock
    \/ RefuseSave \/ Publish \/ Accept \/ FinishSave
    \/ StartRemove \/ FinishRemove
    \/ \E v \in Versions : CleanOld(v) \/ RemoveFile(v)
    \/ Crash

Spec == Init /\ [][Next]_vars

(***************************************************************************)
(* Properties                                                              *)
(***************************************************************************)
\* The files hold contents, and the process's version is one of a file.
JournalTypeOK ==
    /\ files \in [Versions -> Values \cup {NONE}]
    /\ created \in BOOLEAN /\ sure \in BOOLEAN
    /\ pc \in {"free", "held", "publishing", "verifying", "cleaning", "removing"}
    /\ version \in Versions
    /\ data \in Values \cup {NONE} /\ target \in Values \cup {NONE}

\* A save that did not raise is what the next reader finds, although old
\* generations whose deletion failed may still lie beside it (_latest_record).
SureIsLatest == (pc = "held" /\ sure) => IsTop(version) /\ files[version] = data

\* The record as the next reader finds it.
Latest ==
    IF ~created THEN NONE
    ELSE IF files[0] = NONE THEN GONE
    ELSE [number |-> Top, content |-> files[Top]]

\* The process with its JournalRecord, which lives as long as the lock; its
\* save takes effect when its file is published.
Holder ==
    IF pc = "free" THEN NONE
    ELSE [loaded |-> [number |-> version, content |-> data],
          intent |-> IF pc = "publishing" THEN target ELSE NONE]

Record == INSTANCE AtomicRecord WITH record <- Latest, holder <- Holder

\* Whatever fails or crashes, the files act as one record saved by
\* compare-and-set: a step that changes it installs, as the next generation,
\* the content its process is saving over the generation that process has read;
\* no older generation shows again, no other save is replaced, a finished
\* record stays finished, and a removed one never comes back.
RecordSpec == Record!Spec
==============================================================================
