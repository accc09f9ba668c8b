----------------------------- MODULE ExportProofs -----------------------------
(***************************************************************************)
(* The journal of an export implements an atomic record, for any contents  *)
(* and any number of generations; the registry of exported files agrees    *)
(* with the disk, for any tokens, paths, processes and contents; nothing   *)
(* of an export intent is forgotten, for any number of intents and files;  *)
(* and progress never costs an export its answer, for any of the limits.   *)
(***************************************************************************)
EXTENDS ExportJournal, ExportOwnership, ExportBundle, ExportProgress, FiniteSetTheorems, TLAPS

(***************************************************************************)
(* The journal                                                             *)
(***************************************************************************)
\* Before its creation a record has no file.
Unborn == ~created => \A v \in Versions : files[v] = NONE

\* There is a newest generation wherever there is an anchor.
HasTop == files[0] # NONE => \E v \in Versions : IsTop(v)

\* A generation that came after a finished one is finished.
Finished ==
    \A u, v \in Present : u < v /\ files[u] \in Removable => files[v] \in Removable

\* What the process knows of the files.
HoldsRecord ==
    /\ pc # "free" => data \in Values /\ files[version] \in {NONE, data}
    /\ pc \in {"held", "publishing", "verifying", "cleaning"} => files[0] # NONE
    /\ pc \in {"publishing", "cleaning"} => IsTop(version)
    /\ pc = "held" => (sure => IsTop(version))
    /\ pc \in {"publishing", "verifying"} =>
           version + 1 \in Versions /\ target \in Values
    /\ pc = "publishing" => (data \in Removable => target \in Removable)
    /\ pc = "verifying" => IsTop(version + 1) /\ files[version + 1] = target
    /\ pc = "removing" => data \in Removable
    /\ pc = "removing" => (files[0] # NONE => version \in Present)

JournalInv == JournalTypeOK /\ Unborn /\ HasTop /\ Finished /\ HoldsRecord

LEMMA ContentsAreFiles == \A v \in Values : v # NONE /\ v # GONE
  BY ValuesAssumption

\* A newest generation is the newest generation.
LEMMA TopIsUnique == ASSUME NEW v \in Versions, IsTop(v) PROVE Top = v
  <1>1. \A u \in Versions : IsTop(u) => u = v
    BY VersionAssumption DEF IsTop, Present, Versions
  <1>2. IsTop(Top)
    BY DEF Top
  <1>3. Top \in Versions
    BY DEF Top
  <1>4. QED
    BY <1>1, <1>2, <1>3

\* The same after a step.
LEMMA NextTopIsUnique == ASSUME NEW v \in Versions, IsTop(v)' PROVE Top' = v
  <1>1. \A u \in Versions : IsTop(u)' => u = v
    BY VersionAssumption DEF IsTop, Present, Versions
  <1>2. IsTop(Top)'
    BY DEF Top
  <1>3. Top' \in Versions
    BY DEF Top
  <1>4. QED
    BY <1>1, <1>2, <1>3

LEMMA InitHolds == Init => JournalInv
  <1> SUFFICES ASSUME Init PROVE JournalInv
    OBVIOUS
  <1>1. JournalTypeOK
    <2>1. created \in BOOLEAN /\ sure \in BOOLEAN
      BY Zenon DEF Init
    <2>2. version \in Versions
      BY VersionAssumption DEF Init, Versions
    <2>3. QED
      BY <2>1, <2>2 DEF Init, JournalTypeOK
  <1>2. 0 \in Versions /\ \A v \in Versions : files[v] = NONE
    BY VersionAssumption DEF Init, Versions
  <1>3. QED
    BY <1>1, <1>2 DEF Init, JournalInv, Unborn, HasTop, Finished, HoldsRecord, Present

(***************************************************************************)
(* Every step keeps the invariant                                          *)
(***************************************************************************)
\* Steps that touch no file and create nothing keep what is said of the files.
LEMMA FilesKept ==
    ASSUME JournalInv, UNCHANGED <<files, created>>
    PROVE  Unborn' /\ HasTop' /\ Finished'
  BY DEF JournalInv, Unborn, HasTop, Finished, IsTop, Present

LEMMA CreateStep == ASSUME JournalInv, NEW v \in Values, Create(v) PROVE JournalInv'
  <1> USE DEF JournalInv, JournalTypeOK
  <1>1. 0 \in Versions /\ v # NONE /\ \A u \in Versions : files[u] = NONE
    BY VersionAssumption, ContentsAreFiles DEF Create, Unborn, Versions
  <1>2. created' = TRUE /\ files' = [files EXCEPT ![0] = v] /\ pc = "free"
        /\ UNCHANGED <<pc, version, data, target, sure>>
    BY DEF Create, loaded
  <1>3. JournalTypeOK'
    <2>1. created' \in BOOLEAN /\ sure' \in BOOLEAN
      BY <1>2, Zenon
    <2>2. files' \in [Versions -> Values \cup {NONE}]
      BY <1>1, <1>2
    <2>3. QED
      BY <2>1, <2>2, <1>2, Zenon
  <1>4. Present' = {0} /\ IsTop(0)'
    BY <1>1, <1>2, VersionAssumption DEF Present, IsTop, Versions
  <1>5. Unborn' /\ HasTop'
    BY <1>1, <1>2, <1>4 DEF Unborn, HasTop
  <1>6. Finished'
    BY <1>4 DEF Finished
  <1>7. HoldsRecord'
    BY <1>2 DEF HoldsRecord
  <1>8. QED
    BY <1>3, <1>5, <1>6, <1>7

LEMMA LockStep == ASSUME JournalInv, Lock PROVE JournalInv'
  <1> USE DEF JournalInv, JournalTypeOK
  <1>1. PICK v \in Versions : IsTop(v)
    BY DEF Lock, HasTop
  <1>2. Top = v
    BY <1>1, TopIsUnique
  <1>3. files' = files /\ version' = v /\ data' = files[v] /\ pc' = "held" /\ files[0] # NONE
        /\ UNCHANGED <<created, target>>
    BY <1>2 DEF Lock
  <1>4. JournalTypeOK'
    <2>1. sure' \in BOOLEAN /\ created' \in BOOLEAN
      BY <1>3, Zenon DEF Lock
    <2>2. data' \in Values \cup {NONE}
      BY <1>3
    <2>3. QED
      BY <1>3, <2>1, <2>2
  <1>5. IsTop(version)'
    BY <1>1, <1>3 DEF IsTop, Present
  <1>6. data' \in Values /\ files'[version'] = data'
    BY <1>1, <1>3 DEF IsTop, Present
  <1>7. HoldsRecord'
    BY <1>3, <1>5, <1>6 DEF HoldsRecord
  <1>8. QED
    BY <1>3, <1>4, <1>7, FilesKept

\* A failing save leaves the files alone.
LEMMA RaiseStep ==
    ASSUME JournalInv, pc \in {"held", "publishing", "verifying", "cleaning"}, Raise
    PROVE  JournalInv'
  <1> USE DEF JournalInv, JournalTypeOK
  <1>1. pc' = "held" /\ UNCHANGED <<files, created, version, data, target>>
    BY DEF Raise, loaded
  <1>2. sure' = FALSE
    BY DEF Raise
  <1>3. JournalTypeOK'
    <2>1. sure' \in BOOLEAN /\ created' \in BOOLEAN
      BY <1>1, <1>2, Zenon
    <2>2. QED
      BY <1>1, <2>1
  <1>4. HoldsRecord'
    BY <1>1, <1>2 DEF HoldsRecord
  <1>5. QED
    BY <1>1, <1>3, <1>4, FilesKept

LEMMA StartSaveStep == ASSUME JournalInv, NEW v \in Values, StartSave(v) PROVE JournalInv'
  <1> USE DEF JournalInv, JournalTypeOK
  <1>1. /\ pc = "held" /\ pc' = "publishing" /\ target' = v
        /\ files[0] # NONE /\ IsTop(version) /\ version < MaxVersion
        /\ data \in Removable => v \in Removable
        /\ UNCHANGED <<files, created, version, data, sure>>
    BY DEF StartSave, HasGeneration, Follows, loaded
  <1>2. version + 1 \in Versions
    BY <1>1, VersionAssumption DEF Versions
  <1>3. JournalTypeOK'
    BY <1>1
  <1>4. HoldsRecord'
    <2>1. IsTop(version)'
      BY <1>1 DEF IsTop, Present
    <2>2. (version + 1 \in Versions)'
      BY <1>1, <1>2 DEF Versions
    <2>3. (files[version] \in {NONE, data})'
      BY <1>1 DEF HoldsRecord
    <2>4. QED
      BY <1>1, <2>1, <2>2, <2>3 DEF HoldsRecord
  <1>5. QED
    BY <1>1, <1>3, <1>4, FilesKept

LEMMA PublishStep == ASSUME JournalInv, Publish PROVE JournalInv'
  <1> USE DEF JournalInv, JournalTypeOK
  <1>1. CASE Raise
    BY <1>1, RaiseStep DEF Publish
  <1>2. CASE ~Raise
    <2>1. /\ pc = "publishing" /\ pc' = "verifying"
          /\ files' = [files EXCEPT ![version + 1] = target]
          /\ UNCHANGED <<created, version, data, target, sure>>
      BY <1>2 DEF Publish, loaded
    <2>2. /\ version + 1 \in Versions /\ target \in Values /\ target # NONE
          /\ IsTop(version) /\ files[0] # NONE /\ files[version] = data
          /\ data \in Removable => target \in Removable
      BY <2>1, ContentsAreFiles DEF HoldsRecord, IsTop, Present
    <2>3. version \in Nat /\ \A u \in Present : u \in Nat /\ u <= version
      BY <2>2, VersionAssumption DEF IsTop, Present, Versions
    <2>4. JournalTypeOK'
      BY <2>1, <2>2
    <2>5. Present' = Present \cup {version + 1}
      BY <2>1, <2>2 DEF Present
    <2>6. IsTop(version + 1)'
      BY <2>1, <2>3, <2>5 DEF IsTop
    <2>7. files'[version + 1] = target /\ \A u \in Present : files'[u] = files[u]
      BY <2>1, <2>2, <2>3 DEF Present
    <2>8. Finished'
      <3> SUFFICES ASSUME NEW u \in Present', NEW w \in Present', u < w, files'[u] \in Removable
                   PROVE  files'[w] \in Removable
        BY DEF Finished
      <3>1. u \in Present
        BY <2>3, <2>5
      <3>2. CASE w \in Present
        BY <3>1, <3>2, <2>7 DEF Finished
      <3>3. CASE w = version + 1
        <4>1. files[u] \in Removable
          BY <3>1, <2>7
        <4>2. files[version] \in Removable
          BY <4>1, <3>1, <2>2, <2>3 DEF Finished, IsTop
        <4>3. QED
          BY <4>2, <3>3, <2>2, <2>7
      <3>4. QED
        BY <3>2, <3>3, <2>5
    <2>9. Unborn'
      BY <2>1, <2>2, VersionAssumption DEF Unborn, Versions
    <2>10. HasTop'
      BY <2>1, <2>2, <2>6 DEF HasTop
    <2>11. files'[0] # NONE /\ files'[version] \in {NONE, data}
      BY <2>1, <2>2, <2>3, <2>7, VersionAssumption DEF Present, Versions, IsTop
    <2>12. HoldsRecord'
      BY <2>1, <2>2, <2>6, <2>7, <2>11 DEF HoldsRecord, Versions
    <2>13. QED
      BY <2>4, <2>8, <2>9, <2>10, <2>12
  <1>3. QED
    BY <1>1, <1>2

LEMMA AcceptStep == ASSUME JournalInv, Accept PROVE JournalInv'
  <1> USE DEF JournalInv, JournalTypeOK
  <1>1. CASE Raise
    BY <1>1, RaiseStep DEF Accept
  <1>2. CASE ~Raise
    <2>1. /\ pc = "verifying" /\ pc' = "cleaning" /\ version' = version + 1 /\ data' = target
          /\ UNCHANGED <<files, created, target, sure>>
      BY <1>2 DEF Accept
    <2>2. /\ version + 1 \in Versions /\ files[0] # NONE
          /\ IsTop(version + 1) /\ files[version + 1] = target
      BY <2>1 DEF HoldsRecord
    <2>3. JournalTypeOK'
      BY <2>1, <2>2
    <2>4. IsTop(version)'
      BY <2>1, <2>2 DEF IsTop, Present
    <2>5. HoldsRecord'
      BY <2>1, <2>2, <2>4 DEF HoldsRecord
    <2>6. QED
      BY <2>1, <2>3, <2>5, FilesKept
  <1>3. QED
    BY <1>1, <1>2
\* A file that is not the newest, nor the anchor of the others, may go.
LEMMA CleanOldStep == ASSUME JournalInv, NEW v \in Versions, CleanOld(v) PROVE JournalInv'
  <1> USE DEF JournalInv, JournalTypeOK
  <1>1. /\ pc = "cleaning" /\ v # 0 /\ v # version
        /\ files' = [files EXCEPT ![v] = NONE]
        /\ UNCHANGED <<created, pc, version, data, target, sure>>
    BY DEF CleanOld, Old, loaded
  <1>2. IsTop(version) /\ files[0] # NONE /\ files[version] = data
    BY <1>1 DEF HoldsRecord, IsTop, Present
  <1>3. Present' = Present \ {v} /\ \A u \in Present' : files'[u] = files[u]
    BY <1>1 DEF Present
  <1>4. JournalTypeOK'
    BY <1>1
  <1>5. IsTop(version)'
    BY <1>1, <1>2, <1>3 DEF IsTop
  <1>6. Finished'
    BY <1>3 DEF Finished
  <1>7. files'[0] # NONE /\ files'[version] = data
    BY <1>1, <1>2, VersionAssumption DEF Versions
  <1>8. Unborn' /\ HasTop'
    BY <1>1, <1>2, <1>5 DEF Unborn, HasTop, IsTop, Present
  <1>9. HoldsRecord'
    BY <1>1, <1>5, <1>7 DEF HoldsRecord
  <1>10. QED
    BY <1>4, <1>6, <1>8, <1>9

LEMMA FinishSaveStep == ASSUME JournalInv, FinishSave PROVE JournalInv'
  <1> USE DEF JournalInv, JournalTypeOK
  <1>1. CASE Raise
    BY <1>1, RaiseStep DEF FinishSave
  <1>2. CASE ~Raise
    <2>1. /\ pc = "cleaning" /\ pc' = "held"
          /\ UNCHANGED <<files, created, version, data, target>>
      BY <1>2 DEF FinishSave, loaded
    <2>2. JournalTypeOK'
      <3>1. sure' \in BOOLEAN /\ created' \in BOOLEAN
        BY <1>2, <2>1, Zenon DEF FinishSave
      <3>2. QED
        BY <2>1, <3>1
    <2>3. IsTop(version)'
      BY <2>1 DEF HoldsRecord, IsTop, Present
    <2>4. HoldsRecord'
      BY <2>1, <2>3 DEF HoldsRecord
    <2>5. QED
      BY <2>1, <2>2, <2>4, FilesKept
  <1>3. QED
    BY <1>1, <1>2

LEMMA StartRemoveStep == ASSUME JournalInv, StartRemove PROVE JournalInv'
  <1> USE DEF JournalInv, JournalTypeOK
  <1>1. /\ pc = "held" /\ pc' = "removing" /\ data \in Removable /\ files[version] = data
        /\ UNCHANGED <<files, created, version, data, target, sure>>
    BY DEF StartRemove, loaded
  <1>2. version \in Present
    BY <1>1, ContentsAreFiles, ValuesAssumption DEF Present
  <1>3. JournalTypeOK'
    BY <1>1
  <1>4. (version \in Present)'
    BY <1>1, <1>2 DEF Present
  <1>5. HoldsRecord'
    BY <1>1, <1>4 DEF HoldsRecord
  <1>6. QED
    BY <1>1, <1>3, <1>5, FilesKept

\* The anchor goes first, so no generation is the newest of a record any more.
LEMMA RemoveFileStep == ASSUME JournalInv, NEW v \in Versions, RemoveFile(v) PROVE JournalInv'
  <1> USE DEF JournalInv, JournalTypeOK
  <1>1. /\ pc = "removing" /\ v \in Present
        /\ v = 0 \/ files[0] = NONE
        /\ files' = [files EXCEPT ![v] = NONE]
        /\ UNCHANGED <<created, pc, version, data, target, sure>>
    BY DEF RemoveFile, InOrder, loaded
  <1>2. files'[0] = NONE
    BY <1>1, VersionAssumption DEF Versions
  <1>3. Present' = Present \ {v} /\ \A u \in Present' : files'[u] = files[u]
    BY <1>1 DEF Present
  <1>4. JournalTypeOK'
    BY <1>1
  <1>5. Unborn' /\ HasTop'
    BY <1>1, <1>2 DEF Unborn, HasTop
  <1>6. Finished'
    BY <1>3 DEF Finished
  <1>7. HoldsRecord'
    BY <1>1, <1>2 DEF HoldsRecord
  <1>8. QED
    BY <1>4, <1>5, <1>6, <1>7

LEMMA ReleaseStep ==
    ASSUME JournalInv, pc' = "free", UNCHANGED <<files, created, version, data, target, sure>>
    PROVE  JournalInv'
  <1> USE DEF JournalInv, JournalTypeOK
  <1>1. JournalTypeOK'
    OBVIOUS
  <1>2. HoldsRecord'
    BY DEF HoldsRecord
  <1>3. QED
    BY <1>1, <1>2, FilesKept

LEMMA JournalStep == JournalInv /\ [Next]_vars => JournalInv'
  <1> SUFFICES ASSUME JournalInv, [Next]_vars PROVE JournalInv'
    OBVIOUS
  <1>1. ASSUME NEW v \in Values, Create(v) PROVE JournalInv'
    BY <1>1, CreateStep
  <1>2. ASSUME NEW v \in Values, StartSave(v) PROVE JournalInv'
    BY <1>2, StartSaveStep
  <1>3. CASE Lock
    BY <1>3, LockStep
  <1>4. CASE Unlock \/ FinishRemove \/ Crash
    BY <1>4, ReleaseStep DEF Unlock, FinishRemove, Crash, loaded
  <1>5. CASE RefuseSave
    BY <1>5, RaiseStep DEF RefuseSave
  <1>6. CASE Publish
    BY <1>6, PublishStep
  <1>7. CASE Accept
    BY <1>7, AcceptStep
  <1>8. CASE FinishSave
    BY <1>8, FinishSaveStep
  <1>9. CASE StartRemove
    BY <1>9, StartRemoveStep
  <1>10. ASSUME NEW v \in Versions, CleanOld(v) PROVE JournalInv'
    BY <1>10, CleanOldStep
  <1>11. ASSUME NEW v \in Versions, RemoveFile(v) PROVE JournalInv'
    BY <1>11, RemoveFileStep
  <1>12. CASE UNCHANGED vars
    <2> USE DEF JournalInv, JournalTypeOK
    <2>1. UNCHANGED <<files, created, pc, version, data, target, sure>>
      BY <1>12 DEF vars, loaded
    <2>2. JournalTypeOK'
      BY <2>1
    <2>3. HoldsRecord'
      BY <2>1 DEF HoldsRecord, IsTop, Present
    <2>4. QED
      BY <2>1, <2>2, <2>3, FilesKept
  <1>13. QED
    BY <1>1, <1>2, <1>3, <1>4, <1>5, <1>6, <1>7, <1>8, <1>9, <1>10, <1>11, <1>12 DEF Next

\* The journal's files keep their types (the files of _parse_journal_name, the
\* fields of JournalRecord).
THEOREM JournalTypeCorrect == Spec => []JournalTypeOK
  <1>1. JournalInv => JournalTypeOK
    BY DEF JournalInv
  <1>2. QED
    BY <1>1, InitHolds, JournalStep, PTL DEF Spec

\* A save that did not raise is what the next reader finds (_save_record,
\* _latest_record), with any number of generations left behind.
THEOREM SaveIsLatest == Spec => []SureIsLatest
  <1>1. JournalInv => SureIsLatest
    BY DEF JournalInv, HoldsRecord, SureIsLatest, IsTop, Present
  <1>2. QED
    BY <1>1, InitHolds, JournalStep, PTL DEF Spec

(***************************************************************************)
(* The journal implements an atomic record                                 *)
(***************************************************************************)
LEMMA InitIsRecordInit == Init => Record!Init
  BY DEF Init, Record!Init, Latest, Holder

\* A version is no process, no missing record and no removed one.
LEMMA VersionExists ==
    ASSUME NEW n \in Versions, NEW v \in Values
    PROVE  [number |-> n, content |-> v] \notin {NONE, GONE}
  <1>1. n \in Nat
    BY VersionAssumption DEF Versions
  <1>2. QED
    BY <1>1, NoneAssumption

LEMMA HolderHolds ==
    ASSUME JournalInv, pc # "free"
    PROVE  /\ Holder # NONE
           /\ Holder.loaded = [number |-> version, content |-> data]
           /\ Holder.intent = IF pc = "publishing" THEN target ELSE NONE
  <1>1. version \in Nat /\ data \in Values /\ target \in Values \cup {NONE}
    BY VersionAssumption DEF JournalInv, JournalTypeOK, HoldsRecord, Versions
  <1>2. Holder \in [loaded : [number : Nat, content : Values], intent : Values \cup {NONE}]
    BY <1>1 DEF Holder
  <1>3. Holder # NONE
    BY <1>2, NoneAssumption
  <1>4. QED
    BY <1>3 DEF Holder

LEMMA LatestIsTop ==
    ASSUME JournalInv, NEW v \in Versions, IsTop(v), files[0] # NONE
    PROVE  /\ Latest = [number |-> v, content |-> files[v]]
           /\ files[v] \in Values /\ Latest \notin {NONE, GONE}
  <1>1. created /\ files[v] \in Values
    BY VersionAssumption DEF JournalInv, JournalTypeOK, Unborn, IsTop, Present, Versions
  <1>2. Latest = [number |-> v, content |-> files[v]]
    BY <1>1, TopIsUnique DEF Latest
  <1>3. QED
    BY <1>1, <1>2, VersionExists

LEMMA LatestKept == ASSUME UNCHANGED <<files, created>> PROVE Latest' = Latest
  BY DEF Latest, Top, IsTop, Present

LEMMA HolderKept ==
    ASSUME UNCHANGED <<version, data>>,
           pc # "free", pc' # "free", pc # "publishing", pc' # "publishing"
    PROVE  Holder' = Holder
  BY DEF Holder

\* What the process holds is the record, wherever its generation is the newest.
LEMMA HolderIsLatest ==
    ASSUME JournalInv, pc # "free", files[0] # NONE, IsTop(version)
    PROVE  Latest = [number |-> version, content |-> data] /\ Latest \notin {NONE, GONE}
  <1>1. version \in Versions /\ files[version] = data
    BY DEF JournalInv, JournalTypeOK, HoldsRecord, IsTop, Present
  <1>2. QED
    BY <1>1, LatestIsTop

LEMMA CreateIsCreate ==
    ASSUME JournalInv, NEW v \in Values, Create(v) PROVE Record!Create(v)
  <1> USE DEF JournalInv, JournalTypeOK
  <1>1. 0 \in Versions /\ v # NONE /\ ~created /\ \A u \in Versions : files[u] = NONE
    BY VersionAssumption, ContentsAreFiles DEF Create, Unborn, Versions
  <1>2. created' = TRUE /\ files' = [files EXCEPT ![0] = v] /\ pc = "free" /\ pc' = "free"
    BY DEF Create
  <1>3. IsTop(0)'
    BY <1>1, <1>2, VersionAssumption DEF Present, IsTop, Versions
  <1>4. Top' = 0
    BY <1>1, <1>3, NextTopIsUnique
  <1>5. Latest = NONE /\ Latest' = [number |-> 0, content |-> v]
    BY <1>1, <1>2, <1>4 DEF Latest
  <1>6. Holder = NONE /\ Holder' = NONE
    BY <1>2 DEF Holder
  <1>7. QED
    BY <1>5, <1>6 DEF Record!Create

LEMMA LockIsLoad == ASSUME JournalInv, Lock PROVE Record!Load
  <1>1. PICK v \in Versions : IsTop(v)
    BY DEF JournalInv, Lock, HasTop
  <1>2. Latest = [number |-> v, content |-> files[v]] /\ Latest \notin {NONE, GONE}
    BY <1>1, LatestIsTop DEF Lock
  <1>3. version' = v /\ data' = files[v]
    BY <1>1, TopIsUnique DEF Lock
  <1>4. Holder = NONE /\ Holder' = [loaded |-> Latest, intent |-> NONE]
    BY <1>2, <1>3 DEF Lock, Holder
  <1>5. Latest' = Latest
    BY LatestKept DEF Lock
  <1>6. QED
    BY <1>2, <1>4, <1>5 DEF Record!Load, Record!Exists

LEMMA StartSaveIsBegin ==
    ASSUME JournalInv, NEW v \in Values, StartSave(v) PROVE Record!Begin(v)
  <1>1. /\ pc = "held" /\ pc' = "publishing" /\ target' = v /\ files[0] # NONE /\ IsTop(version)
        /\ data \in Removable => v \in Removable
        /\ UNCHANGED <<files, created, version, data>>
    BY DEF StartSave, Follows, loaded
  <1>2. Latest = [number |-> version, content |-> data] /\ Latest \notin {NONE, GONE}
    BY <1>1, HolderIsLatest
  <1>3. Holder # NONE /\ Holder.loaded = Latest /\ Holder.intent = NONE
    BY <1>1, <1>2, HolderHolds
  <1>4. Holder' = [Holder EXCEPT !.intent = v]
    BY <1>1 DEF Holder
  <1>5. Latest' = Latest
    BY <1>1, LatestKept
  <1>6. QED
    BY <1>1, <1>2, <1>3, <1>4, <1>5 DEF Record!Begin, Record!Exists, Record!Idle

LEMMA RaiseIsGiveUp ==
    ASSUME JournalInv, Raise, pc \in {"held", "publishing", "verifying", "cleaning"}
    PROVE  [Record!Next]_<<Latest, Holder>>
  <1>1. pc' = "held" /\ UNCHANGED <<files, created, version, data>>
    BY DEF Raise, loaded
  <1>2. Latest' = Latest
    BY <1>1, LatestKept
  <1>3. CASE pc = "publishing"
    <2>1. Holder # NONE
      BY <1>3, HolderHolds
    <2>2. Holder' = [Holder EXCEPT !.intent = NONE]
      BY <1>1, <1>3 DEF Holder
    <2>3. QED
      BY <1>2, <2>1, <2>2 DEF Record!Next, Record!GiveUp
  <1>4. CASE pc # "publishing"
    BY <1>1, <1>2, <1>4, HolderKept
  <1>5. QED
    BY <1>3, <1>4

\* The published file is the next version, with the content that was to be saved.
LEMMA PublishIsSave == ASSUME JournalInv, Publish, ~Raise PROVE Record!Save
  <1>1. /\ pc = "publishing" /\ pc' = "verifying" /\ UNCHANGED <<created, version, data, target>>
        /\ files' = [files EXCEPT ![version + 1] = target]
    BY DEF Publish, loaded
  <1>2. /\ files \in [Versions -> Values \cup {NONE}] /\ files[0] # NONE
        /\ version \in Versions /\ version + 1 \in Versions /\ target \in Values /\ IsTop(version)
    BY <1>1 DEF JournalInv, JournalTypeOK, HoldsRecord
  <1>3. Latest = [number |-> version, content |-> data] /\ Latest \notin {NONE, GONE}
    BY <1>1, <1>2, HolderIsLatest
  <1>4. Holder # NONE /\ Holder.loaded = Latest /\ Holder.intent = target
    BY <1>1, <1>3, HolderHolds
  <1>5. Holder' = [Holder EXCEPT !.intent = NONE]
    BY <1>1 DEF Holder
  <1>6. Latest' = [number |-> version + 1, content |-> target]
    <2>1. PICK w \in Versions : w = version + 1
      BY <1>2
    <2>2. JournalInv'
      BY PublishStep
    <2>3. IsTop(w)'
      BY <1>1, <2>1, <2>2 DEF JournalInv, HoldsRecord, IsTop, Present
    <2>4. Top' = version + 1
      BY <2>1, <2>3, NextTopIsUnique
    <2>5. files'[0] # NONE /\ files'[version + 1] = target /\ created'
      BY <1>1, <1>2, <2>2, ContentsAreFiles, VersionAssumption
         DEF Versions, JournalInv, JournalTypeOK, Unborn
    <2>6. QED
      BY <2>4, <2>5 DEF Latest
  <1>7. QED
    BY <1>2, <1>3, <1>4, <1>5, <1>6 DEF Record!Save, Record!Exists

LEMMA AcceptIsFollow == ASSUME JournalInv, Accept, ~Raise PROVE Record!Follow
  <1>1. /\ pc = "verifying" /\ pc' = "cleaning" /\ version' = version + 1 /\ data' = target
        /\ UNCHANGED <<files, created>>
    BY DEF Accept
  <1>2. /\ version + 1 \in Versions /\ files[0] # NONE
        /\ IsTop(version + 1) /\ files[version + 1] = target
    BY <1>1 DEF JournalInv, HoldsRecord
  <1>3. Latest = [number |-> version + 1, content |-> target] /\ Latest \notin {NONE, GONE}
    BY <1>2, LatestIsTop
  <1>4. Holder # NONE /\ Holder.intent = NONE
    BY <1>1, HolderHolds
  <1>5. Holder' = [Holder EXCEPT !.loaded = Latest]
    BY <1>1, <1>3 DEF Holder
  <1>6. Latest' = Latest
    BY <1>1, LatestKept
  <1>7. QED
    BY <1>3, <1>4, <1>5, <1>6 DEF Record!Follow, Record!Exists, Record!Idle

LEMMA CleanOldIsNothing ==
    ASSUME JournalInv, NEW v \in Versions, CleanOld(v)
    PROVE  Latest' = Latest /\ Holder' = Holder
  <1> USE DEF JournalInv, JournalTypeOK
  <1>1. /\ pc = "cleaning" /\ v # 0 /\ v # version /\ files' = [files EXCEPT ![v] = NONE]
        /\ UNCHANGED <<created, pc, version, data>>
    BY DEF CleanOld, Old, loaded
  <1>2. version \in Versions /\ IsTop(version) /\ files[0] # NONE
    BY <1>1 DEF HoldsRecord
  <1>3. created
    BY <1>2, VersionAssumption DEF Unborn, Versions
  <1>4. PICK w \in Versions : w = version
    BY <1>2
  <1>5. IsTop(w)'
    BY <1>1, <1>2, <1>4 DEF IsTop, Present
  <1>6. Top' = version /\ Top = version
    BY <1>2, <1>4, <1>5, NextTopIsUnique, TopIsUnique
  <1>7. files'[0] # NONE /\ files'[version] = files[version]
    BY <1>1, <1>2, VersionAssumption DEF Versions
  <1>8. Latest' = Latest
    BY <1>1, <1>2, <1>3, <1>6, <1>7 DEF Latest
  <1>9. QED
    BY <1>1, <1>8, HolderKept

\* Once the anchor is gone the other files are no record.
LEMMA RemoveFileIsRemove ==
    ASSUME JournalInv, NEW v \in Versions, RemoveFile(v)
    PROVE  [Record!Next]_<<Latest, Holder>>
  <1> USE DEF JournalInv, JournalTypeOK
  <1>1. /\ pc = "removing" /\ v \in Present /\ (v = 0 \/ files[0] = NONE)
        /\ files' = [files EXCEPT ![v] = NONE]
        /\ UNCHANGED <<created, pc, version, data>>
    BY DEF RemoveFile, InOrder, loaded
  <1>2. files[v] # NONE /\ created
    BY <1>1 DEF Present, Unborn
  <1>3. 0 \in Versions /\ files'[0] = NONE
    BY <1>1, VersionAssumption DEF Versions
  <1>4. Latest' = GONE /\ Holder' = Holder
    BY <1>1, <1>2, <1>3, HolderKept DEF Latest
  <1>5. CASE files[0] = NONE
    BY <1>2, <1>4, <1>5 DEF Latest
  <1>6. CASE files[0] # NONE
    <2>1. version \in Present /\ files[version] = data /\ data \in Removable
      BY <1>1, <1>6 DEF HoldsRecord, Present
    <2>2. PICK w \in Versions : IsTop(w)
      BY <1>6 DEF HasTop
    <2>3. files[w] \in Removable
      <3>1. w \in Present /\ (w = version \/ version < w)
        BY <2>1, <2>2, VersionAssumption DEF IsTop, Versions
      <3>2. QED
        BY <2>1, <3>1 DEF Finished
    <2>4. Latest = [number |-> w, content |-> files[w]] /\ Latest \notin {NONE, GONE}
      BY <1>6, <2>2, LatestIsTop
    <2>5. Holder # NONE /\ Holder.intent = NONE /\ Holder.loaded.content = data
      BY <1>1, HolderHolds
    <2>6. QED
      BY <1>4, <2>1, <2>3, <2>4, <2>5
         DEF Record!Next, Record!Remove, Record!Exists, Record!Idle
  <1>7. QED
    BY <1>5, <1>6

LEMMA StepIsRecordStep == JournalInv /\ [Next]_vars => [Record!Next]_<<Latest, Holder>>
  <1> SUFFICES ASSUME JournalInv, [Next]_vars PROVE [Record!Next]_<<Latest, Holder>>
    OBVIOUS
  <1>1. ASSUME NEW v \in Values, Create(v) \/ StartSave(v) PROVE Record!Next
    BY <1>1, CreateIsCreate, StartSaveIsBegin DEF Record!Next
  <1>2. CASE Lock
    BY <1>2, LockIsLoad DEF Record!Next
  <1>3. CASE Unlock \/ FinishRemove \/ Crash
    <2>1. pc' = "free" /\ UNCHANGED <<files, created>>
      BY <1>3 DEF Unlock, FinishRemove, Crash
    <2>2. QED
      BY <2>1, LatestKept DEF Holder, Record!Next, Record!Release
  <1>4. CASE Publish /\ ~Raise
    BY <1>4, PublishIsSave DEF Record!Next
  <1>5. CASE Accept /\ ~Raise
    BY <1>5, AcceptIsFollow DEF Record!Next
  <1>6. CASE (RefuseSave \/ Publish \/ Accept \/ FinishSave) /\ Raise
    BY <1>6, RaiseIsGiveUp DEF RefuseSave, Publish, Accept, FinishSave
  <1>7. CASE (FinishSave /\ ~Raise) \/ StartRemove
    <2>1. /\ pc # "free" /\ pc' # "free" /\ pc # "publishing" /\ pc' # "publishing"
          /\ UNCHANGED <<files, created, version, data>>
      BY <1>7 DEF FinishSave, StartRemove, loaded
    <2>2. QED
      BY <2>1, LatestKept, HolderKept
  <1>8. ASSUME NEW v \in Versions, CleanOld(v) PROVE Latest' = Latest /\ Holder' = Holder
    BY <1>8, CleanOldIsNothing
  <1>9. ASSUME NEW v \in Versions, RemoveFile(v) PROVE [Record!Next]_<<Latest, Holder>>
    BY <1>9, RemoveFileIsRemove
  <1>10. CASE UNCHANGED vars
    <2>1. UNCHANGED <<files, created, pc, version, data, target>>
      BY <1>10 DEF vars, loaded
    <2>2. QED
      BY <2>1, LatestKept DEF Holder
  <1>11. RefuseSave => Raise
    BY DEF RefuseSave
  <1>12. QED
    BY <1>1, <1>2, <1>3, <1>4, <1>5, <1>6, <1>7, <1>8, <1>9, <1>10, <1>11 DEF Next

\* The files of the journal act as one record: each save installs its own
\* content over the version it was made from, a removal is final, and nothing
\* else changes the record, whichever step of a save, a cleanup or a removal
\* fails or crashes (_save_record, _cleanup_old_generations, _remove_record).
THEOREM JournalIsAtomic == Spec => RecordSpec
  BY InitHolds, JournalStep, InitIsRecordInit, StepIsRecordStep,
     PTL DEF Spec, RecordSpec, Record!Spec

(***************************************************************************)
(* The registry of exported files                                          *)
(***************************************************************************)
\* File identities are given out once; a file keeps its own, and what a user
\* makes of it is no exported file.
IdsSound ==
    /\ \A m \in made : m.id <= filesMade
    /\ \A m, n \in made : m.id = n.id => m = n
    /\ \A q \in Paths : disk[q] # Absent => disk[q].id <= filesMade
    /\ \A q \in Paths, m \in made :
         disk[q] # Absent /\ disk[q].id = m.id => disk[q].data \in {m.data, NoOne}
    /\ \A i \in kept : i <= filesMade

\* What a request knows of the file it makes.
RequestOK(r) ==
    /\ r.at \in {"published", "checked", "remove"} => r.file # Absent
    /\ r.at \in {"reserve", "copy", "copied", "staged"} => r.file = Absent
    /\ r.at \in {"reserve", "copy", "staged", "published", "checked"} => r.data = r.want
    /\ r.at \in {"published", "checked"} => r.file.data = r.data
    /\ r.at \in {"copy", "copied"} => r.from # Absent
    /\ r.from # Absent => r.from.file.data = r.want

RequestsSound == \A p \in Procs : proc[p] # Idle => RequestOK(proc[p])

\* A file that a request has made but not yet reported is at its path or gone,
\* and nobody else has it.
PendingOK(p) ==
    /\ \A q \in Paths : disk[q] = proc[p].file => q = proc[p].path
    /\ proc[p].file.id \notin kept
    /\ \A t \in Tokens, q \in Paths :
         IsCreated(manifest[t][q]) => manifest[t][q].file # proc[p].file
    /\ \A o \in Procs \ {p} : proc[o] # Idle => proc[o].file # proc[p].file
    /\ proc[p].at = "discard" =>
         proc[p].file.id \in excused \/ \A q \in Paths : disk[q] # proc[p].file

PendingSound ==
    \A p \in Procs : proc[p] # Idle /\ proc[p].file # Absent => PendingOK(p)

\* A registered file is registered once and was not released.
RecordsSound ==
    \A t \in Tokens, q \in Paths : IsCreated(manifest[t][q]) =>
        /\ manifest[t][q].file.id \notin kept
        /\ \A u \in Tokens, r \in Paths :
             IsCreated(manifest[u][r]) /\ manifest[u][r].file = manifest[t][q].file =>
               u = t /\ r = q

OwnershipInv ==
    /\ OwnershipTypeOK
    /\ IdsSound
    /\ RequestsSound
    /\ PendingSound
    /\ RecordsSound
    /\ ReportedIsRegistered
    /\ ReportedIsReviewed
    /\ FailureLeavesNothing

LEMMA OwnershipInitHolds == OwnershipInit => OwnershipInv
<1> SUFFICES ASSUME OwnershipInit PROVE OwnershipInv
  OBVIOUS
<1>1. OwnershipTypeOK
  BY BoundsAreNumbers DEF OwnershipInit, OwnershipTypeOK
<1>2. IdsSound /\ RequestsSound /\ PendingSound
  BY DEF OwnershipInit, IdsSound, RequestsSound, PendingSound
<1>3. RecordsSound
  BY DEF OwnershipInit, RecordsSound, IsCreated
<1>4. ReportedIsRegistered /\ ReportedIsReviewed /\ FailureLeavesNothing
  BY DEF OwnershipInit, ReportedIsRegistered, ReportedIsReviewed, FailureLeavesNothing
<1> QED
  BY <1>1, <1>2, <1>3, <1>4 DEF OwnershipInv

\* A request that is under way has the fields of one.
LEMMA RequestType ==
    ASSUME OwnershipTypeOK, NEW p \in Procs, proc[p] # Idle
    PROVE  proc[p] \in RequestOf(made)
  BY DEF OwnershipTypeOK

\* A record names a file that the engine made.
LEMMA RecordType ==
    ASSUME OwnershipTypeOK, NEW t \in Tokens, NEW q \in Paths, IsCreated(manifest[t][q])
    PROVE  manifest[t][q].file \in made /\ manifest[t][q].kind \in Kinds
  BY DEF OwnershipTypeOK, IsCreated, RecordOf

\* A made file is a file.
LEMMA FileType ==
    ASSUME OwnershipTypeOK, NEW m \in made
    PROVE  m \in Files /\ m.id \in Nat /\ m # Absent
  BY AbsentAssumption, BoundsAreNumbers DEF OwnershipTypeOK, Files, FileIds

\* The step of a request keeps its type: it moves to another point of the
\* request, or ends it.
LEMMA GotoType ==
    ASSUME OwnershipTypeOK, NEW p \in Procs, proc[p] # Idle,
           \/ Answer(p)
           \/ \E step \in Steps : Goto(p, step)
           \/ \E step \in Steps, text \in Digests \cup {NoOne} :
                proc' = [proc EXCEPT ![p] = [@ EXCEPT !.at = step, !.data = text]]
    PROVE  proc' \in [Procs -> RequestOf(made) \cup {Idle}]
<1>1. proc[p] \in RequestOf(made) /\ proc \in [Procs -> RequestOf(made) \cup {Idle}]
  BY RequestType DEF OwnershipTypeOK
<1>2. CASE Answer(p)
  BY <1>1, <1>2 DEF Answer
<1>3. ASSUME NEW step \in Steps, Goto(p, step)
      PROVE  proc' \in [Procs -> RequestOf(made) \cup {Idle}]
  <2>1. [proc[p] EXCEPT !.at = step] \in RequestOf(made)
    BY <1>1 DEF RequestOf
  <2> QED
    BY <1>1, <1>3, <2>1 DEF Goto
<1>4. ASSUME NEW step \in Steps, NEW text \in Digests \cup {NoOne},
             proc' = [proc EXCEPT ![p] = [@ EXCEPT !.at = step, !.data = text]]
      PROVE  proc' \in [Procs -> RequestOf(made) \cup {Idle}]
  <2>1. [proc[p] EXCEPT !.at = step, !.data = text] \in RequestOf(made)
    BY <1>1 DEF RequestOf
  <2> QED
    BY <1>1, <1>4, <2>1
<1> QED
  BY <1>2, <1>3, <1>4

\* So does a record that one of the locked sections writes.
LEMMA RecordUpdate ==
    ASSUME OwnershipTypeOK, NEW t \in Tokens, NEW q \in Paths, NEW v,
           v \in RecordOf(made) \cup {Absent},
           manifest' = [manifest EXCEPT ![t][q] = v]
    PROVE  manifest' \in [Tokens -> [Paths -> RecordOf(made) \cup {Absent}]]
<1>1. manifest[t] \in [Paths -> RecordOf(made) \cup {Absent}]
  BY DEF OwnershipTypeOK
<1>2. [manifest[t] EXCEPT ![q] = v] \in [Paths -> RecordOf(made) \cup {Absent}]
  BY <1>1
<1>3. manifest' = [manifest EXCEPT ![t] = [manifest[t] EXCEPT ![q] = v]]
  OBVIOUS
<1> QED
  BY <1>2, <1>3 DEF OwnershipTypeOK

(***************************************************************************)
(* The ways the registry may change                                        *)
(***************************************************************************)
\* A request begins.
Begins(p) ==
    /\ proc[p] = Idle
    /\ \E r \in RequestOf(made) : RequestOK(r) /\ r.file = Absent /\ proc' = [proc EXCEPT ![p] = r]
    /\ UNCHANGED <<disk, source, manifest, stale, made, given, kept, excused, filesMade, edits>>

\* A request goes on with the file it has, if any, or ends; it gives a file up
\* only when that is excused.
Proceeds(p) ==
    \/ /\ proc' = [proc EXCEPT ![p] = Idle]
       /\ proc[p].file # Absent => proc[p].at = "discard" \/ proc[p].file.id \in excused'
    \/ \E r \in RequestOf(made) :
         /\ proc' = [proc EXCEPT ![p] = r]
         /\ RequestOK(r) /\ r.file = proc[p].file /\ r.path = proc[p].path
         /\ r.at = "discard" /\ r.file # Absent => r.file.id \in excused'

\* No record of a file that may be there is written over, and none is made.
KeepsRecords ==
    \/ UNCHANGED manifest
    \/ \E t \in Tokens, q \in Paths, v \in RecordOf(made) \cup {Absent} :
         /\ ~IsCreated(v)
         /\ disk[q] = Absent \/ ~IsCreated(manifest[t][q])
         /\ manifest' = [manifest EXCEPT ![t][q] = v]

Moves(p) ==
    /\ proc[p] # Idle
    /\ Proceeds(p) /\ KeepsRecords
    /\ stale' \subseteq Tokens
    /\ excused \subseteq excused' /\ excused' \subseteq FileIds
    /\ UNCHANGED <<disk, source, made, given, kept, filesMade, edits>>

\* A new file appears at the free path of a request.
Publishes(p) ==
    LET file == [id |-> Fresh, data |-> proc[p].data]
    IN /\ proc[p] # Idle /\ proc[p].at = "staged"
       /\ disk[proc[p].path] = Absent
       /\ HasFresh
       /\ disk' = [disk EXCEPT ![proc[p].path] = file]
       /\ made' = made \cup {file}
       /\ filesMade' = Fresh
       /\ proc' = [proc EXCEPT ![p].at = "published", ![p].file = file]
       /\ UNCHANGED <<source, manifest, stale, given, kept, excused, edits>>

\* A request ends when its file is registered, and reported unless its process
\* ends before that.
Registers(p) ==
    LET r == proc[p]
        report == [file |-> r.file, token |-> r.token, want |-> r.want]
    IN /\ r # Idle /\ r.at = "checked"
       /\ ~IsCreated(manifest[r.token][r.path])
       /\ manifest' = [manifest EXCEPT ![r.token][r.path] = Created(r.kind, r.file)]
       /\ \/ given' = given \cup {report} /\ UNCHANGED excused
          \/ given' = given /\ excused' = excused \cup {r.file.id}
       /\ stale' \subseteq Tokens
       /\ proc' = [proc EXCEPT ![p] = Idle]
       /\ UNCHANGED <<disk, source, made, kept, filesMade, edits>>

\* A request takes its unreported file away again.
Removes(p) ==
    /\ proc[p] # Idle /\ proc[p].at = "remove"
    /\ disk[proc[p].path] = proc[p].file
    /\ disk' = [disk EXCEPT ![proc[p].path] = Absent]
    /\ proc' = [proc EXCEPT ![p].at = "discard"]
    /\ UNCHANGED <<source, manifest, stale, made, given, kept, excused, filesMade, edits>>

\* A cleanup deletes files of a token and drops records; the record of a file
\* that is still there stays.
Deletes(t, gone, keep) ==
    /\ gone \subseteq Deletable(t)
    /\ Deletable(t) \ gone \subseteq keep
    /\ disk' = [q \in Paths |-> IF q \in gone THEN Absent ELSE disk[q]]
    /\ manifest' = [manifest EXCEPT ![t] =
                      [q \in Paths |-> IF q \in keep THEN manifest[t][q] ELSE Absent]]
    /\ stale' \subseteq Tokens
    /\ UNCHANGED <<source, proc, made, given, kept, excused, filesMade, edits>>

\* The user works on the files, or on the source.
Edits == (\E q \in Paths : UserEdits(q)) \/ (\E d \in Digests : UserWritesSource(d))

\* What an edit leaves at a path is nothing, or a file that is no export.
EditsTo(q, x) ==
    /\ disk' = [disk EXCEPT ![q] = x]
    /\ x # Absent => /\ x.id <= filesMade' /\ x.data = NoOne /\ x \notin made
                     /\ \A m \in made : x.id = m.id => disk[q].id = m.id

\* What a request is about when it begins.
LEMMA BeginsRequest ==
    ASSUME OwnershipTypeOK, NEW p \in Procs, NEW kind \in Kinds, NEW t \in Tokens, NEW q \in Paths,
           NEW d \in Digests \cup {NoOne}, NEW from \in [path : Paths, file : made] \cup {Absent},
           from # Absent => from.file.data = d,
           proc[p] = Idle,
           Begin(p, kind, t, q, d, d, from),
           UNCHANGED <<disk, source, manifest, stale, made, given, kept, excused, filesMade, edits>>
    PROVE  Begins(p)
<1> DEFINE r == [at |-> "reserve", kind |-> kind, token |-> t, path |-> q,
                 data |-> d, want |-> d, from |-> from, file |-> Absent]
<1>1. r \in RequestOf(made)
  BY DEF RequestOf, Steps
<1>2. RequestOK(r)
  BY DEF RequestOK
<1>3. proc' = [proc EXCEPT ![p] = r]
  BY DEF Begin
<1>4. r.file = Absent
  OBVIOUS
<1> HIDE DEF r
<1> QED
  BY <1>1, <1>2, <1>3, <1>4 DEF Begins

LEMMA StartSteps ==
    ASSUME OwnershipInv, NEW p \in Procs, NEW t \in Tokens, NEW q \in Paths,
           \/ \E d \in Digests : StartExport(p, t, q, d) \/ StartIndex(p, t, q, d)
           \/ \E pt \in Tokens, pq \in Paths : StartPublish(p, t, q, pt, pq)
    PROVE  Begins(p)
<1>0. OwnershipTypeOK
  BY DEF OwnershipInv
<1>1. ASSUME NEW d \in Digests, StartExport(p, t, q, d)
      PROVE  Begins(p)
  <2>1. Begin(p, "pdf", t, q, d, d, Absent)
    BY <1>1 DEF StartExport, Snapshot
  <2> QED
    BY <1>0, <1>1, <2>1, BeginsRequest DEF StartExport, Kinds
<1>2. ASSUME NEW d \in Digests, StartIndex(p, t, q, d)
      PROVE  Begins(p)
  BY <1>0, <1>2, BeginsRequest DEF StartIndex, Kinds
<1>3. ASSUME NEW pt \in Tokens, NEW pq \in Paths, StartPublish(p, t, q, pt, pq)
      PROVE  Begins(p)
  <2> DEFINE f == manifest[pt][pq].file
             from == [path |-> pq, file |-> f]
  <2>1. f \in made
    BY <1>0, <1>3, RecordType DEF StartPublish
  <2>2. f.data \in Digests \cup {NoOne}
    BY <1>0, <2>1, FileType DEF Files
  <2>3. from \in [path : Paths, file : made]
    BY <2>1
  <2>4. Begin(p, "pdf", t, q, f.data, f.data, from)
    BY <1>3 DEF StartPublish
  <2>5. from.file.data = f.data
    OBVIOUS
  <2> HIDE DEF f, from
  <2> QED
    BY <1>0, <1>3, <2>2, <2>3, <2>4, <2>5, BeginsRequest DEF StartPublish, Kinds
<1> QED
  BY <1>1, <1>2, <1>3

\* A request at one point that goes to another keeps its file and its path.
LEMMA GotoProceeds ==
    ASSUME OwnershipInv, NEW p \in Procs, proc[p] # Idle, NEW step \in Steps, Goto(p, step),
           step \in {"copy", "copied", "staged"} => proc[p].file = Absent,
           step \in {"copy", "staged"} => proc[p].data = proc[p].want,
           step = "copy" => proc[p].from # Absent,
           step = "checked" => proc[p].at = "published",
           step = "remove" => proc[p].file # Absent,
           step = "discard" => proc[p].file = Absent \/ proc[p].file.id \in excused',
           step \notin {"reserve", "copied", "published"}
    PROVE  Proceeds(p)
<1> DEFINE r == [proc[p] EXCEPT !.at = step]
<1>1. proc[p] \in RequestOf(made)
  BY RequestType DEF OwnershipInv
<1>2. RequestOK(proc[p])
  BY DEF OwnershipInv, RequestsSound
<1>3. r \in RequestOf(made)
  BY <1>1 DEF RequestOf
<1>4. /\ r.at = step /\ r.file = proc[p].file /\ r.path = proc[p].path
      /\ r.data = proc[p].data /\ r.want = proc[p].want /\ r.from = proc[p].from
  BY <1>1 DEF RequestOf
<1>5. proc' = [proc EXCEPT ![p] = r]
  BY DEF Goto
<1> HIDE DEF r
<1>6. RequestOK(r)
  BY <1>2, <1>4 DEF RequestOK, Steps
<1>7. r.at = "discard" /\ r.file # Absent => r.file.id \in excused'
  BY <1>4
<1> QED
  BY <1>3, <1>4, <1>5, <1>6, <1>7, Zenon DEF Proceeds

\* The frame of the steps that change a request and nothing else.
Frame == UNCHANGED <<disk, source, stale, made, given, kept, filesMade, edits>>

LEMMA MovesFrame ==
    ASSUME OwnershipInv, NEW p \in Procs, proc[p] # Idle, Proceeds(p), KeepsRecords, Frame,
           UNCHANGED excused \/ excused' = excused \cup {proc[p].file.id},
           proc[p].file = Absent => UNCHANGED excused
    PROVE  Moves(p)
<1>1. excused \subseteq FileIds /\ stale \subseteq Tokens
  BY DEF OwnershipInv, OwnershipTypeOK
<1>2. proc[p].file # Absent => proc[p].file.id \in FileIds
  BY RequestType DEF OwnershipInv, OwnershipTypeOK, RequestOf, Files
<1> QED
  BY <1>1, <1>2 DEF Moves, Frame

\* Taking a reservation, and taking it back, write over no registered file that
\* is there.
LEMMA ReserveMoves ==
    ASSUME OwnershipInv, NEW p \in Procs, proc[p] # Idle, Reserve(p)
    PROVE  Moves(p)
<1>1. proc[p] \in RequestOf(made) /\ RequestOK(proc[p])
  BY RequestType DEF OwnershipInv, RequestsSound
<1>2. /\ proc[p].at = "reserve" /\ proc[p].file = Absent
      /\ proc[p].data = proc[p].want
      /\ proc[p].kind \in Kinds /\ proc[p].token \in Tokens /\ proc[p].path \in Paths
  BY <1>1 DEF Reserve, RequestOK, RequestOf
<1>3. Frame /\ UNCHANGED excused
  BY DEF Reserve, Frame
<1>4. CASE Fail(p) /\ UNCHANGED manifest
  <2>1. CASE Answer(p)
    <3>1. Proceeds(p)
      BY <1>2, <2>1 DEF Proceeds, Answer
    <3> QED
      BY <1>2, <1>3, <1>4, <3>1, MovesFrame DEF KeepsRecords
  <2>2. CASE Goto(p, "discard")
    <3>1. Proceeds(p)
      BY <1>2, <2>2, GotoProceeds DEF Steps
    <3> QED
      BY <1>2, <1>3, <1>4, <3>1, MovesFrame DEF KeepsRecords
  <2> QED
    BY <1>4, <2>1, <2>2 DEF Fail
<1>5. ASSUME disk[proc[p].path] = Absent,
             manifest' = [manifest EXCEPT ![proc[p].token][proc[p].path] = Reserved(proc[p].kind)],
             Goto(p, IF proc[p].from = Absent THEN "staged" ELSE "copy")
      PROVE  Moves(p)
  <2>1. Proceeds(p)
    <3>1. CASE proc[p].from = Absent
      BY <1>2, <1>5, <3>1, GotoProceeds DEF Steps
    <3>2. CASE proc[p].from # Absent
      BY <1>2, <1>5, <3>2, GotoProceeds DEF Steps
    <3> QED
      BY <3>1, <3>2
  <2>2. Reserved(proc[p].kind) \in RecordOf(made) /\ ~IsCreated(Reserved(proc[p].kind))
    BY <1>2 DEF Reserved, RecordOf, IsCreated
  <2>3. KeepsRecords
    BY <1>2, <1>5, <2>2, Zenon DEF KeepsRecords
  <2> QED
    BY <1>2, <1>3, <2>1, <2>3, MovesFrame
<1> QED
  BY <1>4, <1>5 DEF Reserve

LEMMA CopyMoves ==
    ASSUME OwnershipInv, NEW p \in Procs, proc[p] # Idle,
           FailWriting(p) \/ CopyPreview(p) \/ CheckPreview(p)
    PROVE  Moves(p)
<1>1. proc[p] \in RequestOf(made) /\ RequestOK(proc[p])
  BY RequestType DEF OwnershipInv, RequestsSound
<1>2. /\ proc[p].at \in {"staged", "copy", "copied"} /\ proc[p].file = Absent
      /\ Frame /\ UNCHANGED excused /\ KeepsRecords
  BY <1>1 DEF FailWriting, CopyPreview, CheckPreview, RequestOK, Frame, KeepsRecords
<1>3. Goto(p, "discard") => Moves(p)
  <2> SUFFICES ASSUME Goto(p, "discard") PROVE Moves(p)
    OBVIOUS
  <2>1. Proceeds(p)
    BY <1>2, GotoProceeds DEF Steps
  <2> QED
    BY <1>2, <2>1, MovesFrame
<1>4. CASE FailWriting(p)
  BY <1>3, <1>4 DEF FailWriting
<1>5. CASE CheckPreview(p)
  <2>1. CASE ~(Owned(proc[p].from.path, proc[p].from.file) /\ proc[p].data = proc[p].from.file.data)
    BY <1>3, <1>5, <2>1 DEF CheckPreview
  <2>2. CASE proc[p].data = proc[p].from.file.data /\ Goto(p, "staged")
    <3>1. proc[p].data = proc[p].want
      BY <1>1, <1>5, <2>2 DEF RequestOK, CheckPreview
    <3>2. Proceeds(p)
      BY <1>2, <2>2, <3>1, GotoProceeds DEF Steps
    <3> QED
      BY <1>2, <3>2, MovesFrame
  <2> QED
    BY <1>5, <2>1, <2>2 DEF CheckPreview
<1>6. CASE CopyPreview(p)
  <2>1. CASE disk[proc[p].from.path] = Absent
    <3>1. Goto(p, "discard")
      BY <1>6, <2>1 DEF CopyPreview, Goto
    <3> QED
      BY <1>3, <3>1
  <2>2. CASE disk[proc[p].from.path] # Absent
    <3> DEFINE d == disk[proc[p].from.path].data
               r == [proc[p] EXCEPT !.at = "copied", !.data = d]
    <3>1. proc[p].from # Absent
      BY <1>1, <1>6 DEF RequestOK, CopyPreview
    <3>2. proc[p].from.path \in Paths
      BY <1>1, <3>1 DEF RequestOf
    <3>3. d \in Digests \cup {NoOne}
      BY <2>2, <3>2 DEF OwnershipInv, OwnershipTypeOK, Files
    <3>4. proc' = [proc EXCEPT ![p] = r]
      BY <1>6, <2>2 DEF CopyPreview
    <3> HIDE DEF d
    <3>5. r \in RequestOf(made)
      BY <1>1, <3>3 DEF RequestOf, Steps
    <3>6. /\ r.at = "copied" /\ r.file = proc[p].file /\ r.path = proc[p].path
          /\ r.want = proc[p].want /\ r.from = proc[p].from
      BY <1>1 DEF RequestOf
    <3> HIDE DEF r
    <3>7. RequestOK(r)
      BY <1>1, <1>2, <3>1, <3>6 DEF RequestOK
    <3>8. Proceeds(p)
      BY <3>4, <3>5, <3>6, <3>7, Zenon DEF Proceeds
    <3> QED
      BY <1>2, <3>8, MovesFrame
  <2> QED
    BY <2>1, <2>2
<1> QED
  BY <1>4, <1>5, <1>6

LEMMA PublishSteps ==
    ASSUME OwnershipInv, NEW p \in Procs, proc[p] # Idle, PublishFile(p)
    PROVE  Moves(p) \/ Publishes(p)
<1>1. RequestOK(proc[p])
  BY DEF OwnershipInv, RequestsSound
<1>2. CASE FreeFor(proc[p].path)
  BY <1>2 DEF PublishFile, Publishes, FreeFor
<1>3. CASE ~FreeFor(proc[p].path)
  <2>1. /\ proc[p].file = Absent /\ Frame /\ UNCHANGED excused /\ KeepsRecords
        /\ Goto(p, "discard")
    BY <1>1, <1>3 DEF PublishFile, RequestOK, Frame, KeepsRecords
  <2>2. Proceeds(p)
    BY <2>1, GotoProceeds DEF Steps
  <2> QED
    BY <2>1, <2>2, MovesFrame
<1> QED
  BY <1>2, <1>3

LEMMA CheckMoves ==
    ASSUME OwnershipInv, NEW p \in Procs, proc[p] # Idle, CheckPublished(p)
    PROVE  Moves(p)
<1>1. RequestOK(proc[p])
  BY DEF OwnershipInv, RequestsSound
<1>2. /\ proc[p].at = "published" /\ proc[p].file # Absent
      /\ Frame /\ KeepsRecords
  BY <1>1 DEF CheckPublished, RequestOK, Frame, KeepsRecords
<1>3. ASSUME NEW step \in {"checked", "remove"}, Goto(p, step), UNCHANGED excused
      PROVE  Moves(p)
  <2>1. Proceeds(p)
    BY <1>2, <1>3, GotoProceeds DEF Steps
  <2> QED
    BY <1>2, <1>3, <2>1, MovesFrame
<1>4. ASSUME Goto(p, "discard"), excused' = excused \cup {proc[p].file.id}
      PROVE  Moves(p)
  <2>1. Proceeds(p)
    BY <1>2, <1>4, GotoProceeds DEF Steps
  <2> QED
    BY <1>2, <1>4, <2>1, MovesFrame
<1> QED
  BY <1>3, <1>4 DEF CheckPublished

LEMMA MarkSteps ==
    ASSUME OwnershipInv, NEW p \in Procs, proc[p] # Idle, MarkCreated(p)
    PROVE  Moves(p) \/ Registers(p)
<1>1. RequestOK(proc[p]) /\ stale \subseteq Tokens
  BY DEF OwnershipInv, RequestsSound, OwnershipTypeOK
<1>2. /\ proc[p].at = "checked" /\ proc[p].file # Absent
      /\ UNCHANGED <<disk, source, stale, made, kept, excused, filesMade, edits>>
  BY <1>1 DEF MarkCreated, RequestOK
<1>3. ASSUME Goto(p, "remove"), UNCHANGED <<manifest, given>>
      PROVE  Moves(p)
  <2>1. Proceeds(p)
    BY <1>2, <1>3, GotoProceeds DEF Steps
  <2> QED
    BY <1>2, <1>3, <2>1, MovesFrame DEF Frame, KeepsRecords
<1>4. ASSUME Markable(manifest[proc[p].token][proc[p].path]),
             manifest' = [manifest EXCEPT ![proc[p].token][proc[p].path] =
                            Created(proc[p].kind, Identity(p))],
             given' = given \cup {[file |-> proc[p].file, token |-> proc[p].token,
                                   want |-> proc[p].want]},
             Answer(p)
      PROVE  Registers(p)
  <2>1. ~IsCreated(manifest[proc[p].token][proc[p].path])
    BY <1>4 DEF Markable, Reserved, IsCreated
  <2> QED
    BY <1>1, <1>2, <1>4, <2>1 DEF Registers, Identity, Answer
<1> QED
  BY <1>3, <1>4 DEF MarkCreated

LEMMA RemoveSteps ==
    ASSUME OwnershipInv, NEW p \in Procs, proc[p] # Idle, RemovePublished(p)
    PROVE  Moves(p) \/ Removes(p)
<1>1. RequestOK(proc[p])
  BY DEF OwnershipInv, RequestsSound
<1>2. /\ proc[p].at = "remove" /\ proc[p].file # Absent /\ Goto(p, "discard")
      /\ UNCHANGED <<source, manifest, stale, made, given, kept, filesMade, edits>>
  BY <1>1 DEF RemovePublished, RequestOK
<1>3. ASSUME UNCHANGED disk, excused' = excused \cup {proc[p].file.id}
      PROVE  Moves(p)
  <2>1. Proceeds(p)
    BY <1>2, <1>3, GotoProceeds DEF Steps
  <2> QED
    BY <1>2, <1>3, <2>1, MovesFrame DEF Frame, KeepsRecords
<1>4. ASSUME Owned(proc[p].path, proc[p].file), UNCHANGED excused,
             disk' = [disk EXCEPT ![proc[p].path] = Absent]
      PROVE  Removes(p)
  BY <1>2, <1>4 DEF Removes, Owned, Goto
<1> QED
  BY <1>3, <1>4 DEF RemovePublished

\* A reservation that is discarded is no record of a file.
LEMMA DiscardedKeeps ==
    ASSUME NEW t \in Tokens, NEW q \in Paths, manifest' = Discarded(t, q)
    PROVE  KeepsRecords
<1>1. CASE Discardable(manifest[t][q])
  <2>1. ~IsCreated(manifest[t][q]) /\ ~IsCreated(Absent)
    BY <1>1 DEF Discardable, IsReserved, IsCreated
  <2>2. manifest' = [manifest EXCEPT ![t][q] = Absent]
    BY <1>1 DEF Discarded
  <2> QED
    BY <2>1, <2>2, Zenon DEF KeepsRecords
<1>2. CASE ~Discardable(manifest[t][q])
  BY <1>2 DEF Discarded, KeepsRecords
<1> QED
  BY <1>1, <1>2

LEMMA DiscardMoves ==
    ASSUME OwnershipInv, NEW p \in Procs, proc[p] # Idle, Discard(p)
    PROVE  Moves(p)
<1>1. proc[p].token \in Tokens /\ proc[p].path \in Paths
  BY RequestType DEF OwnershipInv, RequestOf
<1>2. KeepsRecords
  BY <1>1, DiscardedKeeps DEF Discard, KeepsRecords
<1>3. Proceeds(p)
  BY DEF Discard, Answer, Proceeds
<1> QED
  BY <1>2, <1>3, MovesFrame DEF Discard, Frame

\* What a process that ends leaves behind.
LEMMA EndSteps ==
    ASSUME OwnershipInv, NEW p \in Procs, proc[p] # Idle, ProcessEnds(p)
    PROVE  Moves(p) \/ Registers(p)
<1> DEFINE r == proc[p]
           t == r.token
           q == r.path
           old == manifest[t][q]
<1>1. /\ r \in RequestOf(made) /\ RequestOK(r)
      /\ t \in Tokens /\ q \in Paths /\ r.kind \in Kinds
  BY RequestType DEF OwnershipInv, RequestsSound, RequestOf
<1>2. /\ excused' = IF r.file = Absent THEN excused ELSE excused \cup {r.file.id}
      /\ Answer(p)
      /\ UNCHANGED <<disk, source, made, given, kept, filesMade, edits>>
      /\ stale' \subseteq Tokens
  BY <1>1 DEF ProcessEnds, OwnershipInv, OwnershipTypeOK
<1>3. Proceeds(p)
  BY <1>2 DEF Proceeds, Answer
<1>4. excused \subseteq excused' /\ excused' \subseteq FileIds
  BY <1>1, <1>2 DEF OwnershipInv, OwnershipTypeOK, RequestOf, Files
<1>5. KeepsRecords => Moves(p)
  BY <1>2, <1>3, <1>4 DEF Moves
<1>6. CASE UNCHANGED manifest
  BY <1>5, <1>6 DEF KeepsRecords
<1>7. ASSUME r.at \in {"reserve", "checked", "discard"}, manifest' = SectionOf(p)
      PROVE  Moves(p) \/ Registers(p)
  <2>1. CASE r.at = "reserve" /\ disk[q] = Absent
    <3>1. manifest' = [manifest EXCEPT ![t][q] = Reserved(r.kind)]
      BY <1>7, <2>1 DEF SectionOf
    <3>2. Reserved(r.kind) \in RecordOf(made) /\ ~IsCreated(Reserved(r.kind))
      BY <1>1 DEF Reserved, RecordOf, IsCreated
    <3>3. KeepsRecords
      BY <1>1, <2>1, <3>1, <3>2, Zenon DEF KeepsRecords
    <3> QED
      BY <1>5, <3>3
  <2>2. CASE r.at = "checked" /\ Markable(old)
    <3>1. manifest' = [manifest EXCEPT ![t][q] = Created(r.kind, r.file)]
      BY <1>7, <2>2 DEF SectionOf, Identity
    <3>2. ~IsCreated(old)
      BY <2>2 DEF Markable, Reserved, IsCreated
    <3>3. r.file # Absent
      BY <1>1, <2>2 DEF RequestOK
    <3> QED
      BY <1>2, <2>2, <3>1, <3>2, <3>3 DEF Registers, Answer
  <2>3. CASE r.at = "discard" /\ Discardable(old)
    <3>1. manifest' = Discarded(t, q)
      BY <1>7, <2>3 DEF SectionOf, Discarded
    <3> QED
      BY <1>1, <1>5, <3>1, DiscardedKeeps
  <2>4. CASE /\ ~(r.at = "reserve" /\ disk[q] = Absent)
             /\ ~(r.at = "checked" /\ Markable(old))
             /\ ~(r.at = "discard" /\ Discardable(old))
    <3>1. manifest' = [manifest EXCEPT ![t][q] = old]
      BY <1>7, <2>4 DEF SectionOf
    <3>2. UNCHANGED manifest
      BY <1>1, <3>1 DEF OwnershipInv, OwnershipTypeOK
    <3> QED
      BY <1>6, <3>2
  <2> QED
    BY <2>1, <2>2, <2>3, <2>4
<1> QED
  BY <1>6, <1>7 DEF ProcessEnds

\* Cleaning up, and ending in the middle of it.
LEMMA CleanupDeletes ==
    ASSUME OwnershipInv, NEW t \in Tokens, NEW some \in SUBSET Paths,
           Cleanup(t, some) \/ CrashInCleanup(t, some)
    PROVE  \E gone, keep \in SUBSET Paths : Deletes(t, gone, keep)
<1>1. stale \subseteq Tokens /\ manifest \in [Tokens -> [Paths -> RecordOf(made) \cup {Absent}]]
  BY DEF OwnershipInv, OwnershipTypeOK
<1>2. Deletable(t) \subseteq Paths
  BY DEF Deletable
<1>3. CASE Cleanup(t, some)
  <2>1. manifest' = [manifest EXCEPT ![t] =
                       [q \in Paths |-> IF q \in some THEN manifest[t][q] ELSE Absent]]
    BY <1>3 DEF Cleanup
  <2>2. Deletes(t, Deletable(t) \ some, some)
    BY <1>1, <1>3, <2>1 DEF Cleanup, Deletes
  <2> QED
    BY <1>2, <2>2
<1>4. CASE CrashInCleanup(t, some)
  <2>1. manifest[t] = [q \in Paths |-> IF q \in Paths THEN manifest[t][q] ELSE Absent]
    BY <1>1
  <2>2. manifest' = [manifest EXCEPT ![t] =
                       [q \in Paths |-> IF q \in Paths THEN manifest[t][q] ELSE Absent]]
    BY <1>1, <1>4, <2>1 DEF CrashInCleanup
  <2>3. Deletes(t, some, Paths)
    BY <1>1, <1>2, <1>4, <2>2 DEF CrashInCleanup, Deletes
  <2> QED
    BY <2>3
<1> QED
  BY <1>3, <1>4

\* Every step of the specification is one of these.
LEMMA OwnershipSteps ==
    ASSUME OwnershipInv, OwnershipNext
    PROVE  \/ \E p \in Procs :
                Begins(p) \/ Moves(p) \/ Publishes(p) \/ Registers(p) \/ Removes(p)
           \/ \E t \in Tokens, gone, keep \in SUBSET Paths : Deletes(t, gone, keep)
           \/ \E t \in Tokens : Release(t)
           \/ Edits
<1>1. ASSUME NEW p \in Procs, NEW t \in Tokens, NEW q \in Paths, NEW d \in Digests,
             StartExport(p, t, q, d) \/ StartIndex(p, t, q, d)
      PROVE  Begins(p)
  BY <1>1, StartSteps
<1>2. ASSUME NEW p \in Procs, NEW t \in Tokens, NEW pt \in Tokens,
             NEW q \in Paths, NEW pq \in Paths,
             StartPublish(p, t, q, pt, pq)
      PROVE  Begins(p)
  BY <1>2, StartSteps
<1>3. ASSUME NEW p \in Procs, proc[p] # Idle, Request(p)
      PROVE  Moves(p) \/ Publishes(p) \/ Registers(p) \/ Removes(p)
  BY <1>3, ReserveMoves, CopyMoves, PublishSteps, CheckMoves, MarkSteps, RemoveSteps,
     DiscardMoves, EndSteps DEF Request
<1>4. ASSUME NEW t \in Tokens, NEW some \in SUBSET Paths,
             Cleanup(t, some) \/ CrashInCleanup(t, some)
      PROVE  \E gone, keep \in SUBSET Paths : Deletes(t, gone, keep)
  BY <1>4, CleanupDeletes
<1> QED
  BY <1>1, <1>2, <1>3, <1>4 DEF OwnershipNext, Edits

(***************************************************************************)
(* What each of them preserves                                             *)
(***************************************************************************)
LEMMA IdleIsNoRequest == \A some : Idle \notin RequestOf(some)
  BY DEF Idle, RequestOf, Steps

LEMMA BeginsKeeps == ASSUME OwnershipInv, NEW p \in Procs, Begins(p) PROVE OwnershipInv'
<1>1. PICK r \in RequestOf(made) :
        RequestOK(r) /\ r.file = Absent /\ proc' = [proc EXCEPT ![p] = r]
  BY DEF Begins
<1>2. proc \in [Procs -> RequestOf(made) \cup {Idle}]
  BY DEF OwnershipInv, OwnershipTypeOK
<1>3. /\ proc' \in [Procs -> RequestOf(made) \cup {Idle}]
      /\ proc'[p] = r /\ \A o \in Procs \ {p} : proc'[o] = proc[o]
  BY <1>1, <1>2
<1>4. UNCHANGED <<disk, source, manifest, stale, made, given, kept, excused, filesMade, edits>>
      /\ proc[p] = Idle
  BY DEF Begins
<1>5. OwnershipTypeOK'
  BY <1>3, <1>4 DEF OwnershipInv, OwnershipTypeOK
<1>6. IdsSound' /\ RecordsSound' /\ ReportedIsRegistered' /\ ReportedIsReviewed'
  BY <1>4 DEF OwnershipInv, IdsSound, RecordsSound, ReportedIsRegistered, ReportedIsReviewed
<1>7. RequestsSound'
  BY <1>1, <1>3 DEF OwnershipInv, RequestsSound, RequestOK
<1>8. PendingSound'
  <2> SUFFICES ASSUME NEW o \in Procs, proc'[o] # Idle, proc'[o].file # Absent
               PROVE  PendingOK(o)'
    BY DEF PendingSound
  <2>1. o # p /\ PendingOK(o) /\ proc'[o] = proc[o]
    BY <1>1, <1>3 DEF OwnershipInv, PendingSound
  <2>2. \A x \in Procs \ {o} : proc'[x] # Idle => proc'[x].file # proc'[o].file
    BY <1>1, <1>3, <2>1 DEF PendingOK
  <2> QED
    BY <1>4, <2>1, <2>2 DEF PendingOK
<1>9. FailureLeavesNothing'
  BY <1>3, <1>4 DEF OwnershipInv, FailureLeavesNothing
<1> QED
  BY <1>5, <1>6, <1>7, <1>8, <1>9 DEF OwnershipInv

LEMMA MovesKeeps == ASSUME OwnershipInv, NEW p \in Procs, Moves(p) PROVE OwnershipInv'
<1>0. /\ OwnershipTypeOK
      /\ UNCHANGED <<disk, source, made, given, kept, filesMade, edits>>
      /\ excused \subseteq excused' /\ excused' \subseteq FileIds /\ stale' \subseteq Tokens
      /\ proc[p] # Idle
  BY DEF OwnershipInv, Moves
<1>1. PICK r \in RequestOf(made) \cup {Idle} :
        /\ proc' = [proc EXCEPT ![p] = r]
        /\ r = Idle => (proc[p].file # Absent =>
                          proc[p].at = "discard" \/ proc[p].file.id \in excused')
        /\ r # Idle => /\ RequestOK(r) /\ r.file = proc[p].file /\ r.path = proc[p].path
                       /\ r.at = "discard" /\ r.file # Absent => r.file.id \in excused'
  BY IdleIsNoRequest DEF Moves, Proceeds
<1>2. /\ proc' \in [Procs -> RequestOf(made) \cup {Idle}]
      /\ proc'[p] = r /\ \A o \in Procs \ {p} : proc'[o] = proc[o]
  BY <1>0, <1>1 DEF OwnershipTypeOK
<1>3. /\ manifest' \in [Tokens -> [Paths -> RecordOf(made) \cup {Absent}]]
      /\ \A t \in Tokens, q \in Paths :
           /\ IsCreated(manifest'[t][q]) => manifest'[t][q] = manifest[t][q]
           /\ IsCreated(manifest[t][q]) /\ disk[q] # Absent => manifest'[t][q] = manifest[t][q]
  <2>1. CASE UNCHANGED manifest
    BY <1>0, <2>1 DEF OwnershipTypeOK
  <2>2. ASSUME NEW t \in Tokens, NEW q \in Paths, NEW v \in RecordOf(made) \cup {Absent},
               ~IsCreated(v), disk[q] = Absent \/ ~IsCreated(manifest[t][q]),
               manifest' = [manifest EXCEPT ![t][q] = v]
        PROVE  <1>3!:
    <3>1. manifest' \in [Tokens -> [Paths -> RecordOf(made) \cup {Absent}]]
      BY <1>0, <2>2, RecordUpdate
    <3>2. manifest'[t][q] = v
      BY <1>0, <2>2 DEF OwnershipTypeOK
    <3>3. \A u \in Tokens, x \in Paths : u # t \/ x # q => manifest'[u][x] = manifest[u][x]
      BY <1>0, <2>2 DEF OwnershipTypeOK
    <3> QED
      BY <2>2, <3>1, <3>2, <3>3
  <2> QED
    BY <2>1, <2>2 DEF Moves, KeepsRecords
<1>4. OwnershipTypeOK'
  BY <1>0, <1>2, <1>3 DEF OwnershipTypeOK
<1>5. IdsSound' /\ ReportedIsReviewed'
  BY <1>0 DEF OwnershipInv, IdsSound, ReportedIsReviewed
<1>6. RequestsSound'
  BY <1>1, <1>2 DEF OwnershipInv, RequestsSound, RequestOK
<1>7. PendingSound'
  <2> SUFFICES ASSUME NEW o \in Procs, proc'[o] # Idle, proc'[o].file # Absent
               PROVE  PendingOK(o)'
    BY DEF PendingSound
  <2>1. /\ proc[o] # Idle /\ proc'[o].file = proc[o].file /\ proc'[o].path = proc[o].path
        /\ PendingOK(o)
    BY <1>0, <1>1, <1>2 DEF OwnershipInv, PendingSound
  <2>2. \A x \in Procs \ {o} : proc'[x] # Idle => proc'[x].file # proc'[o].file
    BY <1>0, <1>1, <1>2, <2>1 DEF PendingOK
  <2>3. proc'[o].at = "discard" =>
          proc'[o].file.id \in excused' \/ \A q \in Paths : disk'[q] # proc'[o].file
    BY <1>0, <1>1, <1>2, <2>1 DEF PendingOK
  <2>4. \A t \in Tokens, q \in Paths :
          IsCreated(manifest'[t][q]) => manifest'[t][q].file # proc'[o].file
    BY <1>3, <2>1 DEF PendingOK
  <2> QED
    BY <1>0, <2>1, <2>2, <2>3, <2>4 DEF PendingOK
<1>8. RecordsSound'
  BY <1>0, <1>3 DEF OwnershipInv, RecordsSound
<1>9. ReportedIsRegistered'
  <2> SUFFICES ASSUME NEW g \in given, g.file.id \notin kept, NEW q \in Paths, disk[q] = g.file
               PROVE  IsCreated(manifest'[g.token][q]) /\ manifest'[g.token][q].file = g.file
    BY <1>0 DEF ReportedIsRegistered
  <2>1. g.token \in Tokens /\ g.file \in made
    BY <1>0 DEF OwnershipTypeOK
  <2>2. IsCreated(manifest[g.token][q]) /\ manifest[g.token][q].file = g.file
    BY DEF OwnershipInv, ReportedIsRegistered
  <2>3. disk[q] # Absent
    BY <1>0, <2>1, FileType
  <2> QED
    BY <1>3, <2>1, <2>2, <2>3
<1>10. FailureLeavesNothing'
  <2> SUFFICES ASSUME NEW q \in Paths, disk[q] # Absent, disk[q] \in made,
                      disk[q] \notin {g.file : g \in given}, disk[q].id \notin excused'
               PROVE  \E o \in Procs : proc'[o] # Idle /\ proc'[o].file = disk[q]
    BY <1>0 DEF FailureLeavesNothing
  <2>1. PICK o \in Procs : proc[o] # Idle /\ proc[o].file = disk[q]
    BY <1>0 DEF OwnershipInv, FailureLeavesNothing
  <2>2. PendingOK(o)
    BY <2>1 DEF OwnershipInv, PendingSound
  <2>3. proc'[o] # Idle /\ proc'[o].file = disk[q]
    BY <1>0, <1>1, <1>2, <2>1, <2>2 DEF PendingOK
  <2> QED
    BY <2>3
<1> QED
  BY <1>4, <1>5, <1>6, <1>7, <1>8, <1>9, <1>10 DEF OwnershipInv

LEMMA PublishesKeeps == ASSUME OwnershipInv, NEW p \in Procs, Publishes(p) PROVE OwnershipInv'
<1> DEFINE path == proc[p].path
           file == [id |-> Fresh, data |-> proc[p].data]
           r == [proc[p] EXCEPT !.at = "published", !.file = file]
<1>0. /\ OwnershipTypeOK /\ IdsSound
      /\ proc[p] # Idle /\ proc[p].at = "staged" /\ disk[path] = Absent /\ HasFresh
      /\ disk' = [disk EXCEPT ![path] = file]
      /\ made' = made \cup {file}
      /\ filesMade' = Fresh
      /\ proc' = [proc EXCEPT ![p] = r]
      /\ UNCHANGED <<source, manifest, stale, given, kept, excused, edits>>
  BY DEF OwnershipInv, Publishes
<1>1. proc[p] \in RequestOf(made) /\ RequestOK(proc[p])
  BY <1>0, RequestType DEF OwnershipInv, RequestsSound
<1>2. file \in Files /\ file.id = filesMade + 1 /\ filesMade + 1 \in FileIds /\ filesMade \in Nat
  BY <1>0, <1>1, BoundsAreNumbers DEF OwnershipTypeOK, Files, FileIds, RequestOf, Fresh, HasFresh
<1>3. file.data = proc[p].data /\ path \in Paths /\ file # Absent
  BY <1>1, <1>2, AbsentAssumption DEF RequestOf
<1>4. r \in RequestOf(made') /\ RequestOf(made) \subseteq RequestOf(made')
      /\ RecordOf(made) \subseteq RecordOf(made')
  BY <1>0, <1>1 DEF RequestOf, RecordOf, Steps
<1>5. /\ r.at = "published" /\ r.file = file /\ r.path = path /\ r.data = proc[p].data
      /\ r.want = proc[p].want /\ r.from = proc[p].from
  BY <1>1 DEF RequestOf
<1>6. Fresh = filesMade + 1
  BY DEF Fresh
<1> HIDE DEF file, r
<1>7. /\ proc'[p] = r /\ \A o \in Procs \ {p} : proc'[o] = proc[o]
      /\ proc' \in [Procs -> RequestOf(made') \cup {Idle}]
  BY <1>0, <1>4 DEF OwnershipTypeOK
<1>8. disk'[path] = file /\ \A q \in Paths \ {path} : disk'[q] = disk[q]
  BY <1>0, <1>3 DEF OwnershipTypeOK
<1>9. \A m \in made : m # file /\ m.id \in Nat /\ m.id <= filesMade
  <2> SUFFICES ASSUME NEW m \in made PROVE m # file /\ m.id \in Nat /\ m.id <= filesMade
    OBVIOUS
  <2>1. m.id \in Nat /\ m.id <= filesMade
    BY <1>0, FileType DEF IdsSound
  <2> QED
    BY <1>2, <2>1
<1>10. OwnershipTypeOK'
  <2>1. disk' \in [Paths -> Files \cup {Absent}]
    BY <1>0, <1>2 DEF OwnershipTypeOK
  <2>2. manifest' \in [Tokens -> [Paths -> RecordOf(made') \cup {Absent}]]
    <3>1. [Paths -> RecordOf(made) \cup {Absent}] \subseteq [Paths -> RecordOf(made') \cup {Absent}]
      BY <1>4
    <3>2. manifest' \in [Tokens -> [Paths -> RecordOf(made) \cup {Absent}]]
      BY <1>0 DEF OwnershipTypeOK
    <3> QED
      BY <3>1, <3>2
  <2>3. /\ made' \subseteq Files
        /\ given' \subseteq [file : made', token : Tokens, want : Digests \cup {NoOne}]
    BY <1>0, <1>2 DEF OwnershipTypeOK
  <2>4. filesMade' \in 0..MaxFiles
    BY <1>0, <1>2, <1>6 DEF FileIds
  <2> QED
    BY <1>0, <1>7, <2>1, <2>2, <2>3, <2>4 DEF OwnershipTypeOK
<1>11. IdsSound'
  <2>1. \A m \in made' : m.id <= filesMade'
    BY <1>0, <1>2, <1>6, <1>9
  <2>2. \A m, n \in made' : m.id = n.id => m = n
    <3> SUFFICES ASSUME NEW m \in made', NEW n \in made', m.id = n.id PROVE m = n
      OBVIOUS
    <3>1. CASE m \in made /\ n \in made
      BY <1>0, <3>1 DEF IdsSound
    <3>2. CASE m = file \/ n = file
      BY <1>0, <1>2, <1>9, <3>2
    <3> QED
      BY <1>0, <3>1, <3>2
  <2>3. \A q \in Paths : disk'[q] # Absent => disk'[q].id <= filesMade'
    <3> SUFFICES ASSUME NEW q \in Paths, disk'[q] # Absent PROVE disk'[q].id <= filesMade'
      OBVIOUS
    <3>1. CASE q = path
      BY <1>0, <1>2, <1>6, <1>8, <3>1
    <3>2. CASE q # path
      <4>1. disk[q].id <= filesMade /\ disk[q].id \in Nat
        BY <1>0, <1>8, <3>2, BoundsAreNumbers DEF IdsSound, OwnershipTypeOK, Files, FileIds
      <4> QED
        BY <1>0, <1>2, <1>6, <1>8, <3>2, <4>1
    <3> QED
      BY <3>1, <3>2
  <2>4. ASSUME NEW q \in Paths, NEW m \in made', disk'[q] # Absent, disk'[q].id = m.id
        PROVE  disk'[q].data \in {m.data, NoOne}
    <3>1. CASE q = path
      BY <1>0, <1>2, <1>8, <1>9, <2>4, <3>1
    <3>2. CASE q # path
      <4>1. disk[q].id <= filesMade /\ disk[q].id \in Nat
        BY <1>0, <1>8, <2>4, <3>2, BoundsAreNumbers DEF IdsSound, OwnershipTypeOK, Files, FileIds
      <4>2. m \in made
        BY <1>0, <1>2, <1>8, <2>4, <3>2, <4>1
      <4> QED
        BY <1>0, <1>8, <2>4, <3>2, <4>2 DEF IdsSound
    <3> QED
      BY <3>1, <3>2
  <2>5. \A i \in kept' : i <= filesMade'
    BY <1>0, <1>2, <1>6, BoundsAreNumbers DEF IdsSound, OwnershipTypeOK, FileIds
  <2> QED
    BY <2>1, <2>2, <2>3, <2>4, <2>5 DEF IdsSound
<1>12. RequestsSound'
  <2>1. RequestOK(r)
    BY <1>0, <1>1, <1>3, <1>5 DEF RequestOK
  <2> QED
    BY <1>7, <2>1 DEF OwnershipInv, RequestsSound, RequestOK
<1>13. PendingSound'
  <2> SUFFICES ASSUME NEW o \in Procs, proc'[o] # Idle, proc'[o].file # Absent
               PROVE  PendingOK(o)'
    BY DEF PendingSound
  <2>0. \A t \in Tokens, q \in Paths : IsCreated(manifest[t][q]) => manifest[t][q].file \in made
    BY <1>0, RecordType
  <2>1. CASE o = p
    <3>1. proc'[o].file = file /\ proc'[o].path = path /\ proc'[o].at = "published"
      BY <1>5, <1>7, <2>1
    <3>2. \A q \in Paths : disk'[q] = file => q = path
      <4> SUFFICES ASSUME NEW q \in Paths, q # path, disk[q] = file PROVE FALSE
        BY <1>8
      <4> QED
        BY <1>0, <1>2, <1>3 DEF IdsSound
    <3>3. file.id \notin kept
      BY <1>0, <1>2 DEF IdsSound
    <3>4. \A x \in Procs \ {p} : proc[x] # Idle => proc[x].file # file
      BY <1>0, <1>3, <1>9, RequestType DEF RequestOf
    <3> QED
      BY <1>0, <1>7, <1>9, <2>0, <2>1, <3>1, <3>2, <3>3, <3>4 DEF PendingOK
  <2>2. CASE o # p
    <3>1. proc'[o] = proc[o] /\ PendingOK(o)
      BY <1>7, <2>2 DEF OwnershipInv, PendingSound
    <3>2. proc[o].file \in made /\ proc[o].file # file
      BY <1>0, <1>9, <2>2, <3>1, RequestType DEF RequestOf
    <3>3. \A q \in Paths : disk'[q] = proc[o].file => disk[q] = proc[o].file
      BY <1>8, <3>2
    <3>4. \A x \in Procs \ {o} : proc'[x] # Idle => proc'[x].file # proc[o].file
      BY <1>5, <1>7, <3>1, <3>2 DEF PendingOK
    <3> QED
      BY <1>0, <3>1, <3>3, <3>4 DEF PendingOK
  <2> QED
    BY <2>1, <2>2
<1>14. RecordsSound' /\ ReportedIsReviewed'
  BY <1>0 DEF OwnershipInv, RecordsSound, ReportedIsReviewed
<1>15. ReportedIsRegistered'
  <2> SUFFICES ASSUME NEW g \in given, g.file.id \notin kept, NEW q \in Paths, disk'[q] = g.file
               PROVE  IsCreated(manifest[g.token][q]) /\ manifest[g.token][q].file = g.file
    BY <1>0 DEF ReportedIsRegistered
  <2>1. g.file \in made
    BY <1>0 DEF OwnershipTypeOK
  <2>2. disk[q] = g.file
    BY <1>8, <1>9, <2>1
  <2> QED
    BY <2>2 DEF OwnershipInv, ReportedIsRegistered
<1>16. FailureLeavesNothing'
  <2> SUFFICES ASSUME NEW q \in Paths, disk'[q] # Absent, disk'[q] \in made',
                      disk'[q] \notin {g.file : g \in given}, disk'[q].id \notin excused
               PROVE  \E o \in Procs : proc'[o] # Idle /\ proc'[o].file = disk'[q]
    BY <1>0 DEF FailureLeavesNothing
  <2>1. CASE q = path
    BY <1>5, <1>7, <1>8, <1>4, <2>1, IdleIsNoRequest
  <2>2. CASE q # path
    <3>1. disk'[q] = disk[q] /\ disk[q].id <= filesMade
      BY <1>0, <1>8, <2>2 DEF IdsSound
    <3>2. disk[q] \in made
      BY <1>0, <1>2, <3>1
    <3>3. PICK o \in Procs : proc[o] # Idle /\ proc[o].file = disk[q]
      BY <3>1, <3>2 DEF OwnershipInv, FailureLeavesNothing
    <3>4. o # p
      BY <1>0, <1>1, <3>1, <3>3 DEF RequestOK
    <3> QED
      BY <1>7, <3>1, <3>3, <3>4
  <2> QED
    BY <2>1, <2>2
<1> QED
  BY <1>10, <1>11, <1>12, <1>13, <1>14, <1>15, <1>16 DEF OwnershipInv

LEMMA RegistersKeeps == ASSUME OwnershipInv, NEW p \in Procs, Registers(p) PROVE OwnershipInv'
<1> DEFINE f == proc[p].file
           t == proc[p].token
           path == proc[p].path
           new == Created(proc[p].kind, f)
           report == [file |-> f, token |-> t, want |-> proc[p].want]
<1>0. /\ OwnershipTypeOK
      /\ proc[p] # Idle /\ proc[p].at = "checked"
      /\ ~IsCreated(manifest[t][path])
      /\ manifest' = [manifest EXCEPT ![t][path] = new]
      /\ \/ given' = given \cup {report} /\ excused' = excused
         \/ given' = given /\ excused' = excused \cup {f.id}
      /\ stale' \subseteq Tokens
      /\ proc' = [proc EXCEPT ![p] = Idle]
      /\ UNCHANGED <<disk, source, made, kept, filesMade, edits>>
  BY DEF OwnershipInv, Registers
<1>1. proc[p] \in RequestOf(made) /\ RequestOK(proc[p])
  BY <1>0, RequestType DEF OwnershipInv, RequestsSound
<1>2. /\ t \in Tokens /\ path \in Paths /\ f \in made /\ proc[p].kind \in Kinds
      /\ proc[p].want \in Digests \cup {NoOne}
  BY <1>0, <1>1 DEF RequestOf, RequestOK
<1>3. PendingOK(p)
  BY <1>0, <1>2, FileType DEF OwnershipInv, PendingSound
<1>4. new \in RecordOf(made) /\ IsCreated(new) /\ new.file = f
  BY <1>2, AbsentAssumption DEF Created, RecordOf, IsCreated, OwnershipInv, OwnershipTypeOK
<1>5. f.id \in FileIds /\ f.data = proc[p].want
  BY <1>0, <1>1, <1>2 DEF OwnershipTypeOK, Files, RequestOK
<1>6. /\ proc' \in [Procs -> RequestOf(made) \cup {Idle}]
      /\ proc'[p] = Idle /\ \A o \in Procs \ {p} : proc'[o] = proc[o]
  BY <1>0 DEF OwnershipTypeOK
<1>7. manifest' \in [Tokens -> [Paths -> RecordOf(made) \cup {Absent}]]
  BY <1>0, <1>2, <1>4, RecordUpdate
<1>8. /\ manifest'[t][path] = new
      /\ \A u \in Tokens, q \in Paths : u # t \/ q # path => manifest'[u][q] = manifest[u][q]
  BY <1>0, <1>2 DEF OwnershipTypeOK
<1>9. /\ given \subseteq given' /\ given' \subseteq given \cup {report}
      /\ excused \subseteq excused' /\ excused' \subseteq FileIds
      /\ report \in given' \/ f.id \in excused'
  BY <1>0, <1>5 DEF OwnershipTypeOK
<1>10. report.file = f /\ report.token = t /\ report.want = proc[p].want
  OBVIOUS
<1>11. report \in [file : made, token : Tokens, want : Digests \cup {NoOne}]
  BY <1>2
<1> HIDE DEF new, report
<1>12. OwnershipTypeOK'
  BY <1>0, <1>6, <1>7, <1>9, <1>11 DEF OwnershipTypeOK
<1>13. IdsSound'
  BY <1>0 DEF OwnershipInv, IdsSound
<1>14. RequestsSound'
  BY <1>6 DEF OwnershipInv, RequestsSound, RequestOK
<1>15. PendingSound'
  <2> SUFFICES ASSUME NEW o \in Procs, proc'[o] # Idle, proc'[o].file # Absent
               PROVE  PendingOK(o)'
    BY DEF PendingSound
  <2>1. o # p /\ proc'[o] = proc[o] /\ PendingOK(o)
    BY <1>6 DEF OwnershipInv, PendingSound
  <2>2. proc[o].file # f
    BY <1>0, <2>1 DEF PendingOK
  <2>3. \A u \in Tokens, q \in Paths :
          IsCreated(manifest'[u][q]) => manifest'[u][q].file # proc[o].file
    BY <1>4, <1>8, <2>1, <2>2 DEF PendingOK
  <2>4. \A x \in Procs \ {o} : proc'[x] # Idle => proc'[x].file # proc[o].file
    BY <1>6, <2>1 DEF PendingOK
  <2> QED
    BY <1>0, <1>9, <2>1, <2>3, <2>4 DEF PendingOK
<1>16. RecordsSound'
  <2> SUFFICES ASSUME NEW u \in Tokens, NEW q \in Paths, IsCreated(manifest'[u][q])
               PROVE  /\ manifest'[u][q].file.id \notin kept
                      /\ \A v \in Tokens, x \in Paths :
                           IsCreated(manifest'[v][x]) /\
                           manifest'[v][x].file = manifest'[u][q].file =>
                             v = u /\ x = q
    BY <1>0 DEF RecordsSound
  <2>1. CASE u = t /\ q = path
    BY <1>3, <1>4, <1>8, <2>1 DEF PendingOK
  <2>2. CASE ~(u = t /\ q = path)
    <3>1. manifest'[u][q] = manifest[u][q]
      BY <1>8, <2>2
    <3>2. manifest[u][q].file # f
      BY <1>3, <3>1 DEF PendingOK
    <3> QED
      BY <1>4, <1>8, <3>1, <3>2 DEF OwnershipInv, RecordsSound
  <2> QED
    BY <2>1, <2>2
<1>17. ReportedIsRegistered'
  <2> SUFFICES ASSUME NEW g \in given', g.file.id \notin kept, NEW q \in Paths, disk[q] = g.file
               PROVE  IsCreated(manifest'[g.token][q]) /\ manifest'[g.token][q].file = g.file
    BY <1>0 DEF ReportedIsRegistered
  <2>1. CASE g \in given
    <3>1. IsCreated(manifest[g.token][q]) /\ manifest[g.token][q].file = g.file
      BY <2>1 DEF OwnershipInv, ReportedIsRegistered
    <3>2. g.token \in Tokens
      BY <1>0, <2>1 DEF OwnershipTypeOK
    <3> QED
      BY <1>0, <1>8, <3>1, <3>2
  <2>2. CASE g = report
    <3>1. q = path
      BY <1>3, <1>10, <2>2 DEF PendingOK
    <3> QED
      BY <1>4, <1>8, <1>10, <2>2, <3>1
  <2> QED
    BY <1>9, <2>1, <2>2
<1>18. ReportedIsReviewed'
  BY <1>5, <1>9, <1>10 DEF OwnershipInv, ReportedIsReviewed
<1>19. FailureLeavesNothing'
  <2> SUFFICES ASSUME NEW q \in Paths, disk[q] # Absent, disk[q] \in made,
                      disk[q] \notin {g.file : g \in given'}, disk[q].id \notin excused'
               PROVE  \E o \in Procs : proc'[o] # Idle /\ proc'[o].file = disk[q]
    BY <1>0 DEF FailureLeavesNothing
  <2>1. PICK o \in Procs : proc[o] # Idle /\ proc[o].file = disk[q]
    BY <1>9 DEF OwnershipInv, FailureLeavesNothing
  <2>2. disk[q] # f
    BY <1>9, <1>10
  <2> QED
    BY <1>6, <2>1, <2>2
<1> QED
  BY <1>12, <1>13, <1>14, <1>15, <1>16, <1>17, <1>18, <1>19 DEF OwnershipInv

\* When files only go, and records only of files that are gone, what was true
\* of those that stay is still true.
LEMMA LessKeeps ==
    ASSUME OwnershipInv, OwnershipTypeOK', IdsSound', RequestsSound',
           UNCHANGED <<made, given, kept, excused>>,
           \A q \in Paths, m \in made : disk'[q] = m => disk[q] = m,
           \A t \in Tokens, q \in Paths :
               /\ IsCreated(manifest'[t][q]) => manifest'[t][q] = manifest[t][q]
               /\ IsCreated(manifest[t][q]) /\ disk'[q] = manifest[t][q].file =>
                    manifest'[t][q] = manifest[t][q],
           \A p \in Procs :
               /\ proc'[p] = Idle <=> proc[p] = Idle
               /\ proc[p] # Idle =>
                    /\ proc'[p].file = proc[p].file /\ proc'[p].path = proc[p].path
                    /\ \/ proc'[p].at = proc[p].at
                       \/ proc'[p].file = Absent
                       \/ \A q \in Paths : disk'[q] # proc[p].file
    PROVE  OwnershipInv'
<1>0. OwnershipTypeOK
  BY DEF OwnershipInv
<1>1. PendingSound'
  <2> SUFFICES ASSUME NEW o \in Procs, proc'[o] # Idle, proc'[o].file # Absent
               PROVE  PendingOK(o)'
    BY DEF PendingSound
  <2>1. /\ proc[o] # Idle /\ proc'[o].file = proc[o].file /\ proc'[o].path = proc[o].path
        /\ PendingOK(o)
    BY DEF OwnershipInv, PendingSound
  <2>2. proc[o].file \in made
    BY <1>0, <2>1, RequestType DEF RequestOf
  <2>3. \A q \in Paths : disk'[q] = proc[o].file => disk[q] = proc[o].file
    BY <2>2
  <2>4. \A x \in Procs \ {o} : proc'[x] # Idle => proc'[x].file # proc'[o].file
    BY <2>1 DEF PendingOK
  <2>5. proc'[o].at = "discard" =>
          proc'[o].file.id \in excused' \/ \A q \in Paths : disk'[q] # proc'[o].file
    BY <2>1, <2>3 DEF PendingOK
  <2>6. \A t \in Tokens, q \in Paths :
          IsCreated(manifest'[t][q]) => manifest'[t][q].file # proc'[o].file
    BY <2>1 DEF PendingOK
  <2>7. \A q \in Paths : disk'[q] = proc'[o].file => q = proc'[o].path
    BY <2>1, <2>3 DEF PendingOK
  <2>8. proc'[o].file.id \notin kept'
    BY <2>1 DEF PendingOK
  <2> QED
    BY <2>4, <2>5, <2>6, <2>7, <2>8 DEF PendingOK
<1>2. RecordsSound'
  BY DEF OwnershipInv, RecordsSound
<1>3. ReportedIsReviewed'
  BY DEF OwnershipInv, ReportedIsReviewed
<1>4. ReportedIsRegistered'
  <2> SUFFICES ASSUME NEW g \in given, g.file.id \notin kept, NEW q \in Paths, disk'[q] = g.file
               PROVE  IsCreated(manifest'[g.token][q]) /\ manifest'[g.token][q].file = g.file
    BY DEF ReportedIsRegistered
  <2>1. g.file \in made /\ g.token \in Tokens
    BY <1>0 DEF OwnershipTypeOK
  <2>2. disk[q] = g.file
    BY <2>1
  <2>3. IsCreated(manifest[g.token][q]) /\ manifest[g.token][q].file = g.file
    BY <2>2 DEF OwnershipInv, ReportedIsRegistered
  <2> QED
    BY <2>1, <2>3
<1>5. FailureLeavesNothing'
  <2> SUFFICES ASSUME NEW q \in Paths, disk'[q] # Absent, disk'[q] \in made,
                      disk'[q] \notin {g.file : g \in given}, disk'[q].id \notin excused
               PROVE  \E o \in Procs : proc'[o] # Idle /\ proc'[o].file = disk'[q]
    BY DEF FailureLeavesNothing
  <2>1. disk'[q] = disk[q]
    OBVIOUS
  <2>2. PICK o \in Procs : proc[o] # Idle /\ proc[o].file = disk[q]
    BY <2>1 DEF OwnershipInv, FailureLeavesNothing
  <2> QED
    BY <2>1, <2>2
<1> QED
  BY <1>1, <1>2, <1>3, <1>4, <1>5 DEF OwnershipInv

LEMMA RemovesKeeps == ASSUME OwnershipInv, NEW p \in Procs, Removes(p) PROVE OwnershipInv'
<1> DEFINE path == proc[p].path
           r == [proc[p] EXCEPT !.at = "discard"]
<1>0. /\ OwnershipTypeOK
      /\ proc[p] # Idle /\ proc[p].at = "remove" /\ disk[path] = proc[p].file
      /\ disk' = [disk EXCEPT ![path] = Absent]
      /\ proc' = [proc EXCEPT ![p] = r]
      /\ UNCHANGED <<source, manifest, stale, made, given, kept, excused, filesMade, edits>>
  BY DEF OwnershipInv, Removes
<1>1. proc[p] \in RequestOf(made) /\ RequestOK(proc[p])
  BY <1>0, RequestType DEF OwnershipInv, RequestsSound
<1>2. path \in Paths /\ proc[p].file \in made /\ proc[p].file # Absent
  BY <1>0, <1>1 DEF RequestOf, RequestOK
<1>3. PendingOK(p)
  BY <1>0, <1>2 DEF OwnershipInv, PendingSound
<1>4. /\ r \in RequestOf(made) /\ r.at = "discard" /\ r.file = proc[p].file
      /\ r.path = path /\ r.data = proc[p].data /\ r.want = proc[p].want /\ r.from = proc[p].from
  BY <1>1 DEF RequestOf, Steps
<1> HIDE DEF r
<1>5. /\ proc' \in [Procs -> RequestOf(made) \cup {Idle}]
      /\ proc'[p] = r /\ \A o \in Procs \ {p} : proc'[o] = proc[o]
      /\ r # Idle
  BY <1>0, <1>4, IdleIsNoRequest DEF OwnershipTypeOK
<1>6. disk'[path] = Absent /\ \A q \in Paths \ {path} : disk'[q] = disk[q]
  BY <1>0, <1>2 DEF OwnershipTypeOK
<1>7. OwnershipTypeOK'
  BY <1>0, <1>5 DEF OwnershipTypeOK
<1>8. IdsSound'
  BY <1>0, <1>6 DEF OwnershipInv, IdsSound
<1>9. RequestsSound'
  <2>1. RequestOK(r)
    BY <1>1, <1>4 DEF RequestOK
  <2> QED
    BY <1>5, <2>1 DEF OwnershipInv, RequestsSound, RequestOK
<1>10. \A q \in Paths, m \in made : disk'[q] = m => disk[q] = m
  BY <1>0, <1>6, FileType
<1>11. \A q \in Paths : disk'[q] # proc[p].file
  BY <1>2, <1>3, <1>6 DEF PendingOK
<1> QED
  BY <1>0, <1>4, <1>5, <1>7, <1>8, <1>9, <1>10, <1>11, LessKeeps

LEMMA DeletesKeeps ==
    ASSUME OwnershipInv, NEW t \in Tokens, NEW gone \in SUBSET Paths, NEW keep \in SUBSET Paths,
           Deletes(t, gone, keep)
    PROVE  OwnershipInv'
<1>0. /\ OwnershipTypeOK
      /\ gone \subseteq Deletable(t) /\ Deletable(t) \ gone \subseteq keep
      /\ stale' \subseteq Tokens
      /\ UNCHANGED <<source, proc, made, given, kept, excused, filesMade, edits>>
  BY DEF OwnershipInv, Deletes
<1>1. disk' = [q \in Paths |-> IF q \in gone THEN Absent ELSE disk[q]]
  BY DEF Deletes
<1>2. /\ manifest' \in [Tokens -> [Paths -> RecordOf(made) \cup {Absent}]]
      /\ \A q \in Paths : manifest'[t][q] = IF q \in keep THEN manifest[t][q] ELSE Absent
      /\ \A u \in Tokens \ {t} : manifest'[u] = manifest[u]
  <2> DEFINE row == [q \in Paths |-> IF q \in keep THEN manifest[t][q] ELSE Absent]
  <2>1. manifest' = [manifest EXCEPT ![t] = row]
    BY DEF Deletes
  <2>2. row \in [Paths -> RecordOf(made) \cup {Absent}]
    BY <1>0 DEF OwnershipTypeOK
  <2> HIDE DEF row
  <2>3. manifest'[t] = row /\ \A u \in Tokens \ {t} : manifest'[u] = manifest[u]
    BY <1>0, <2>1 DEF OwnershipTypeOK
  <2> QED
    BY <1>0, <2>1, <2>2, <2>3 DEF OwnershipTypeOK, row
<1>3. OwnershipTypeOK'
  BY <1>0, <1>1, <1>2 DEF OwnershipTypeOK
<1>4. IdsSound'
  BY <1>0, <1>1 DEF OwnershipInv, IdsSound
<1>5. RequestsSound'
  BY <1>0 DEF OwnershipInv, RequestsSound, RequestOK
<1>6. \A q \in Paths, m \in made : disk'[q] = m => disk[q] = m
  BY <1>0, <1>1, FileType
<1>7. ~IsCreated(Absent)
  BY DEF IsCreated
<1>8. ASSUME NEW u \in Tokens, NEW q \in Paths
      PROVE  /\ IsCreated(manifest'[u][q]) => manifest'[u][q] = manifest[u][q]
             /\ IsCreated(manifest[u][q]) /\ disk'[q] = manifest[u][q].file =>
                  manifest'[u][q] = manifest[u][q]
  <2>1. CASE u # t
    BY <1>2, <2>1
  <2>2. CASE u = t
    <3>1. IsCreated(manifest'[t][q]) => manifest'[t][q] = manifest[t][q]
      BY <1>2, <1>7
    <3>2. ASSUME IsCreated(manifest[t][q]), disk'[q] = manifest[t][q].file
          PROVE  q \in keep
      <4>1. disk[q] = manifest[t][q].file /\ manifest[t][q].file # Absent
        BY <1>0, <1>6, <3>2, RecordType, FileType
      <4>2. q \in Deletable(t)
        BY <3>2, <4>1 DEF Deletable, Owned
      <4>3. q \notin gone
        BY <1>1, <3>2, <4>1
      <4> QED
        BY <1>0, <4>2, <4>3
    <3> QED
      BY <1>2, <2>2, <3>1, <3>2
  <2> QED
    BY <2>1, <2>2
<1> QED
  BY <1>0, <1>3, <1>4, <1>5, <1>6, <1>8, LessKeeps

LEMMA EditsKeeps == ASSUME OwnershipInv, Edits PROVE OwnershipInv'
<1>0. OwnershipTypeOK /\ IdsSound
  BY DEF OwnershipInv
<1>1. /\ UNCHANGED <<manifest, stale, proc, made, given, kept, excused>>
      /\ edits' \in 0..MaxEdits
  BY <1>0, BoundsAreNumbers DEF Edits, UserEdits, UserWritesSource, OwnershipTypeOK
<1>2. /\ filesMade' \in {filesMade, Fresh} /\ filesMade' \in 0..MaxFiles
      /\ source' \in Digests
      /\ \/ disk' = disk
         \/ \E q \in Paths, x \in Files \cup {Absent} : EditsTo(q, x)
  <2>1. ASSUME NEW q \in Paths, UserRemoves(q), UNCHANGED source PROVE <1>2!:
    BY <1>0, <2>1 DEF UserRemoves, EditsTo, OwnershipTypeOK
  <2>2. ASSUME NEW q \in Paths, UserReplaces(q), UNCHANGED source PROVE <1>2!:
    <3> DEFINE x == [id |-> Fresh, data |-> NoOne]
    <3>1. /\ Fresh = filesMade + 1 /\ filesMade \in Nat /\ Fresh \in FileIds
          /\ filesMade' = Fresh
      BY <1>0, <2>2, BoundsAreNumbers DEF UserReplaces, HasFresh, Fresh, OwnershipTypeOK, FileIds
    <3>2. x \in Files /\ x.id = filesMade + 1 /\ x.data = NoOne
      BY <3>1 DEF Files
    <3>3. disk' = [disk EXCEPT ![q] = x]
      BY <2>2 DEF UserReplaces
    <3> HIDE DEF x
    <3>4. \A m \in made : m.id # x.id
      BY <1>0, <3>1, <3>2, FileType DEF IdsSound
    <3>5. filesMade' \in 0..MaxFiles
      BY <3>1, BoundsAreNumbers DEF FileIds
    <3>6. source' \in Digests
      BY <1>0, <2>2 DEF OwnershipTypeOK
    <3>7. /\ x.id <= filesMade' /\ x \notin made
          /\ \A m \in made : x.id = m.id => disk[q].id = m.id
      BY <3>1, <3>2, <3>4, BoundsAreNumbers DEF FileIds
    <3>8. EditsTo(q, x)
      BY <3>2, <3>3, <3>7 DEF EditsTo
    <3> QED
      BY <3>1, <3>2, <3>5, <3>6, <3>8
  <2>3. ASSUME NEW q \in Paths, UserChanges(q), UNCHANGED source PROVE <1>2!:
    <3> DEFINE x == [disk[q] EXCEPT !.data = NoOne]
    <3>1. disk[q] \in Files /\ disk[q] # Absent /\ disk[q].data # NoOne
      BY <1>0, <2>3 DEF UserChanges, OwnershipTypeOK
    <3>2. x \in Files /\ x.id = disk[q].id /\ x.data = NoOne
      BY <3>1 DEF Files
    <3>3. disk' = [disk EXCEPT ![q] = x] /\ UNCHANGED filesMade
      BY <2>3 DEF UserChanges
    <3> HIDE DEF x
    <3>4. x \notin made
      BY <1>0, <3>1, <3>2 DEF IdsSound
    <3>5. x.id <= filesMade'
      BY <1>0, <3>1, <3>2, <3>3 DEF IdsSound
    <3>6. EditsTo(q, x)
      BY <3>2, <3>3, <3>4, <3>5 DEF EditsTo
    <3>7. filesMade' = filesMade /\ source' \in Digests /\ filesMade' \in 0..MaxFiles
      BY <1>0, <2>3, <3>3 DEF OwnershipTypeOK
    <3> QED
      BY <3>2, <3>6, <3>7
  <2>4. ASSUME NEW d \in Digests, UserWritesSource(d) PROVE <1>2!:
    BY <1>0, <2>4 DEF UserWritesSource, OwnershipTypeOK
  <2> QED
    BY <2>1, <2>2, <2>3, <2>4 DEF Edits, UserEdits
<1>3. disk' \in [Paths -> Files \cup {Absent}]
  BY <1>0, <1>2 DEF EditsTo, OwnershipTypeOK
<1>4. OwnershipTypeOK'
  BY <1>0, <1>1, <1>2, <1>3 DEF OwnershipTypeOK
<1>5. filesMade <= filesMade' /\ filesMade \in Nat /\ filesMade' \in Nat
  BY <1>0, <1>2, BoundsAreNumbers DEF OwnershipTypeOK, Fresh
<1>6. IdsSound'
  <2>1. \A m \in made : m.id <= filesMade'
    BY <1>0, <1>5, FileType DEF IdsSound
  <2>2. \A i \in kept : i <= filesMade'
    BY <1>0, <1>5, BoundsAreNumbers DEF IdsSound, OwnershipTypeOK, FileIds
  <2>3. ASSUME NEW q \in Paths, disk'[q] # Absent
        PROVE  /\ disk'[q].id <= filesMade'
               /\ \A m \in made : disk'[q].id = m.id => disk'[q].data \in {m.data, NoOne}
    <3>1. CASE disk'[q] = disk[q]
      <4>1. disk[q].id \in Nat
        BY <1>0, <2>3, <3>1, BoundsAreNumbers DEF OwnershipTypeOK, Files, FileIds
      <4> QED
        BY <1>0, <1>5, <2>3, <3>1, <4>1 DEF IdsSound
    <3>2. CASE disk'[q] # disk[q]
      BY <1>0, <1>2, <2>3, <3>2 DEF EditsTo, OwnershipTypeOK
    <3> QED
      BY <3>1, <3>2
  <2> QED
    BY <1>0, <1>1, <2>1, <2>2, <2>3 DEF IdsSound
<1>7. RequestsSound'
  BY <1>1 DEF OwnershipInv, RequestsSound, RequestOK
<1>8. \A q \in Paths, m \in made : disk'[q] = m => disk[q] = m
  BY <1>0, <1>2, FileType DEF EditsTo, OwnershipTypeOK
<1>9. \A t \in Tokens, q \in Paths :
        /\ IsCreated(manifest'[t][q]) => manifest'[t][q] = manifest[t][q]
        /\ IsCreated(manifest[t][q]) /\ disk'[q] = manifest[t][q].file =>
             manifest'[t][q] = manifest[t][q]
  BY <1>1
<1> QED
  BY <1>1, <1>4, <1>6, <1>7, <1>8, <1>9, LessKeeps

LEMMA ReleaseKeeps == ASSUME OwnershipInv, NEW t \in Tokens, Release(t) PROVE OwnershipInv'
<1> DEFINE ids == {manifest[t][q].file.id : q \in {x \in Paths : IsCreated(manifest[t][x])}}
<1>0. /\ OwnershipTypeOK /\ IdsSound
      /\ manifest' = [manifest EXCEPT ![t] = [q \in Paths |-> Absent]]
      /\ kept' = kept \cup ids
      /\ UNCHANGED <<disk, source, stale, proc, made, given, excused, filesMade, edits>>
  BY DEF OwnershipInv, Release
<1>1. /\ manifest' \in [Tokens -> [Paths -> RecordOf(made) \cup {Absent}]]
      /\ \A q \in Paths : manifest'[t][q] = Absent
      /\ \A u \in Tokens \ {t} : manifest'[u] = manifest[u]
  BY <1>0 DEF OwnershipTypeOK
<1>2. \A i \in ids : \E q \in Paths : /\ IsCreated(manifest[t][q])
                                      /\ manifest[t][q].file \in made
                                      /\ i = manifest[t][q].file.id
  BY <1>0, RecordType
<1> HIDE DEF ids
<1>3. ids \subseteq FileIds /\ \A i \in ids : i <= filesMade
  <2>1. \A m \in made : m.id \in FileIds /\ m.id <= filesMade
    BY <1>0 DEF OwnershipTypeOK, Files, IdsSound
  <2> QED
    BY <1>2, <2>1
<1>4. ASSUME NEW m \in made, m.id \in ids
      PROVE  \E q \in Paths : IsCreated(manifest[t][q]) /\ manifest[t][q].file = m
  BY <1>0, <1>2, <1>4 DEF IdsSound
<1>5. OwnershipTypeOK'
  BY <1>0, <1>1, <1>3 DEF OwnershipTypeOK
<1>6. IdsSound'
  BY <1>0, <1>3 DEF IdsSound
<1>7. RequestsSound' /\ ReportedIsReviewed' /\ FailureLeavesNothing'
  BY <1>0 DEF OwnershipInv, RequestsSound, RequestOK, ReportedIsReviewed, FailureLeavesNothing
<1>8. ~IsCreated(Absent)
  BY DEF IsCreated
<1>9. PendingSound'
  <2> SUFFICES ASSUME NEW o \in Procs, proc[o] # Idle, proc[o].file # Absent
               PROVE  PendingOK(o)'
    BY <1>0 DEF PendingSound
  <2>1. PendingOK(o) /\ proc[o].file \in made
    BY <1>0, RequestType DEF OwnershipInv, PendingSound, RequestOf
  <2>2. proc[o].file.id \notin kept'
    BY <1>0, <1>4, <2>1 DEF PendingOK
  <2>3. \A u \in Tokens, q \in Paths :
          IsCreated(manifest'[u][q]) => manifest'[u][q].file # proc[o].file
    BY <1>1, <1>8, <2>1 DEF PendingOK
  <2> QED
    BY <1>0, <2>1, <2>2, <2>3 DEF PendingOK
<1>10. RecordsSound'
  <2> SUFFICES ASSUME NEW u \in Tokens, NEW q \in Paths, IsCreated(manifest'[u][q])
               PROVE  /\ manifest'[u][q].file.id \notin kept'
                      /\ \A v \in Tokens, x \in Paths :
                           IsCreated(manifest'[v][x]) /\
                           manifest'[v][x].file = manifest'[u][q].file =>
                             v = u /\ x = q
    BY DEF RecordsSound
  <2>1. u # t /\ manifest'[u][q] = manifest[u][q]
    BY <1>1, <1>8
  <2>2. manifest[u][q].file \in made
    BY <1>0, <2>1, RecordType
  <2>3. manifest[u][q].file.id \notin ids
    BY <1>4, <2>1, <2>2 DEF OwnershipInv, RecordsSound
  <2> QED
    BY <1>0, <1>1, <1>8, <2>1, <2>3 DEF OwnershipInv, RecordsSound
<1>11. ReportedIsRegistered'
  <2> SUFFICES ASSUME NEW g \in given, g.file.id \notin kept', NEW q \in Paths, disk[q] = g.file
               PROVE  IsCreated(manifest'[g.token][q]) /\ manifest'[g.token][q].file = g.file
    BY <1>0 DEF ReportedIsRegistered
  <2>1. g.token \in Tokens
    BY <1>0 DEF OwnershipTypeOK
  <2>2. IsCreated(manifest[g.token][q]) /\ manifest[g.token][q].file = g.file
    BY <1>0 DEF OwnershipInv, ReportedIsRegistered
  <2>3. g.token # t
    BY <1>0, <2>2 DEF ids
  <2> QED
    BY <1>1, <2>1, <2>2, <2>3
<1> QED
  BY <1>5, <1>6, <1>7, <1>9, <1>10, <1>11 DEF OwnershipInv

LEMMA OwnershipStep == OwnershipInv /\ [OwnershipNext]_ownershipVars => OwnershipInv'
<1> SUFFICES ASSUME OwnershipInv, [OwnershipNext]_ownershipVars
             PROVE  OwnershipInv'
  OBVIOUS
<1>1. CASE OwnershipNext
  BY <1>1, OwnershipSteps, BeginsKeeps, MovesKeeps, PublishesKeeps, RegistersKeeps, RemovesKeeps,
     DeletesKeeps, ReleaseKeeps, EditsKeeps
<1>2. CASE UNCHANGED ownershipVars
  BY <1>2 DEF ownershipVars, OwnershipInv, OwnershipTypeOK, IdsSound, RequestsSound, RequestOK,
     PendingSound, PendingOK, RecordsSound, ReportedIsRegistered, ReportedIsReviewed,
     FailureLeavesNothing
<1> QED
  BY <1>1, <1>2

\* What the registry of exported files (_reserve_output, _mark_output_created,
\* _discard_reservation, cleanup_exports and release_exports in
\* src/engine/engine.py) keeps through every request, crash and edit.
THEOREM OwnershipIsInductive == OwnershipSpec => []OwnershipInv
  BY OwnershipInitHolds, OwnershipStep, PTL DEF OwnershipSpec

\* A file that was reported to the client stays in the manifest of its token
\* until it is released or gone, was made from what was asked for, and a request
\* that reports no file leaves none: for any number of tokens, paths, processes
\* and contents (_mark_output_created and its callers).
THEOREM RegistryAgrees == OwnershipSpec => []OwnershipKept
<1>1. OwnershipInv => OwnershipKept
  BY DEF OwnershipInv, OwnershipKept
<1> QED
  BY <1>1, OwnershipIsInductive, PTL

\* Neither a failed request (_remove_published_file) nor a cleanup
\* (_unlink_owned_file in cleanup_exports) takes a file that the engine did not
\* create, that somebody changed, or whose token was released.
THEOREM ForeignFilesStay == OwnershipSpec => OnlyOwnFilesGo
<1> DEFINE Own == \A q \in Paths :
         disk[q] # Absent /\ disk'[q] # disk[q] /\ edits' = edits
           => disk[q] \in made /\ disk[q].id \notin kept
<1>1. ASSUME OwnershipInv, OwnershipNext PROVE Own
  <2> SUFFICES ASSUME NEW q \in Paths, disk[q] # Absent, disk'[q] # disk[q], edits' = edits
               PROVE  disk[q] \in made /\ disk[q].id \notin kept
    OBVIOUS
  <2>0. OwnershipTypeOK
    BY <1>1 DEF OwnershipInv
  <2>1. ASSUME NEW p \in Procs, Publishes(p) PROVE FALSE
    BY <2>0, <2>1 DEF Publishes, OwnershipTypeOK
  <2>2. ASSUME NEW p \in Procs, Removes(p)
        PROVE  disk[q] \in made /\ disk[q].id \notin kept
    <3>1. proc[p] \in RequestOf(made) /\ RequestOK(proc[p]) /\ proc[p] # Idle
      BY <1>1, <2>0, <2>2, RequestType DEF Removes, OwnershipInv, RequestsSound
    <3>2. proc[p].file \in made /\ proc[p].file # Absent
      BY <2>2, <3>1 DEF Removes, RequestOK, RequestOf
    <3>3. PendingOK(p)
      BY <1>1, <3>1, <3>2 DEF OwnershipInv, PendingSound
    <3>4. disk[q] = proc[p].file
      BY <2>0, <2>2 DEF Removes, OwnershipTypeOK
    <3> QED
      BY <3>2, <3>3, <3>4 DEF PendingOK
  <2>3. ASSUME NEW t \in Tokens, NEW gone \in SUBSET Paths, NEW keep \in SUBSET Paths,
               Deletes(t, gone, keep)
        PROVE  disk[q] \in made /\ disk[q].id \notin kept
    <3>1. q \in Deletable(t)
      BY <2>3 DEF Deletes
    <3>2. IsCreated(manifest[t][q]) /\ disk[q] = manifest[t][q].file
      BY <3>1 DEF Deletable, Owned
    <3> QED
      BY <1>1, <2>0, <3>2, RecordType DEF OwnershipInv, RecordsSound
  <2>4. ~Edits
    <3>1. edits \in Nat
      BY <2>0, BoundsAreNumbers DEF OwnershipTypeOK
    <3> QED
      BY <3>1 DEF Edits, UserEdits, UserWritesSource
  <2>5. ASSUME NEW p \in Procs, Begins(p) \/ Moves(p) \/ Registers(p) PROVE FALSE
    BY <2>5 DEF Begins, Moves, Registers
  <2>6. ASSUME NEW t \in Tokens, Release(t) PROVE FALSE
    BY <2>6 DEF Release
  <2> QED
    BY <1>1, <2>1, <2>2, <2>3, <2>4, <2>5, <2>6, OwnershipSteps
<1>2. OwnershipInv /\ [OwnershipNext]_ownershipVars => [Own]_ownershipVars
  BY <1>1
<1>3. OwnershipSpec => [][Own]_ownershipVars
  BY <1>2, OwnershipIsInductive, PTL DEF OwnershipSpec
<1> QED
  BY <1>3 DEF OnlyOwnFilesGo

(***************************************************************************)
(* The life of an export intent                                            *)
(***************************************************************************)
IsOpen(r) == r.state \notin {"closed", "published"}
OpenIntents == {i \in Intents : journal[i] # NoRecord /\ IsOpen(journal[i])}

RecordOK(r) ==
    /\ r.state \in {"created", "rendered", "publishing"} => r.full
    /\ r.state = "closed" => ~r.full

BundleTypes ==
    /\ journal \in [Intents -> Records \cup {NoRecord}]
    /\ previews \subseteq AllTokens /\ owners \subseteq AllTokens
    /\ tokens \subseteq taskTokens /\ taskTokens \subseteq AllTokens
    /\ shown \in [Intents -> {"no", "open", "closing"}]
    /\ host \in HostSteps
    /\ intentsMade \in 0..MaxIntents

\* Every record is well formed, was made, and has its place among the open ones.
JournalOK ==
    /\ \A i \in Recorded : i <= intentsMade /\ RecordOK(journal[i])
    /\ Cardinality(OpenIntents) <= Capacity

\* What depends on an intent is there only as long as its record, a closed one
\* has no files, and what the user looks at is complete and in use.
IntentOK(i) ==
    /\ journal[i] = NoRecord => TokensOf(i) \cap (previews \cup owners) = {}
    /\ journal[i] # NoRecord /\ journal[i].state = "closed" => TokensOf(i) \cap previews = {}
    /\ shown[i] # "no" => i <= intentsMade
    /\ shown[i] = "open" =>
         /\ TokensOf(i) \subseteq previews /\ TokensOf(i) \subseteq tokens
         /\ journal[i] # NoRecord
         /\ journal[i].state \in {"rendered", "publishing", "published"}

\* The host is in the middle of an intent that the user does not look at; while
\* it registers previews, the intent is a new one.
HostOK ==
    /\ host.at = "reconcile" /\ host.op = "create" => intentsMade < MaxIntents
    /\ host.at \in {"register", "close", "release", "abandon"} =>
         /\ host.todo \subseteq TokensOf(host.intent)
         /\ shown[host.intent] # "open"
    /\ host.at = "register" =>
         /\ journal[host.intent] # NoRecord
         /\ journal[host.intent].state = "created"
         /\ host.intent <= intentsMade
         /\ TokensOf(host.intent) \ host.todo \subseteq tokens

BundleInv == BundleTypes /\ JournalOK /\ HostOK /\ \A i \in Intents : IntentOK(i)

\* A token says which intent it is of.
LEMMA TokensSound ==
    /\ \A i \in Intents : TokensOf(i) \subseteq AllTokens /\ TokensOf(i) # {}
    /\ \A t \in AllTokens : t[1] \in Intents /\ t \in TokensOf(t[1])
    /\ \A i \in Intents : \A t \in TokensOf(i) : t[1] = i
<1>1. \A i \in Intents : \A t \in TokensOf(i) : t[1] = i
  BY DEF TokensOf
<1>2. \A i \in Intents : TokensOf(i) # {}
  <2>1. \A i \in Intents : 1 \in 1..FilesOf[i]
    BY BundleAssumption DEF Intents
  <2>2. \A i \in Intents : <<i, 1>> \in {i} \X (1..FilesOf[i])
    BY <2>1
  <2> QED
    BY <2>2 DEF TokensOf
<1>3. \A i \in Intents : TokensOf(i) \subseteq AllTokens
  BY DEF AllTokens
<1>4. \A t \in AllTokens : \E i \in Intents : t \in TokensOf(i)
  BY DEF AllTokens
<1> QED
  BY <1>1, <1>2, <1>3, <1>4

\* The records that a step keeps, closes or removes leave room.
LEMMA JournalKept ==
    ASSUME BundleInv, BundleTypes', intentsMade' = intentsMade,
           \A i \in Intents : journal'[i] # NoRecord =>
             /\ journal[i] # NoRecord
             /\ RecordOK(journal'[i])
             /\ IsOpen(journal'[i]) => IsOpen(journal[i])
    PROVE  JournalOK'
<1>1. \A i \in Recorded' : i <= intentsMade' /\ RecordOK(journal'[i])
  BY DEF BundleInv, JournalOK, Recorded
<1>2. OpenIntents' \subseteq OpenIntents
  BY DEF OpenIntents
<1>3. IsFiniteSet(Intents)
  BY FS_Interval, BundleAssumption DEF Intents
<1>4. IsFiniteSet(OpenIntents)
  BY <1>3, FS_Subset DEF OpenIntents
<1>5. /\ Cardinality(OpenIntents') <= Cardinality(OpenIntents)
      /\ Cardinality(OpenIntents') \in Nat /\ Cardinality(OpenIntents) \in Nat
  BY <1>2, <1>4, FS_Subset, FS_CardinalityType
<1>6. Cardinality(OpenIntents') <= Capacity
  BY <1>5, BundleAssumption DEF BundleInv, JournalOK
<1> QED
  BY <1>1, <1>6 DEF JournalOK

\* Nothing happens to an intent, or it has less than before and is not shown.
LEMMA IntentKept ==
    ASSUME NEW i \in Intents, IntentOK(i), journal'[i] = journal[i],
           shown'[i] # "no" => shown[i] # "no" /\ intentsMade' = intentsMade,
           TokensOf(i) \cap previews' \subseteq previews,
           TokensOf(i) \cap owners' \subseteq owners,
           shown'[i] = "open" =>
             /\ shown[i] = "open"
             /\ TokensOf(i) \cap previews \subseteq previews'
             /\ TokensOf(i) \cap tokens \subseteq tokens'
    PROVE  IntentOK(i)'
<1>1. TokensOf(i)' = TokensOf(i)
  BY DEF TokensOf
<1> QED
  BY <1>1 DEF IntentOK

\* What the host holds while it is busy.
LEMMA HostType ==
    ASSUME BundleTypes
    PROVE  /\ host.at = "reconcile" =>
                /\ host.op \in {"create", "status"} /\ host.todo \in SUBSET Intents
                /\ host = [at |-> "reconcile", op |-> host.op, todo |-> host.todo]
           /\ host.at \in {"register", "close", "abandon"} =>
                /\ host.op = "create" /\ host.intent \in Intents /\ host.todo \in SUBSET AllTokens
                /\ host = [at |-> host.at, op |-> "create", intent |-> host.intent,
                           todo |-> host.todo]
           /\ host.at = "release" =>
                /\ host.op \in {"create", "close"} /\ host.intent \in Intents
                /\ host.todo \in SUBSET AllTokens
                /\ host = [at |-> "release", op |-> host.op, intent |-> host.intent,
                           todo |-> host.todo]
  BY DEF BundleTypes, HostSteps, HostIdle

\* A record is no other thing.
LEMMA IntentRecordType ==
    ASSUME BundleTypes, NEW i \in Intents, journal[i] # NoRecord
    PROVE  journal[i] \in Records /\ State(i) = journal[i].state /\ State(i) # NoRecord
<1>1. journal[i] \in Records
  BY DEF BundleTypes
<1>2. journal[i].state \in States
  BY <1>1 DEF Records
<1> QED
  BY <1>1, <1>2, NoRecordAssumption DEF State

\* What the record of an intent says when it goes.
Settled == \A i \in Recorded : journal'[i] = NoRecord =>
             State(i) # "publishing" /\ ~journal[i].residual

\* The operations of the host and the user.
LEMMA StartStep == ASSUME BundleInv, NEW op \in {"create", "status"}, Start(op)
                   PROVE  BundleInv' /\ Settled
<1>1. BundleTypes'
  BY DEF BundleInv, BundleTypes, Start, HostSteps, Recorded
<1>2. JournalOK' /\ \A i \in Intents : IntentOK(i)'
  BY DEF BundleInv, Start, JournalOK, Recorded, OpenIntents, IntentOK, TokensOf
<1>3. HostOK'
  BY DEF HostOK, Start
<1>4. Settled
  BY DEF Settled, Start, Recorded
<1> QED
  BY <1>1, <1>2, <1>3, <1>4 DEF BundleInv

\* Steps that leave the journal and what is shown alone.
LEMMA QuietStep ==
    ASSUME BundleInv, BundleTypes', HostOK', UNCHANGED <<journal, shown, intentsMade>>,
           previews' \subseteq previews, owners' \subseteq owners,
           \A i \in Intents : shown[i] = "open" =>
             /\ TokensOf(i) \cap previews \subseteq previews'
             /\ TokensOf(i) \cap tokens \subseteq tokens'
    PROVE  BundleInv' /\ Settled
<1>1. JournalOK'
  BY DEF BundleInv, JournalOK, Recorded, OpenIntents
<1>2. \A i \in Intents : IntentOK(i)'
  BY IntentKept DEF BundleInv
<1>3. Settled
  BY DEF Settled, Recorded
<1> QED
  BY <1>1, <1>2, <1>3 DEF BundleInv

\* The record of one intent changes or goes.
LEMMA RecordStep ==
    ASSUME BundleInv, BundleTypes', HostOK', intentsMade' = intentsMade,
           NEW j \in Intents, journal[j] # NoRecord, IntentOK(j)',
           NEW r \in Records \cup {NoRecord}, journal' = [journal EXCEPT ![j] = r],
           r # NoRecord => RecordOK(r) /\ (IsOpen(r) => IsOpen(journal[j])),
           r = NoRecord => State(j) # "publishing" /\ ~journal[j].residual,
           \A i \in Intents \ {j} : shown'[i] = shown[i],
           \A t \in AllTokens \ TokensOf(j) : /\ t \in previews' => t \in previews
                                              /\ t \in owners' => t \in owners,
           \A i \in Intents \ {j} : shown[i] = "open" =>
             /\ TokensOf(i) \cap previews \subseteq previews'
             /\ TokensOf(i) \cap tokens \subseteq tokens'
    PROVE  BundleInv' /\ Settled
<1>0. BundleTypes
  BY DEF BundleInv
<1>1. journal'[j] = r /\ \A i \in Intents \ {j} : journal'[i] = journal[i]
  BY <1>0 DEF BundleTypes
<1>2. \A i \in Recorded : RecordOK(journal[i])
  BY DEF BundleInv, JournalOK
<1>3. JournalOK'
  BY <1>1, <1>2, JournalKept DEF Recorded
<1>4. ASSUME NEW i \in Intents \ {j} PROVE IntentOK(i)'
  <2>1. TokensOf(i) \cap TokensOf(j) = {} /\ TokensOf(i) \subseteq AllTokens
    BY <1>4, TokensSound
  <2>2. TokensOf(i) \cap previews' \subseteq previews /\ TokensOf(i) \cap owners' \subseteq owners
    BY <2>1
  <2>3. IntentOK(i)
    BY <1>4 DEF BundleInv
  <2> QED
    BY <1>1, <1>4, <2>2, <2>3, IntentKept
<1>5. Settled
  BY <1>1 DEF Settled, Recorded
<1> QED
  BY <1>3, <1>4, <1>5 DEF BundleInv

\* A closed record is a record, and not an open one.
LEMMA ClosedType ==
    ASSUME BundleTypes, NEW i \in Intents, journal[i] # NoRecord
    PROVE  /\ Closed(i) \in Records /\ Closed(i) # NoRecord /\ RecordOK(Closed(i))
           /\ ~IsOpen(Closed(i)) /\ Closed(i).state \in {"published", "closed"}
           /\ Closed(i).residual = journal[i].residual
<1>1. journal[i] \in [state : States, full : BOOLEAN, residual : BOOLEAN]
  BY IntentRecordType DEF Records
<1>2. /\ Closed(i).state = IF journal[i].state = "published" THEN "published" ELSE "closed"
      /\ Closed(i).full = FALSE /\ Closed(i).residual = journal[i].residual
      /\ Closed(i) \in [state : States, full : BOOLEAN, residual : BOOLEAN]
  BY <1>1 DEF Closed, States
<1> QED
  BY <1>2, NoRecordAssumption DEF Records, RecordOK, IsOpen

\* The engine closes an intent that the user does not look at.
LEMMA CloseStep ==
    ASSUME BundleInv, BundleTypes', HostOK', NEW j \in Intents, Closes(j),
           NEW r,
           \/ r = Closed(j)
           \/ r = NoRecord /\ MayBeRemoved(Closed(j), owners' \cap TokensOf(j)),
           journal' = [journal EXCEPT ![j] = r],
           owners' \subseteq owners, tokens' = tokens, intentsMade' = intentsMade,
           shown'[j] # "open", shown'[j] # "no" => shown[j] # "no",
           \A i \in Intents \ {j} : shown'[i] = shown[i]
    PROVE  BundleInv' /\ Settled
<1>0. /\ BundleTypes /\ journal[j] # NoRecord /\ IntentOK(j)
      /\ State(j) = journal[j].state /\ State(j) # "publishing"
  BY IntentRecordType DEF BundleInv, Closes, State
<1>1. /\ Closed(j) \in Records /\ RecordOK(Closed(j)) /\ ~IsOpen(Closed(j))
      /\ Closed(j).state \in {"published", "closed"} /\ Closed(j).residual = journal[j].residual
      /\ Closed(j) # NoRecord
  BY <1>0, ClosedType
<1>2. journal'[j] = r /\ previews' = previews \ TokensOf(j)
  BY <1>0 DEF BundleTypes, Closes
<1>3. r = NoRecord => TokensOf(j) \cap owners' = {} /\ ~journal[j].residual
  BY <1>1 DEF MayBeRemoved
<1>4. IntentOK(j)'
  <2>1. TokensOf(j)' = TokensOf(j)
    BY DEF TokensOf
  <2> QED
    BY <1>0, <1>1, <1>2, <1>3, <2>1 DEF IntentOK
<1>5. \A i \in Intents \ {j} : TokensOf(i) \cap previews \subseteq previews'
  BY <1>2, TokensSound
<1> QED
  BY <1>0, <1>1, <1>2, <1>3, <1>4, <1>5, RecordStep

LEMMA ReconcileStep == ASSUME BundleInv, NEW j \in Intents, Reconcile(j)
                       PROVE  BundleInv' /\ Settled
<1>0. /\ BundleTypes /\ HostOK /\ host.at = "reconcile" /\ host.todo \in SUBSET Intents
      /\ host = [at |-> "reconcile", op |-> host.op, todo |-> host.todo]
      /\ host.op \in {"create", "status"}
      /\ UNCHANGED <<tokens, taskTokens, shown, intentsMade>>
  BY HostType DEF BundleInv, Reconcile
<1>1. /\ host' = [at |-> "reconcile", op |-> host.op, todo |-> host.todo \ {j}]
      /\ host' \in HostSteps
  BY <1>0 DEF Reconcile, HostSteps
<1>2. HostOK'
  BY <1>0, <1>1 DEF HostOK
<1>3. ~InUse(j) => shown[j] # "open"
  BY TokensSound DEF InUse, BundleInv, IntentOK
<1>4. CASE UNCHANGED <<journal, previews, owners>>
  <2>1. BundleTypes'
    BY <1>0, <1>1, <1>4 DEF BundleTypes
  <2> QED
    BY <1>0, <1>2, <1>4, <2>1, QuietStep
<1>5. CASE ~InUse(j) /\ CloseStops(j) /\ UNCHANGED owners
  <2>1. previews' \subseteq previews /\ previews \ TokensOf(j) \subseteq previews'
    BY <1>5 DEF CloseStops
  <2>2. BundleTypes'
    BY <1>0, <1>1, <1>5, <2>1 DEF BundleTypes, CloseStops
  <2>3. \A i \in Intents : shown[i] = "open" => TokensOf(i) \cap previews \subseteq previews'
    BY <1>3, <1>5, <2>1, TokensSound
  <2>4. UNCHANGED journal
    BY <1>5 DEF CloseStops
  <2> QED
    BY <1>0, <1>2, <1>5, <2>1, <2>2, <2>3, <2>4, QuietStep
<1>6. ASSUME ~InUse(j), Closes(j), NEW released \in SUBSET TokensOf(j),
             owners' = owners \ released,
             LET rest == (owners \cap TokensOf(j)) \ released
             IN  journal' = [journal EXCEPT ![j] =
                   IF released = TokensOf(j) /\ MayBeRemoved(Closed(j), rest)
                   THEN NoRecord ELSE Closed(j)]
      PROVE  BundleInv' /\ Settled
  <2> DEFINE r == IF /\ released = TokensOf(j)
                     /\ MayBeRemoved(Closed(j), (owners \cap TokensOf(j)) \ released)
                  THEN NoRecord ELSE Closed(j)
  <2>1. (owners \cap TokensOf(j)) \ released = owners' \cap TokensOf(j)
    BY <1>6
  <2>2. r = Closed(j) \/ (r = NoRecord /\ MayBeRemoved(Closed(j), owners' \cap TokensOf(j)))
    BY <2>1
  <2>3. journal' = [journal EXCEPT ![j] = r]
    BY <1>6
  <2>4. Closed(j) \in Records
    BY <1>0, <1>6, ClosedType DEF Closes, State
  <2>5. r \in Records \cup {NoRecord}
    BY <2>4
  <2> HIDE DEF r
  <2>6. BundleTypes'
    BY <1>0, <1>1, <1>6, <2>3, <2>5 DEF BundleTypes, Closes
  <2>7. /\ owners' \subseteq owners /\ tokens' = tokens /\ intentsMade' = intentsMade
        /\ shown'[j] # "open" /\ shown' = shown
    BY <1>0, <1>3, <1>6
  <2> QED
    BY <1>2, <1>6, <2>2, <2>3, <2>6, <2>7, CloseStep
<1> QED
  BY <1>3, <1>4, <1>5, <1>6 DEF Reconcile

LEMMA StatusStep == ASSUME BundleInv, Status PROVE BundleInv' /\ Settled
<1>0. /\ BundleTypes /\ UNCHANGED <<previews, owners, tokens, taskTokens, shown, intentsMade>>
      /\ host' = HostIdle
  BY DEF BundleInv, Status
<1> PICK done \in SUBSET {i \in Intents : State(i) = "publishing"} :
      journal' = [i \in Intents |-> IF i \in done THEN [journal[i] EXCEPT !.state = "published"]
                                    ELSE journal[i]]
  BY DEF Status
<1>1. \A i \in Intents : journal'[i] = journal[i]
        \/ /\ journal[i] # NoRecord /\ journal[i].state = "publishing"
           /\ journal'[i] = [journal[i] EXCEPT !.state = "published"]
  BY NoRecordAssumption DEF State, States
<1>2. \A i \in Intents : journal'[i] = journal[i]
        \/ /\ journal[i] # NoRecord /\ journal[i].state = "publishing"
           /\ journal'[i] \in Records /\ journal'[i] # NoRecord
           /\ journal'[i].state = "published"
  BY <1>0, <1>1, NoRecordAssumption DEF BundleTypes, Records, States
<1>3. BundleTypes'
  <2>1. \A i \in Intents : journal'[i] \in Records \cup {NoRecord}
    BY <1>0, <1>2 DEF BundleTypes
  <2>2. journal' \in [Intents -> Records \cup {NoRecord}]
    BY <2>1
  <2> QED
    BY <1>0, <2>2 DEF BundleTypes, HostSteps
<1>4. HostOK'
  BY <1>0 DEF HostOK, HostIdle
<1>5. \A i \in Recorded : RecordOK(journal[i])
  BY DEF BundleInv, JournalOK
<1>6. JournalOK'
  BY <1>0, <1>2, <1>3, <1>5, JournalKept DEF Recorded, RecordOK, IsOpen
<1>7. ASSUME NEW i \in Intents PROVE IntentOK(i)'
  <2>1. TokensOf(i)' = TokensOf(i) /\ IntentOK(i)
    BY DEF TokensOf, BundleInv
  <2> QED
    BY <1>0, <1>2, <2>1 DEF IntentOK
<1>8. Settled
  BY <1>2 DEF Settled, Recorded
<1> QED
  BY <1>3, <1>4, <1>6, <1>7, <1>8 DEF BundleInv

LEMMA DropClosedStep == ASSUME BundleInv, DropClosed PROVE BundleInv' /\ Settled
<1>0. BundleTypes /\ HostOK
      /\ UNCHANGED <<previews, owners, tokens, taskTokens, shown, host, intentsMade>>
  BY DEF BundleInv, DropClosed
<1> PICK j \in Droppable : journal' = [journal EXCEPT ![j] = NoRecord]
  BY DEF DropClosed
<1>1. /\ j \in Intents /\ journal[j] # NoRecord /\ State(j) = "closed" /\ ~journal[j].residual
      /\ owners \cap TokensOf(j) = {} /\ journal[j].state = "closed"
  BY <1>0, IntentRecordType DEF Droppable, Recorded, MayBeRemoved
<1>2. BundleTypes' /\ journal'[j] = NoRecord
  BY <1>0, <1>1 DEF BundleTypes
<1>3. HostOK'
  <2>1. host.at = "register" => host.intent \in Intents /\ host.intent # j
    BY <1>0, <1>1, HostType DEF HostOK
  <2>2. host.at = "register" => journal'[host.intent] = journal[host.intent]
    BY <1>0, <2>1 DEF BundleTypes
  <2>3. TokensOf(host.intent)' = TokensOf(host.intent)
    BY <1>0 DEF TokensOf
  <2> QED
    BY <1>0, <2>2, <2>3 DEF HostOK
<1>4. IntentOK(j)'
  <2>1. TokensOf(j)' = TokensOf(j)
    BY DEF TokensOf
  <2> QED
    BY <1>0, <1>1, <1>2, <2>1 DEF IntentOK, BundleInv
<1> QED
  BY <1>0, <1>1, <1>2, <1>3, <1>4, RecordStep

LEMMA RetireStep == ASSUME BundleInv, Retire PROVE BundleInv' /\ Settled
<1>0. BundleTypes /\ HostOK /\ host.at = "reconcile"
      /\ UNCHANGED <<previews, owners, tokens, taskTokens, shown, host, intentsMade>>
  BY DEF BundleInv, Retire, Creating
<1> PICK j \in Aged : journal' = [journal EXCEPT ![j] = NoRecord]
  BY DEF Retire
<1>1. /\ j \in Intents /\ journal[j] # NoRecord /\ State(j) = "published" /\ ~journal[j].residual
      /\ TokensOf(j) \cap (owners \cup previews) = {}
  BY DEF Aged, Receipts, Recorded, Retirable
<1>2. BundleTypes' /\ journal'[j] = NoRecord /\ HostOK'
  BY <1>0, <1>1 DEF BundleTypes, HostOK
<1>3. IntentOK(j)'
  <2>1. TokensOf(j)' = TokensOf(j) /\ TokensOf(j) # {}
    BY <1>1, TokensSound DEF TokensOf
  <2> QED
    BY <1>0, <1>1, <1>2, <2>1 DEF IntentOK, BundleInv
<1> QED
  BY <1>0, <1>1, <1>2, <1>3, RecordStep

LEMMA NewIntentStep == ASSUME BundleInv, NewIntent PROVE BundleInv' /\ Settled
<1> DEFINE j == intentsMade + 1
           r == [state |-> "created", full |-> TRUE, residual |-> FALSE]
<1>0. /\ BundleTypes /\ JournalOK /\ HostOK /\ intentsMade \in Nat
      /\ host.at = "reconcile" /\ host.op = "create" /\ HasCapacity
      /\ UNCHANGED <<previews, owners, tokens, taskTokens, shown>>
  BY BundleAssumption DEF BundleInv, NewIntent, Creating, BundleTypes
<1>1. intentsMade' = j /\ j \in Intents /\ intentsMade < MaxIntents /\ j \in Nat
  BY <1>0, BundleAssumption DEF NewIntent, HostOK, Intents
<1>2. r \in Records /\ r # NoRecord /\ RecordOK(r)
  <2>1. r \in Records
    BY DEF Records, States
  <2>2. RecordOK(r)
    BY DEF RecordOK
  <2> QED
    BY <2>1, <2>2, NoRecordAssumption
<1>3. journal' = [journal EXCEPT ![j] = r]
  BY <1>1 DEF NewIntent
<1>4. \/ host' = [at |-> "register", op |-> "create", intent |-> j, todo |-> TokensOf(j)]
      \/ host' = HostIdle
  BY <1>1 DEF NewIntent, TokensOf
<1>5. r.state = "created"
  OBVIOUS
<1>6. journal[j] = NoRecord /\ shown[j] = "no"
  <2>1. ~(j <= intentsMade)
    BY <1>0
  <2>2. journal[j] = NoRecord
    BY <1>0, <1>1, <2>1 DEF JournalOK, Recorded
  <2>3. IntentOK(j)
    BY <1>1 DEF BundleInv
  <2> QED
    BY <2>1, <2>2, <2>3 DEF IntentOK
<1> HIDE DEF r
<1>7. journal'[j] = r /\ \A i \in Intents \ {j} : journal'[i] = journal[i]
  BY <1>0, <1>1, <1>3 DEF BundleTypes
<1>8. BundleTypes'
  <2>1. TokensOf(j) \subseteq AllTokens
    BY <1>1, TokensSound
  <2>2. host' \in HostSteps
    BY <1>1, <1>4, <2>1 DEF HostSteps
  <2>3. intentsMade' \in 0..MaxIntents
    BY <1>0, <1>1, BundleAssumption
  <2> QED
    BY <1>0, <1>1, <1>2, <1>3, <2>2, <2>3 DEF BundleTypes
<1>9. JournalOK'
  <2>1. \A i \in Recorded' : i <= intentsMade' /\ RecordOK(journal'[i])
    <3>1. \A i \in Recorded : i \in Nat /\ i <= intentsMade + 1
      BY <1>0 DEF JournalOK, Recorded, Intents
    <3> QED
      BY <1>0, <1>1, <1>2, <1>7, <3>1 DEF JournalOK, Recorded
  <2>2. OpenIntents' \subseteq OpenIntents \cup {j} /\ j \notin OpenIntents
    BY <1>6, <1>7 DEF OpenIntents
  <2>3. Cardinality(OpenIntents) < Capacity
    <3>1. OpenIntents = {i \in Recorded : State(i) \notin {"closed", "published"}}
      BY <1>0, IntentRecordType DEF OpenIntents, Recorded, IsOpen
    <3> QED
      BY <1>0, <3>1 DEF HasCapacity
  <2>4. IsFiniteSet(OpenIntents)
    <3>1. IsFiniteSet(Intents)
      BY FS_Interval, BundleAssumption DEF Intents
    <3> QED
      BY <3>1, FS_Subset DEF OpenIntents
  <2>5. /\ IsFiniteSet(OpenIntents \cup {j})
        /\ Cardinality(OpenIntents \cup {j}) = Cardinality(OpenIntents) + 1
        /\ Cardinality(OpenIntents) \in Nat
    BY <2>2, <2>4, FS_AddElement, FS_CardinalityType
  <2>6. /\ Cardinality(OpenIntents') \in Nat
        /\ Cardinality(OpenIntents') <= Cardinality(OpenIntents \cup {j})
    BY <2>2, <2>5, FS_Subset, FS_CardinalityType
  <2>7. Cardinality(OpenIntents') <= Capacity
    BY <2>3, <2>5, <2>6, BundleAssumption
  <2> QED
    BY <2>1, <2>7 DEF JournalOK
<1>10. HostOK'
  BY <1>0, <1>1, <1>2, <1>4, <1>5, <1>6, <1>7 DEF HostOK, HostIdle, TokensOf
<1>11. ASSUME NEW i \in Intents PROVE IntentOK(i)'
  <2>1. TokensOf(i)' = TokensOf(i) /\ IntentOK(i)
    BY DEF TokensOf, BundleInv
  <2>2. CASE i = j
    BY <1>0, <1>2, <1>5, <1>6, <1>7, <2>1, <2>2 DEF IntentOK
  <2>3. CASE i # j
    BY <1>0, <1>1, <1>7, <2>1, <2>3 DEF IntentOK, Intents
  <2> QED
    BY <2>2, <2>3
<1>12. Settled
  BY <1>2, <1>7 DEF Settled, Recorded
<1> QED
  BY <1>8, <1>9, <1>10, <1>11, <1>12 DEF BundleInv

\* The previews of a new intent.
LEMMA RegisterStep == ASSUME BundleInv, NEW t \in AllTokens, Register(t)
                      PROVE  BundleInv' /\ Settled
<1> PICK j \in Intents : j = host.intent
  BY HostType DEF BundleInv, Register
<1>0. /\ BundleTypes /\ JournalOK /\ HostOK /\ host.at = "register" /\ host.op = "create"
      /\ host.todo \in SUBSET AllTokens /\ t \in host.todo
      /\ host = [at |-> "register", op |-> "create", intent |-> host.intent, todo |-> host.todo]
      /\ UNCHANGED <<journal, previews, shown, intentsMade>>
  BY HostType DEF BundleInv, Register
<1>1. /\ journal[j] # NoRecord /\ journal[j].state = "created" /\ shown[j] # "open"
      /\ t \in TokensOf(j) /\ host.todo \subseteq TokensOf(j)
      /\ TokensOf(j) \ host.todo \subseteq tokens /\ j <= intentsMade
  BY <1>0 DEF HostOK
<1>2. /\ owners' \subseteq owners \cup {t}
      /\ tokens \subseteq tokens' /\ tokens' \subseteq taskTokens'
      /\ taskTokens' \subseteq taskTokens \cup {t}
      /\ \/ /\ host' = [at |-> "register", op |-> "create", intent |-> j, todo |-> host.todo \ {t}]
            /\ tokens' = tokens \cup {t}
         \/ host' = [at |-> "close", op |-> "create", intent |-> j, todo |-> host.todo]
  BY <1>0 DEF Register, HostGoto, BundleTypes
<1>3. BundleTypes'
  <2>1. host' \in HostSteps
    BY <1>0, <1>2 DEF HostSteps
  <2> QED
    BY <1>0, <1>2, <2>1 DEF BundleTypes
<1>4. HostOK'
  <2>2. host'.intent = j /\ host'.at \in {"register", "close"} /\ host'.op = "create"
    BY <1>2
  <2>3. host'.todo \subseteq TokensOf(j)
    BY <1>1, <1>2
  <2>4. host'.at = "register" => TokensOf(j) \ host'.todo \subseteq tokens'
    BY <1>1, <1>2
  <2> QED
    BY <1>0, <1>1, <2>2, <2>3, <2>4 DEF HostOK, TokensOf
<1>5. JournalOK'
  BY <1>0 DEF JournalOK, Recorded, OpenIntents
<1>6. ASSUME NEW i \in Intents PROVE IntentOK(i)'
  <2>1. TokensOf(i)' = TokensOf(i) /\ IntentOK(i)
    BY DEF TokensOf, BundleInv
  <2>2. i # j => t \notin TokensOf(i)
    BY <1>0, <1>1, TokensSound
  <2>3. TokensOf(i) \cap owners' \subseteq owners \/ i = j
    BY <1>2, <2>2
  <2> QED
    BY <1>0, <1>1, <1>2, <2>1, <2>3 DEF IntentOK
<1>7. Settled
  BY <1>0 DEF Settled, Recorded
<1> QED
  BY <1>3, <1>4, <1>5, <1>6, <1>7 DEF BundleInv

LEMMA RenderStep == ASSUME BundleInv, Render PROVE BundleInv' /\ Settled
<1> PICK j \in Intents : j = host.intent
  BY HostType DEF BundleInv, Render
<1> DEFINE rendered == [journal[j] EXCEPT !.state = "rendered"]
<1>0. /\ BundleTypes /\ HostOK /\ host.at = "register" /\ host.todo = {}
      /\ host.op = "create"
      /\ host = [at |-> "register", op |-> "create", intent |-> host.intent, todo |-> host.todo]
      /\ UNCHANGED <<owners, tokens, taskTokens, intentsMade>>
  BY HostType DEF BundleInv, Render
<1>1. /\ journal[j] # NoRecord /\ journal[j].state = "created" /\ shown[j] # "open"
      /\ TokensOf(j) \subseteq tokens /\ IntentOK(j) /\ j <= intentsMade
  BY <1>0 DEF HostOK, BundleInv
<1>2. /\ rendered \in Records /\ rendered # NoRecord /\ rendered.state = "rendered"
      /\ RecordOK(rendered)
  <2>1. journal[j] \in [state : States, full : BOOLEAN, residual : BOOLEAN] /\ RecordOK(journal[j])
    BY <1>0, <1>1, IntentRecordType DEF Records, BundleInv, JournalOK, Recorded
  <2> QED
    BY <1>1, <2>1, NoRecordAssumption DEF Records, States, RecordOK
<1>3. \/ /\ previews' = previews \cup TokensOf(j) /\ journal' = [journal EXCEPT ![j] = rendered]
         /\ \/ host' = HostIdle /\ shown' = [shown EXCEPT ![j] = "open"]
            \/ /\ host' = [at |-> "close", op |-> "create", intent |-> j, todo |-> {}]
               /\ UNCHANGED shown
      \/ /\ \E some \in SUBSET TokensOf(j) : previews' = previews \cup some
         /\ host' = [at |-> "close", op |-> "create", intent |-> j, todo |-> {}]
         /\ UNCHANGED <<journal, shown>>
  BY <1>0 DEF Render, HostGoto
<1> HIDE DEF rendered
<1>4. TokensOf(j) \subseteq AllTokens
  BY TokensSound
<1>5. /\ previews \subseteq previews' /\ previews' \subseteq previews \cup TokensOf(j)
      /\ previews' \subseteq AllTokens
      /\ shown' = shown \/ shown' = [shown EXCEPT ![j] = "open"]
      /\ journal' = journal \/ journal' = [journal EXCEPT ![j] = rendered]
  BY <1>0, <1>3, <1>4 DEF BundleTypes
<1>6. BundleTypes'
  <2>1. host' \in HostSteps
    BY <1>3 DEF HostSteps
  <2> QED
    BY <1>0, <1>2, <1>5, <2>1 DEF BundleTypes
<1>7. HostOK'
  <2>1. CASE host' = HostIdle
    BY <2>1 DEF HostOK, HostIdle
  <2>2. CASE host' = [at |-> "close", op |-> "create", intent |-> j, todo |-> {}] /\ UNCHANGED shown
    BY <1>1, <2>2 DEF HostOK
  <2> QED
    BY <1>3, <2>1, <2>2
<1>8. journal'[j] \in {journal[j], rendered}
  BY <1>0, <1>5 DEF BundleTypes
<1>9. IntentOK(j)'
  <2>1. TokensOf(j)' = TokensOf(j)
    BY DEF TokensOf
  <2>2. shown'[j] = "open" => journal'[j] = rendered /\ TokensOf(j) \subseteq previews'
    BY <1>0, <1>1, <1>3 DEF BundleTypes
  <2> QED
    BY <1>0, <1>1, <1>2, <1>8, <2>1, <2>2 DEF IntentOK
<1>10. \A i \in Intents \ {j} : shown'[i] = shown[i]
  BY <1>0, <1>5 DEF BundleTypes
<1>11. PICK r \in Records : /\ journal' = [journal EXCEPT ![j] = r] /\ RecordOK(r)
                            /\ IsOpen(r) => IsOpen(journal[j])
  <2>1. CASE journal' = journal
    <3>1. journal[j] \in Records /\ RecordOK(journal[j])
      BY <1>0, <1>1, IntentRecordType DEF BundleInv, JournalOK, Recorded
    <3>2. journal' = [journal EXCEPT ![j] = journal[j]]
      BY <1>0, <2>1 DEF BundleTypes
    <3> QED
      BY <3>1, <3>2
  <2>2. CASE journal' = [journal EXCEPT ![j] = rendered]
    BY <1>1, <1>2, <2>2 DEF IsOpen
  <2> QED
    BY <1>5, <2>1, <2>2
<1>12. r # NoRecord
  BY <1>11, NoRecordAssumption
<1> QED
  BY <1>0, <1>1, <1>5, <1>6, <1>7, <1>9, <1>10, <1>11, <1>12, RecordStep

LEMMA HostCloseStep == ASSUME BundleInv, HostClose PROVE BundleInv' /\ Settled
<1> PICK j \in Intents : j = host.intent
  BY HostType DEF BundleInv, HostClose
<1>0. /\ BundleTypes /\ HostOK /\ host.at = "close" /\ host.op = "create"
      /\ host = [at |-> "close", op |-> "create", intent |-> host.intent, todo |-> host.todo]
      /\ host.todo \in SUBSET AllTokens
      /\ UNCHANGED <<owners, tokens, taskTokens, shown, intentsMade>>
  BY HostType DEF BundleInv, HostClose
<1>1. shown[j] # "open" /\ host.todo \subseteq TokensOf(j) /\ TokensOf(j) \subseteq AllTokens
  BY <1>0, TokensSound DEF HostOK
<1>2. CASE CloseStops(j) /\ HostGoto("abandon")
  <2>1. host' = [at |-> "abandon", op |-> "create", intent |-> j, todo |-> host.todo]
    BY <1>0, <1>2 DEF HostGoto
  <2>2. /\ previews' \subseteq previews /\ previews \ TokensOf(j) \subseteq previews'
        /\ UNCHANGED journal
    BY <1>2 DEF CloseStops
  <2>3. host' \in HostSteps
    BY <1>0, <2>1 DEF HostSteps
  <2>4. BundleTypes'
    BY <1>0, <2>2, <2>3 DEF BundleTypes
  <2>5. HostOK'
    BY <1>0, <1>1, <2>1 DEF HostOK, TokensOf
  <2>6. \A i \in Intents : shown[i] = "open" => TokensOf(i) \cap previews \subseteq previews'
    BY <1>1, <2>2, TokensSound
  <2> QED
    BY <1>0, <2>2, <2>4, <2>5, <2>6, QuietStep
<1>3. ASSUME Closes(j), journal' = [journal EXCEPT ![j] = Closed(j)],
             \/ HostGoto("abandon")
             \/ host' = [host EXCEPT !.at = "release", !.todo = TokensOf(j)]
      PROVE  BundleInv' /\ Settled
  <2>1. \/ host' = [at |-> "abandon", op |-> "create", intent |-> j, todo |-> host.todo]
        \/ host' = [at |-> "release", op |-> "create", intent |-> j, todo |-> TokensOf(j)]
    BY <1>0, <1>3 DEF HostGoto
  <2>2. host' \in HostSteps
    BY <1>0, <1>1, <2>1 DEF HostSteps
  <2>3. Closed(j) \in Records
    BY <1>0, <1>3, ClosedType DEF Closes, State
  <2>4. BundleTypes'
    BY <1>0, <1>3, <2>2, <2>3 DEF BundleTypes, Closes
  <2>5. HostOK'
    BY <1>0, <1>1, <2>1 DEF HostOK, TokensOf
  <2> QED
    BY <1>0, <1>1, <1>3, <2>4, <2>5, CloseStep
<1> QED
  BY <1>0, <1>2, <1>3 DEF HostClose

\* The rows and tokens of an intent whose files are gone.
LEMMA ReleaseTokenStep ==
    ASSUME BundleInv, NEW t \in AllTokens, ReleaseToken(t) \/ ReleaseFails(t)
    PROVE  BundleInv' /\ Settled
<1> PICK j \in Intents : j = host.intent
  BY HostType DEF BundleInv, ReleaseToken, ReleaseFails
<1>0. /\ BundleTypes /\ HostOK /\ host.at = "release" /\ host.op \in {"create", "close"}
      /\ host = [at |-> "release", op |-> host.op, intent |-> host.intent, todo |-> host.todo]
      /\ host.todo \in SUBSET AllTokens /\ t \in host.todo
      /\ UNCHANGED <<journal, previews, shown, intentsMade>>
  BY HostType DEF BundleInv, ReleaseToken, ReleaseFails
<1>1. shown[j] # "open" /\ host.todo \subseteq TokensOf(j) /\ TokensOf(j) \subseteq AllTokens
  BY <1>0, TokensSound DEF HostOK
<1>2. /\ owners' \subseteq owners
      /\ tokens' \subseteq taskTokens' /\ taskTokens' \subseteq taskTokens
      /\ tokens \ {t} \subseteq tokens'
      /\ \/ host' = HostIdle
         \/ host' = [at |-> "release", op |-> host.op, intent |-> j, todo |-> host.todo \ {t}]
  BY <1>0 DEF ReleaseToken, ReleaseFails, BundleTypes
<1>3. host' \in HostSteps
  BY <1>0, <1>2 DEF HostSteps
<1>4. BundleTypes'
  BY <1>0, <1>2, <1>3 DEF BundleTypes
<1>5. HostOK'
  BY <1>0, <1>1, <1>2 DEF HostOK, HostIdle, TokensOf
<1>6. \A i \in Intents : shown[i] = "open" => TokensOf(i) \cap tokens \subseteq tokens'
  BY <1>0, <1>1, <1>2, TokensSound
<1> QED
  BY <1>0, <1>2, <1>4, <1>5, <1>6, QuietStep

LEMMA AbandonStep == ASSUME BundleInv, Abandon PROVE BundleInv' /\ Settled
<1> PICK j \in Intents : j = host.intent
  BY HostType DEF BundleInv, Abandon
<1>0. /\ BundleTypes /\ HostOK /\ host' = HostIdle /\ tokens' = tokens \ TokensOf(j)
      /\ shown[j] # "open"
      /\ UNCHANGED <<journal, previews, owners, taskTokens, shown, intentsMade>>
  BY DEF BundleInv, Abandon, HostOK
<1>1. BundleTypes' /\ HostOK'
  BY <1>0 DEF BundleTypes, HostSteps, HostOK, HostIdle
<1>2. \A i \in Intents : shown[i] = "open" => TokensOf(i) \cap tokens \subseteq tokens'
  BY <1>0, TokensSound
<1> QED
  BY <1>0, <1>1, <1>2, QuietStep

\* The user closes a preview.
LEMMA ClientCloseStep == ASSUME BundleInv, NEW j \in Intents, ClientClose(j)
                         PROVE  BundleInv' /\ Settled
<1>0. /\ BundleTypes /\ HostOK /\ host = HostIdle /\ shown[j] # "no"
      /\ shown' = [shown EXCEPT ![j] = "closing"]
      /\ UNCHANGED <<owners, tokens, taskTokens, intentsMade>>
      /\ TokensOf(j) \subseteq AllTokens
  BY TokensSound DEF BundleInv, ClientClose
<1>1. shown'[j] = "closing" /\ \A i \in Intents \ {j} : shown'[i] = shown[i]
  BY <1>0 DEF BundleTypes
<1>2. ASSUME UNCHANGED <<journal, host>>, previews' \subseteq previews,
             previews \ TokensOf(j) \subseteq previews'
      PROVE  BundleInv' /\ Settled
  <2>1. BundleTypes' /\ HostOK'
    BY <1>0, <1>2 DEF BundleTypes, HostOK, HostIdle
  <2>2. JournalOK'
    BY <1>0, <1>2 DEF BundleInv, JournalOK, Recorded, OpenIntents
  <2>3. \A i \in Intents : IntentOK(i)'
    <3>1. \A i \in Intents \ {j} : TokensOf(i) \cap previews \subseteq previews'
      BY <1>2, TokensSound
    <3> QED
      BY <1>0, <1>1, <1>2, <3>1, IntentKept DEF BundleInv
  <2>4. Settled
    BY <1>2 DEF Settled, Recorded
  <2> QED
    BY <2>1, <2>2, <2>3, <2>4 DEF BundleInv
<1>3. CASE CloseStops(j) /\ UNCHANGED host
  BY <1>2, <1>3 DEF CloseStops
<1>4. ASSUME Closes(j), journal' = [journal EXCEPT ![j] = Closed(j)],
             \/ host' = [at |-> "release", op |-> "close", intent |-> j, todo |-> TokensOf(j)]
             \/ UNCHANGED host
      PROVE  BundleInv' /\ Settled
  <2>1. host' \in HostSteps
    BY <1>0, <1>4 DEF HostSteps
  <2>2. Closed(j) \in Records
    BY <1>0, <1>4, ClosedType DEF Closes, State
  <2>3. BundleTypes'
    BY <1>0, <1>4, <2>1, <2>2 DEF BundleTypes, Closes
  <2>4. HostOK'
    BY <1>0, <1>1, <1>4 DEF HostOK, HostIdle, TokensOf
  <2> QED
    BY <1>0, <1>1, <1>4, <2>3, <2>4, CloseStep
<1> QED
  BY <1>0, <1>2, <1>3, <1>4 DEF ClientClose

\* Less is shown, or nothing any more.
LEMMA HiddenStep ==
    ASSUME BundleInv, BundleTypes', HostOK', UNCHANGED <<journal, intentsMade>>,
           previews' \subseteq previews, owners' \subseteq owners,
           \A i \in Intents :
             \/ shown'[i] = "no"
             \/ /\ shown'[i] = shown[i]
                /\ previews' = previews /\ tokens' = tokens
    PROVE  BundleInv' /\ Settled
<1>1. JournalOK'
  BY DEF BundleInv, JournalOK, Recorded, OpenIntents
<1>2. \A i \in Intents : IntentOK(i)'
  BY IntentKept DEF BundleInv
<1>3. Settled
  BY DEF Settled, Recorded
<1> QED
  BY <1>1, <1>2, <1>3 DEF BundleInv

LEMMA EndCloseStep == ASSUME BundleInv, EndClose PROVE BundleInv' /\ Settled
<1>0. /\ BundleTypes /\ HostOK /\ host.intent \in Intents /\ host' = HostIdle
      /\ shown' = [shown EXCEPT ![host.intent] = "no"]
      /\ UNCHANGED <<journal, previews, owners, tokens, taskTokens, intentsMade>>
  BY HostType DEF BundleInv, EndClose
<1>1. BundleTypes' /\ HostOK'
  BY <1>0 DEF BundleTypes, HostSteps, HostOK, HostIdle
<1>2. \A i \in Intents : shown'[i] = "no" \/ shown'[i] = shown[i]
  BY <1>0 DEF BundleTypes
<1> QED
  BY <1>0, <1>1, <1>2, HiddenStep

LEMMA RestartStep == ASSUME BundleInv, Restart PROVE BundleInv' /\ Settled
<1>1. BundleTypes' /\ HostOK'
  BY DEF BundleInv, Restart, BundleTypes, HostSteps, HostOK, HostIdle
<1> QED
  BY <1>1, HiddenStep DEF Restart

LEMMA PublishIntentStep == ASSUME BundleInv, NEW j \in Intents, PublishIntent(j)
                           PROVE  BundleInv' /\ Settled
<1> PICK state \in {"rendered", "publishing", "published"}, residual \in BOOLEAN :
      journal' = [journal EXCEPT ![j].state = state, ![j].residual = residual]
  BY DEF PublishIntent
<1> DEFINE r == [journal[j] EXCEPT !.state = state, !.residual = residual]
<1>0. /\ BundleTypes /\ HostOK /\ IntentOK(j) /\ host = HostIdle /\ shown[j] = "open"
      /\ State(j) \in {"rendered", "publishing"}
      /\ UNCHANGED <<previews, owners, tokens, taskTokens, shown, host, intentsMade>>
  BY DEF BundleInv, PublishIntent
<1>1. /\ journal[j] \in [state : States, full : BOOLEAN, residual : BOOLEAN]
      /\ journal[j] # NoRecord /\ RecordOK(journal[j])
      /\ journal[j].state \in {"rendered", "publishing"}
  BY <1>0, IntentRecordType DEF IntentOK, BundleInv, JournalOK, Recorded, Records
<1>2. /\ r \in Records /\ RecordOK(r) /\ IsOpen(journal[j])
      /\ r.state \in {"rendered", "publishing", "published"}
  BY <1>1 DEF Records, States, RecordOK, IsOpen
<1>3. r # NoRecord
  BY <1>2, NoRecordAssumption
<1>4. journal' = [journal EXCEPT ![j] = r]
  BY <1>0 DEF BundleTypes
<1> HIDE DEF r
<1>5. BundleTypes' /\ HostOK' /\ journal'[j] = r
  BY <1>0, <1>2, <1>4 DEF BundleTypes, HostOK, HostIdle
<1>6. IntentOK(j)'
  <2>1. TokensOf(j)' = TokensOf(j)
    BY DEF TokensOf
  <2> QED
    BY <1>0, <1>2, <1>3, <1>5, <2>1 DEF IntentOK
<1> QED
  BY <1>0, <1>1, <1>2, <1>3, <1>4, <1>5, <1>6, RecordStep

\* Refusals, lost calls and the cleanup of a task without previews in use.
LEMMA OtherStep ==
    ASSUME BundleInv, Refuse \/ HostError \/ CleanupTask
    PROVE  BundleInv' /\ Settled
<1>0. BundleTypes /\ HostOK
  BY DEF BundleInv
<1>1. CASE Refuse \/ HostError
  <2>1. BundleTypes' /\ HostOK'
    BY <1>0, <1>1 DEF Refuse, HostError, BundleTypes, HostSteps, HostOK, HostIdle
  <2> QED
    BY <1>1, <2>1, QuietStep DEF Refuse, HostError
<1>2. CASE CleanupTask
  <2>1. BundleTypes' /\ HostOK'
    BY <1>0, <1>2 DEF CleanupTask, BundleTypes, HostOK, HostIdle
  <2>2. \A i \in Intents : shown[i] # "open"
    BY <1>0, <1>2, TokensSound DEF CleanupTask, BundleInv, IntentOK, BundleTypes
  <2> QED
    BY <1>2, <2>1, <2>2, QuietStep DEF CleanupTask
<1> QED
  BY <1>1, <1>2

LEMMA BundleInitHolds == BundleInit => BundleInv
<1> SUFFICES ASSUME BundleInit PROVE BundleInv
  OBVIOUS
<1>1. BundleTypes
  BY BundleAssumption DEF BundleInit, BundleTypes, HostSteps
<1>2. JournalOK
  <2>1. Recorded = {} /\ OpenIntents = {}
    BY DEF BundleInit, Recorded, OpenIntents
  <2> QED
    BY <2>1, FS_EmptySet, BundleAssumption DEF JournalOK
<1>3. HostOK
  BY DEF BundleInit, HostOK, HostIdle
<1>4. \A i \in Intents : IntentOK(i)
  BY DEF BundleInit, IntentOK
<1> QED
  BY <1>1, <1>2, <1>3, <1>4 DEF BundleInv

LEMMA BundleStep ==
    ASSUME BundleInv, [BundleNext]_bundleVars
    PROVE  BundleInv' /\ Settled
<1>1. CASE UNCHANGED bundleVars
  <2>1. BundleTypes' /\ HostOK'
    BY <1>1 DEF BundleInv, bundleVars, BundleTypes, HostOK, TokensOf
  <2> QED
    BY <1>1, <2>1, QuietStep DEF bundleVars
<1>2. CASE BundleNext
  BY <1>2, StartStep, ReconcileStep, ClientCloseStep, PublishIntentStep, StatusStep,
     DropClosedStep, RetireStep, NewIntentStep, RenderStep, RegisterStep, ReleaseTokenStep,
     HostCloseStep, AbandonStep, EndCloseStep, OtherStep, RestartStep DEF BundleNext
<1> QED
  BY <1>1, <1>2

\* What BundleInv says of types and of what is forgotten.
LEMMA InvImpliesKept == BundleInv => BundleTypeOK /\ NothingForgotten
<1> SUFFICES ASSUME BundleInv PROVE BundleTypeOK /\ NothingForgotten
  OBVIOUS
<1>1. BundleTypes /\ JournalOK
  BY DEF BundleInv
<1>2. OpenIntents = {i \in Recorded : State(i) \notin {"closed", "published"}}
  BY <1>1, IntentRecordType DEF OpenIntents, Recorded, IsOpen
<1>3. BundleTypeOK
  BY <1>1, <1>2 DEF BundleTypes, BundleTypeOK, JournalOK, RecordOK
<1>4. ASSUME NEW t \in previews \cup owners PROVE t[1] \in Recorded
  <2>1. t[1] \in Intents /\ t \in TokensOf(t[1])
    BY <1>1, TokensSound DEF BundleTypes
  <2>2. IntentOK(t[1])
    BY <2>1 DEF BundleInv
  <2> QED
    BY <2>1, <2>2 DEF IntentOK, Recorded
<1> QED
  BY <1>3, <1>4 DEF NothingForgotten

\* What the engine and the host keep of every export intent, through failed,
\* half-done and unanswered calls and restarts of the host (export_bundle.py,
\* export_bundle.rs).
THEOREM BundleIsInductive == BundleSpec => []BundleInv
  BY BundleInitHolds, BundleStep, PTL DEF BundleSpec

\* No preview file or row is left without the record of its intent; what the
\* user looks at stays until it is closed, and a record goes only when nothing
\* depends on it (ExportBundleService.reconcile, create and close): for any
\* number of intents, files, receipts and open intents.
THEOREM BundlesAreKept == BundleSpec => BundlesKept
<1>1. ASSUME BundleInv, BundleInv', Settled PROVE ShownStays /\ EvidenceKept
  <2>1. ASSUME NEW i \in Intents PROVE IntentOK(i)' /\ TokensOf(i)' = TokensOf(i)
    BY <1>1 DEF BundleInv, TokensOf
  <2>2. ShownStays
    BY <2>1 DEF ShownStays, IntentOK
  <2>3. EvidenceKept
    BY <1>1, <2>1 DEF EvidenceKept, Settled, IntentOK, Recorded
  <2> QED
    BY <2>2, <2>3
<1>2. BundleInv /\ BundleInv' /\ [BundleNext]_bundleVars => [ShownStays /\ EvidenceKept]_bundleVars
  BY <1>1, BundleStep
<1> QED
  BY <1>2, BundleIsInductive, InvImpliesKept, PTL DEF BundleSpec, BundlesKept

(***************************************************************************)
(* The progress of an export                                               *)
(***************************************************************************)
\* One frame is left until the last report, which is then the one that shows
\* unless the pipe is broken.
ProgressInv ==
    /\ ProgressIsAdvisory
    /\ ~final => emitted < MaxFrames
    /\ final /\ ~broken => stageShown = "finalizing"

LEMMA CountsAreValid ==
    ASSUME NEW completed \in Nat, NEW total \in Nat
    PROVE  Valid(Counts(completed, total))
<1>1. CASE total >= 1 /\ total <= MaxTotal /\ completed <= total
  BY <1>1, ProgressAssumption DEF Valid, Counts
<1>2. CASE ~(total >= 1 /\ total <= MaxTotal /\ completed <= total)
  BY <1>2 DEF Valid, Counts
<1> QED
  BY <1>1, <1>2

LEMMA ReportKeeps ==
    ASSUME ProgressInv, ~final, NEW stage \in Stages, NEW completed \in Nat, NEW total \in Nat,
           NEW force \in BOOLEAN, Report(stage, completed, total, force)
    PROVE  ProgressInv'
<1>0. /\ ProgressTypeOK /\ NeverOverProgress /\ EndIsShown /\ reader = "reading"
      /\ emitted < MaxFrames /\ emitted \in Nat /\ MaxFrames \in Nat
      /\ final' = (stage = "finalizing" /\ force) /\ UNCHANGED broken
  BY ProgressAssumption DEF ProgressInv, ProgressIsAdvisory, ProgressTypeOK, Report
<1>1. CASE /\ disabled \/ MayBeSoon(stage, force) \/ Spent(stage, force)
           /\ Quiet /\ UNCHANGED disabled
  <2>1. final' => broken
    BY <1>0, <1>1 DEF MayBeSoon, Spent, ProgressTypeOK
  <2> QED
    BY <1>0, <1>1, <2>1 DEF Quiet, ProgressInv, ProgressIsAdvisory, ProgressTypeOK,
       NeverOverProgress, EndIsShown
<1>2. CASE ~Spent(stage, force) /\ broken /\ Quiet /\ disabled' = TRUE
  BY <1>0, <1>2 DEF Quiet, ProgressInv, ProgressIsAdvisory, ProgressTypeOK,
     NeverOverProgress, EndIsShown
<1>3. CASE /\ ~Spent(stage, force) /\ ~broken
           /\ last_stage' = stage /\ emitted' = emitted + 1
           /\ Receive(stage, Counts(completed, total)) /\ UNCHANGED disabled
  <2>1. /\ received' = emitted' /\ emitted' <= MaxFrames
        /\ ~final' => emitted' < MaxFrames
    BY <1>0, <1>3 DEF Receive, ProgressTypeOK, Spent
  <2>2. stageShown' = stage /\ reader' = "reading"
    BY <1>0, <1>3, <2>1, CountsAreValid DEF Receive, ProgressTypeOK
  <2> QED
    BY <1>0, <1>3, <2>1, <2>2 DEF ProgressInv, ProgressIsAdvisory, ProgressTypeOK,
       NeverOverProgress, EndIsShown
<1> QED
  BY <1>1, <1>2, <1>3 DEF Report

LEMMA ProgressStep == ProgressInv /\ [ProgressNext]_progressVars => ProgressInv'
<1> SUFFICES ASSUME ProgressInv, [ProgressNext]_progressVars PROVE ProgressInv'
  OBVIOUS
<1>1. CASE Reports
  <2>1. PICK stage \in Stages, completed \in Totals \cup {0}, total \in Totals, force \in BOOLEAN :
             ~final /\ Report(stage, completed, total, force)
    BY <1>1 DEF Reports
  <2>2. completed \in Nat /\ total \in Nat
    BY ProgressAssumption
  <2> QED
    BY <2>1, <2>2, ReportKeeps
<1>2. CASE Respond
  <2>1. reader' \in {"rejected", "response"} /\ (reader' = "rejected" <=> broken)
    BY <1>2 DEF Respond
  <2>2. final /\ UNCHANGED <<last_stage, emitted, disabled, broken, final, received, stageShown>>
    BY <1>2 DEF Respond
  <2>3. ~broken => stageShown = "finalizing"
    BY <2>2 DEF ProgressInv
  <2>4. ProgressTypeOK'
    BY <2>1, <2>2 DEF ProgressInv, ProgressIsAdvisory, ProgressTypeOK
  <2>5. NeverOverProgress' /\ EndIsShown'
    BY <2>1, <2>2, <2>3 DEF NeverOverProgress, EndIsShown
  <2> QED
    BY <2>2, <2>3, <2>4, <2>5 DEF ProgressInv, ProgressIsAdvisory
<1>3. CASE Break
  <2>1. /\ broken' = TRUE
        /\ UNCHANGED <<last_stage, emitted, disabled, final, received, stageShown, reader>>
    BY <1>3 DEF Break
  <2>2. ProgressTypeOK'
    BY <2>1 DEF ProgressInv, ProgressIsAdvisory, ProgressTypeOK
  <2>3. NeverOverProgress' /\ EndIsShown'
    BY <2>1 DEF ProgressInv, ProgressIsAdvisory, NeverOverProgress, EndIsShown
  <2> QED
    BY <2>1, <2>2, <2>3 DEF ProgressInv, ProgressIsAdvisory
<1>4. CASE UNCHANGED progressVars
  BY <1>4 DEF progressVars, ProgressInv, ProgressIsAdvisory, ProgressTypeOK, NeverOverProgress,
     EndIsShown
<1> QED
  BY <1>1, <1>2, <1>3, <1>4 DEF ProgressNext

\* However long an export is and whatever it counts, the host (read_response in
\* src-tauri/src/export_progress.rs) does not give it up over its progress while
\* the pipe is whole, and the last stage is shown.
THEOREM AdviceNeverKills == ProgressSpec => []ProgressIsAdvisory
<1>1. ProgressInit => ProgressInv
  <2> SUFFICES ASSUME ProgressInit PROVE ProgressInv
    OBVIOUS
  <2>1. 0 \in 0..MaxFrames /\ 0 < MaxFrames
    BY ProgressAssumption
  <2>2. ProgressTypeOK
    BY <2>1 DEF ProgressInit, ProgressTypeOK
  <2>3. NeverOverProgress /\ EndIsShown
    BY DEF ProgressInit, NeverOverProgress, EndIsShown
  <2> QED
    BY <2>1, <2>2, <2>3 DEF ProgressInit, ProgressInv, ProgressIsAdvisory
<1>2. ProgressInv => ProgressIsAdvisory
  BY DEF ProgressInv
<1> QED
  BY <1>1, <1>2, ProgressStep, PTL DEF ProgressSpec
==============================================================================
