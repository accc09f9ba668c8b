------------------------ MODULE ExportPublishProofs ------------------------
(***************************************************************************)
(* Proofs about the publication of an export (ExportPublish), for any plan *)
(* of files and any number of attempts, failures, crashes and acts of      *)
(* others: the publication is sound, and no step of it takes anything away *)
(* that is somebody else's.                                                *)
(***************************************************************************)
EXTENDS ExportPublish, TLAPS

(***************************************************************************)
(* The inductive invariant                                                 *)
(***************************************************************************)
\* The record in the journal may lag behind the one a process cleans up with.
Settling == {"cleaning after failure", "cleaned after failure"}
FileStages == {"making", "capturing", "building", "writing", "owning", "registering"}
NamedStages == {"writing", "owning", "registering"}

\* The same attempt, of which at least as much is known.
Extends(a, b) ==
    /\ b.n = a.n
    /\ a.captured => b.captured
    /\ \A f \in Files : a.files[f] # "none" => b.files[f] # "none"

\* A process works on what the journal says, or, after a failed save, on more.
EntryOK ==
    /\ pc \notin {"idle"} \cup Settling => entry = record /\ ~stale
    /\ pc \in Settling => record.state = "publishing" /\ Extends(record.attempt, entry.attempt)
    /\ pc \notin {"idle", "planning"} => entry.state = "publishing"
    /\ pc = "planning" => entry.state = "rendered"
    /\ pc \in {"making", "capturing"} => ~entry.attempt.captured
    /\ pc \in FileStages => pos \in Files
    /\ pc \in NamedStages => File(pos) # "none"

\* A cleanup without residue has left no directory of the attempt anywhere.
CleanedOK ==
    pc \in {"cleaned for retry", "cleaned after failure"} /\ ~residue =>
        N \notin delivered /\ (temp[N] # NONE => temp[N].owner # N)

\* A directory of ours is at its final path only once it was delivered, and
\* only a captured directory is.
DiskOK ==
    \A n \in Attempts :
        /\ temp[n] # NONE /\ temp[n].owner = n => n \notin delivered
        /\ final[n] # NONE /\ final[n].owner = n => n \in delivered
        /\ n \in delivered => record.attempt.captured

RecordOK == DeliveredOnce /\ PublishedIsDelivered /\ OwnedIsRecorded /\ DiskOK

PublishInv == PublishTypeOK /\ RecordOK /\ EntryOK /\ CleanedOK

(***************************************************************************)
(* What the saves of a record keep                                         *)
(***************************************************************************)
LEMMA WithField ==
    ASSUME entry \in Record, entry.attempt \in Attempt, 
           NEW field \in {"captured", "receipt", "residuals"}
    PROVE  /\ With(field, TRUE) \in Record /\ With(field, TRUE).attempt \in Attempt
           /\ With(field, TRUE).state = entry.state
           /\ With(field, TRUE).history = entry.history
           /\ With(field, TRUE).attempt.n = N
           /\ With(field, TRUE).attempt.files = entry.attempt.files
           /\ entry.attempt.captured => With(field, TRUE).attempt.captured
<1>1. CASE field = "captured"
  BY <1>1 DEF With, Record, Attempt, N
<1>2. CASE field = "receipt"
  BY <1>2 DEF With, Record, Attempt, N
<1>3. CASE field = "residuals"
  BY <1>3 DEF With, Record, Attempt, N
<1> QED
  BY <1>1, <1>2, <1>3

\* A file is registered under its name, the others stay.
LEMMA WithFileAt ==
    ASSUME entry \in Record, entry.attempt \in Attempt, NEW f \in Files, NEW state \in FileStates
    PROVE  /\ WithFile(f, state) \in Record /\ WithFile(f, state).attempt \in Attempt
           /\ WithFile(f, state).state = entry.state
           /\ WithFile(f, state).history = entry.history
           /\ WithFile(f, state).attempt.n = N
           /\ WithFile(f, state).attempt.captured = entry.attempt.captured
           /\ WithFile(f, state).attempt.files[f] = state
           /\ \A g \in Files \ {f} : WithFile(f, state).attempt.files[g] = File(g)
  BY DEF WithFile, Record, Attempt, N, File

\* What a process on an attempt holds, and what the journal knows of it.
LEMMA Held ==
    ASSUME PublishInv, pc \notin {"idle", "planning"}
    PROVE  /\ entry \in Record /\ entry.attempt \in Attempt /\ N \in Attempts
           /\ record \in Record /\ record.attempt \in Attempt
           /\ entry.state = "publishing" /\ record.state = "publishing"
           /\ Extends(record.attempt, entry.attempt)
           /\ record.attempt.n = N
           /\ temp[N] \in Directory \cup {NONE} /\ final[N] \in Directory \cup {NONE}
<1>1. entry.attempt \in Attempt /\ entry.state = "publishing" /\ N \in Attempts
  BY DEF PublishInv, PublishTypeOK, EntryOK, Record, Attempt, N
<1>2. record.state = "publishing" /\ Extends(record.attempt, entry.attempt)
  BY <1>1 DEF PublishInv, EntryOK, Extends, N
<1>3. record.attempt \in Attempt
  BY <1>2 DEF PublishInv, PublishTypeOK, Record
<1> QED
  BY <1>1, <1>2, <1>3 DEF PublishInv, PublishTypeOK, Extends, N

\* The journal only learns more about the attempt.
LEMMA RecordExtends ==
    ASSUME RecordOK, UNCHANGED disk, record.state = "publishing",
           \/ record'.state = "publishing"
           \/ record'.state = "published" /\ record.attempt.n \in delivered,
           Extends(record.attempt, record'.attempt)
    PROVE  RecordOK'
  BY DEF RecordOK, DeliveredOnce, PublishedIsDelivered, OwnedIsRecorded, DiskOK, disk, Extends,
         Attempts

\* Whether a save succeeds, fails or fails late, the journal stays sound.
LEMMA SavedOK ==
    ASSUME PublishInv, pc \notin {"idle", "planning"}, UNCHANGED disk,
           NEW e \in Record, e.attempt \in Attempt, Extends(entry.attempt, e.attempt),
           e.state = "publishing" \/ (e.state = "published" /\ N \in delivered),
           NEW next, NEW otherwise, SaveThen(e, next, otherwise)
    PROVE  /\ RecordOK'
           /\ entry' = e
           /\ record' \in Record /\ stale' \in BOOLEAN /\ faults' \in 0 .. MaxFaults
           /\ record'.state \in {"publishing", "published"} /\ record'.attempt \in Attempt
           /\ \/ pc' = next /\ record' = e /\ ~stale'
              \/ pc' = otherwise /\ (e.state = "publishing" =>
                    record'.state = "publishing" /\ Extends(record'.attempt, e.attempt))
<1>1. /\ entry' = e /\ stale' \in BOOLEAN /\ faults' \in 0 .. MaxFaults
      /\ \/ pc' = next /\ record' = e /\ ~stale'
         \/ pc' = otherwise /\ record' \in {record, e}
  BY NumberAssumption
     DEF SaveThen, SaveOk, SaveFails, Failure, Fault, PublishInv, PublishTypeOK
<1>2. Extends(record.attempt, e.attempt) /\ Extends(e.attempt, e.attempt)
  BY Held DEF Extends
<1>3. Extends(record.attempt, record'.attempt)
  BY <1>1, <1>2, Held DEF Extends
<1>4. RecordOK'
  <2>1. \/ record'.state = "publishing"
        \/ record'.state = "published" /\ record.attempt.n \in delivered
    BY <1>1, Held
  <2> QED
    BY <1>3, <2>1, Held, RecordExtends DEF PublishInv
<1>5. /\ record' \in Record /\ record'.attempt \in Attempt
      /\ record'.state \in {"publishing", "published"}
  BY <1>1, Held
<1> QED
  BY <1>1, <1>2, <1>4, <1>5, Held

\* The shapes are kept by a save.
LEMMA SavedTypeOK ==
    ASSUME PublishTypeOK, UNCHANGED <<disk, used>>,
           record' \in Record, entry' \in Record, stale' \in BOOLEAN, faults' \in 0 .. MaxFaults,
           record'.attempt # NONE <=> record'.state \in {"publishing", "published"},
           entry'.attempt # NONE <=> entry'.state \in {"publishing", "published"},
           residue' \in BOOLEAN, pos' \in 1 .. Len(Plan) + 1,
           pc' \notin {"idle", "planning"} => entry'.attempt # NONE
    PROVE  PublishTypeOK'
  BY DEF PublishTypeOK, disk

(***************************************************************************)
(* Steps that change a directory                                           *)
(***************************************************************************)
LEMMA FileChanges ==
    ASSUME NEW d \in Directory, NEW f \in Files, NEW state \in DirFileStates
    PROVE  LET new == [d EXCEPT !.files[f] = state] IN
           /\ new \in Directory
           /\ new.owner = d.owner /\ new.extra = d.extra
           /\ new.files[f] = state
           /\ \A g \in Files \ {f} : new.files[g] = d.files[g]
  BY DEF Directory

\* A file is changed in the directory it is in.
LEMMA NestedUpdate ==
    ASSUME NEW n, NEW f, NEW state
    PROVE  [temp EXCEPT ![n].files[f] = state] =
              [temp EXCEPT ![n] = [temp[n] EXCEPT !.files[f] = state]]
  OBVIOUS

\* A new directory is empty.
LEMMA NewDirIsNew ==
    ASSUME NEW owner \in 0 .. MaxAttempts
    PROVE  /\ NewDir(owner) \in Directory /\ NewDir(owner).owner = owner
           /\ \A f \in Files : NewDir(owner).files[f] = "absent"
           /\ ~NewDir(owner).extra
  BY DEF NewDir, Directory, DirFileStates

\* What a temporary path must hold for the journal to stay sound.
LEMMA TempChanges ==
    ASSUME PublishTypeOK, RecordOK, UNCHANGED <<record, final, delivered>>,
           NEW n \in Attempts, NEW d \in Directory \cup {NONE}, temp' = [temp EXCEPT ![n] = d],
           (d # NONE /\ d.owner = n) =>
              /\ n \notin delivered
              /\ record.state = "publishing" /\ record.attempt.n = n
              /\ \A f \in Files :
                    d.files[f] \in {"partial", "whole"} => record.attempt.files[f] # "none"
    PROVE  /\ RecordOK'
           /\ temp' \in [Attempts -> Directory \cup {NONE}]
           /\ temp'[n] = d
           /\ \A m \in Attempts \ {n} : temp'[m] = temp[m]
<1>1. temp \in [Attempts -> Directory \cup {NONE}]
  BY DEF PublishTypeOK
<1>2. /\ temp' \in [Attempts -> Directory \cup {NONE}]
      /\ temp'[n] = d
      /\ \A m \in Attempts \ {n} : temp'[m] = temp[m]
  BY <1>1
<1>3. DeliveredOnce' /\ PublishedIsDelivered'
  BY DEF RecordOK, DeliveredOnce, PublishedIsDelivered
<1>4. OwnedIsRecorded'
  BY <1>2 DEF RecordOK, OwnedIsRecorded
<1>5. DiskOK'
  BY <1>2 DEF RecordOK, DiskOK
<1> QED
  BY <1>2, <1>3, <1>4, <1>5 DEF RecordOK

\* The same for a final path.
LEMMA FinalChanges ==
    ASSUME PublishTypeOK, RecordOK, UNCHANGED <<record, temp, delivered>>,
           NEW n \in Attempts, NEW d \in Directory \cup {NONE}, final' = [final EXCEPT ![n] = d],
           (d # NONE /\ d.owner = n) => n \in delivered
    PROVE  /\ RecordOK'
           /\ final' \in [Attempts -> Directory \cup {NONE}]
<1>1. final \in [Attempts -> Directory \cup {NONE}]
  BY DEF PublishTypeOK
<1>2. /\ final' \in [Attempts -> Directory \cup {NONE}]
      /\ final'[n] = d
      /\ \A m \in Attempts \ {n} : final'[m] = final[m]
  BY <1>1
<1>3. DeliveredOnce' /\ PublishedIsDelivered' /\ OwnedIsRecorded'
  BY DEF RecordOK, DeliveredOnce, PublishedIsDelivered, OwnedIsRecorded
<1>5. DiskOK'
  BY <1>2 DEF RecordOK, DiskOK
<1> QED
  BY <1>2, <1>3, <1>5 DEF RecordOK

\* Where neither the journal nor the disk changes, nothing has to be shown.
LEMMA RecordSame ==
    ASSUME RecordOK, UNCHANGED <<record, disk>>
    PROVE  RecordOK'
  BY DEF RecordOK, DeliveredOnce, PublishedIsDelivered, OwnedIsRecorded, DiskOK, disk

\* Nothing of ours is left anywhere, so the journal may say anything but published.
LEMMA RecordResets ==
    ASSUME PublishInv, UNCHANGED disk, delivered = {},
           \A n \in Attempts : temp[n] # NONE => temp[n].owner # n,
           record'.state # "published"
    PROVE  RecordOK'
  BY DEF PublishInv, RecordOK, DeliveredOnce, PublishedIsDelivered, OwnedIsRecorded, DiskOK, disk

\* The records an attempt is forgotten and started with.
LEMMA WithoutAttemptOK ==
    ASSUME NEW h \in 0 .. MaxHistory
    PROVE  /\ WithoutAttempt(h) \in Record
           /\ WithoutAttempt(h).state = "rendered" /\ WithoutAttempt(h).attempt = NONE
           /\ WithoutAttempt(h).history = h
  BY DEF WithoutAttempt, Record

LEMMA NewAttemptOK ==
    ASSUME NEW n \in Attempts
    PROVE  /\ NewAttempt(n) \in Attempt /\ NewAttempt(n).n = n /\ ~NewAttempt(n).captured
  BY DEF NewAttempt, Attempt, FileStates

(***************************************************************************)
(* The steps of the intent and of the process that holds the lock          *)
(***************************************************************************)
LEMMA InitOK == Init => PublishInv
<1> SUFFICES ASSUME Init PROVE PublishInv
  OBVIOUS
<1>1. record \in Record /\ record.attempt = NONE /\ record.state = "created"
  BY NumberAssumption DEF Init, Record
<1>2. 1 \in 1 .. Len(Plan) + 1
  BY PlanAssumption
<1>3. PublishTypeOK
  <2>1. /\ temp \in [Attempts -> Directory \cup {NONE}]
        /\ final \in [Attempts -> Directory \cup {NONE}]
    BY DEF Init
  <2>2. used \in 0 .. MaxAttempts /\ faults \in 0 .. MaxFaults /\ pos \in 1 .. Len(Plan) + 1
    BY <1>2, NumberAssumption DEF Init
  <2> QED
    BY <1>1, <2>1, <2>2 DEF Init, PublishTypeOK
<1>4. RecordOK
  BY <1>1 DEF Init, RecordOK, DeliveredOnce, PublishedIsDelivered, OwnedIsRecorded, DiskOK
<1>5. EntryOK /\ CleanedOK
  BY DEF Init, EntryOK, CleanedOK, Settling, FileStages, NamedStages
<1> QED
  BY <1>3, <1>4, <1>5 DEF PublishInv

LEMMA RenderOK == PublishInv /\ Render => PublishInv'
<1> SUFFICES ASSUME PublishInv, Render PROVE PublishInv'
  OBVIOUS
<1>1. /\ record' \in Record /\ record'.attempt = NONE /\ record'.state = "rendered"
      /\ record.attempt = NONE
  BY DEF Render, PublishInv, PublishTypeOK, Record
<1>2. PublishTypeOK'
  BY <1>1 DEF Render, PublishInv, PublishTypeOK, disk, progress
<1>3. delivered = {} /\ \A n \in Attempts : temp[n] # NONE => temp[n].owner # n
  BY DEF Render, PublishInv, PublishTypeOK, RecordOK, DeliveredOnce, OwnedIsRecorded
<1>4. RecordOK'
  BY <1>1, <1>3, RecordResets DEF Render
<1>5. EntryOK' /\ CleanedOK'
  BY DEF Render, EntryOK, CleanedOK, Settling, FileStages, NamedStages
<1> QED
  BY <1>2, <1>4, <1>5 DEF PublishInv

LEMMA CloseOK == PublishInv /\ Close => PublishInv'
<1> SUFFICES ASSUME PublishInv, Close PROVE PublishInv'
  OBVIOUS
<1>1. /\ record' \in Record /\ record'.attempt = NONE /\ record'.state = "closed"
      /\ record.attempt = NONE
  BY DEF Close, MayClose, PublishInv, PublishTypeOK, Record
<1>2. PublishTypeOK'
  BY <1>1 DEF Close, PublishInv, PublishTypeOK, disk, progress
<1>3. delivered = {} /\ \A n \in Attempts : temp[n] # NONE => temp[n].owner # n
  BY DEF Close, MayClose, PublishInv, PublishTypeOK, RecordOK, DeliveredOnce, OwnedIsRecorded
<1>4. RecordOK'
  BY <1>1, <1>3, RecordResets DEF Close
<1>5. EntryOK' /\ CleanedOK'
  BY DEF Close, EntryOK, CleanedOK, Settling, FileStages, NamedStages
<1> QED
  BY <1>2, <1>4, <1>5 DEF PublishInv

LEMMA TakeOK ==
    ASSUME PublishInv,
           \/ PublishBundle
           \/ StatusBundle
    PROVE  PublishInv'
<1> PICK next \in {"recovering", "planning", "reporting"} :
        /\ Take(next)
        /\ IF next = "planning" THEN record.state = "rendered" ELSE record.state = "publishing"
  BY DEF PublishBundle, StatusBundle
<1>2. 1 \in 1 .. Len(Plan) + 1
  BY PlanAssumption
<1>3. PublishTypeOK'
  BY <1>2 DEF Take, PublishInv, PublishTypeOK, disk
<1>4. RecordOK'
  BY RecordSame DEF Take, PublishInv
<1>5. EntryOK' /\ CleanedOK'
  BY DEF Take, EntryOK, CleanedOK, Settling, FileStages, NamedStages
<1> QED
  BY <1>3, <1>4, <1>5 DEF PublishInv

\* A step that only moves the process on.
LEMMA GotoOK ==
    ASSUME PublishInv, UNCHANGED <<record, entry, stale>>, UNCHANGED <<disk, used>>,
           faults' \in 0 .. MaxFaults, residue' \in BOOLEAN, pos' \in 1 .. Len(Plan) + 1,
           pc' = "idle" \/ (pc \notin {"idle", "planning"} /\ pc' \notin {"idle", "planning"})
    PROVE  PublishTypeOK' /\ RecordOK'
<1>1. PublishTypeOK'
  BY DEF PublishInv, PublishTypeOK, disk
<1> QED
  BY <1>1, RecordSame DEF PublishInv

\* Faults are counted.
LEMMA FailureBound ==
    ASSUME PublishTypeOK, NEW kind, Fault(kind) \/ UNCHANGED faults
    PROVE  faults' \in 0 .. MaxFaults
  BY NumberAssumption DEF PublishTypeOK, Fault

\* The steps that save the record of the attempt they work on.
LEMMA SaveStep ==
    ASSUME PublishInv, pc \notin {"idle", "planning"}, UNCHANGED <<disk, used>>,
           NEW e \in Record, e.attempt \in Attempt, Extends(entry.attempt, e.attempt),
           e.state = "publishing" \/ (e.state = "published" /\ N \in delivered),
           NEW next, NEW otherwise, SaveThen(e, next, otherwise),
           residue' \in BOOLEAN, pos' \in 1 .. Len(Plan) + 1
    PROVE  /\ PublishTypeOK' /\ RecordOK'
           /\ entry' = e
           /\ \/ pc' = next /\ record' = e /\ ~stale'
              \/ pc' = otherwise /\ (e.state = "publishing" =>
                    record'.state = "publishing" /\ Extends(record'.attempt, e.attempt))
<1>1. /\ RecordOK' /\ entry' = e
      /\ record' \in Record /\ stale' \in BOOLEAN /\ faults' \in 0 .. MaxFaults
      /\ record'.state \in {"publishing", "published"} /\ record'.attempt \in Attempt
      /\ \/ pc' = next /\ record' = e /\ ~stale'
         \/ pc' = otherwise /\ (e.state = "publishing" =>
               record'.state = "publishing" /\ Extends(record'.attempt, e.attempt))
  BY SavedOK
<1>2. PublishTypeOK'
  <2>1. e.attempt # NONE /\ record'.attempt # NONE
    BY <1>1, AbsenceAssumption
  <2> QED
    BY <1>1, <2>1, SavedTypeOK DEF PublishInv
<1> QED
  BY <1>1, <1>2

\* A publication that was verified at its final path is recorded.
LEMMA PublishedSaveOK ==
    ASSUME PublishInv, pc \notin {"idle", "planning"}, UNCHANGED <<disk, used, progress>>,
           PublicationAt(final[N]),
           SaveThen([entry EXCEPT !.state = "published"], "idle", "idle")
    PROVE  PublishInv'
<1> DEFINE e == [entry EXCEPT !.state = "published"]
<1>1. e \in Record /\ e.attempt = entry.attempt /\ e.state = "published"
  BY Held DEF Record
<1>2. N \in delivered
  BY Held DEF PublicationAt, IsOurs, PublishInv, RecordOK, DiskOK
<1>3. e.attempt \in Attempt /\ Extends(entry.attempt, e.attempt)
  BY <1>1, Held DEF Extends
<1>4. residue' \in BOOLEAN /\ pos' \in 1 .. Len(Plan) + 1
  BY DEF progress, PublishInv, PublishTypeOK
<1> HIDE DEF e
<1>5. PublishTypeOK' /\ RecordOK' /\ pc' = "idle"
  BY <1>1, <1>2, <1>3, <1>4, SaveStep DEF e
<1> QED
  BY <1>5 DEF PublishInv, EntryOK, CleanedOK, Settling, FileStages, NamedStages

\* The small steps of the types.
LEMMA ProgressKept ==
    ASSUME PublishInv
    PROVE  /\ UNCHANGED progress => residue' \in BOOLEAN /\ pos' \in 1 .. Len(Plan) + 1
           /\ UNCHANGED residue => residue' \in BOOLEAN
           /\ UNCHANGED pos => pos' \in 1 .. Len(Plan) + 1
           /\ 1 \in 1 .. Len(Plan) + 1
           /\ UNCHANGED faults => faults' \in 0 .. MaxFaults
           /\ Failure => faults' \in 0 .. MaxFaults
  BY PlanAssumption, NumberAssumption DEF PublishInv, PublishTypeOK, progress, Failure, Fault

\* The process gives up for now.
LEMMA IdleOK ==
    ASSUME PublishTypeOK', RecordOK', pc' = "idle"
    PROVE  PublishInv'
  BY DEF PublishInv, EntryOK, CleanedOK, Settling, FileStages, NamedStages

LEMMA RecoverPublishedOK == PublishInv /\ RecoverPublished => PublishInv'
<1> SUFFICES ASSUME PublishInv, RecoverPublished PROVE PublishInv'
  OBVIOUS
<1>1. CASE PublicationAt(final[N])
  BY <1>1, PublishedSaveOK DEF RecoverPublished
<1>2. CASE ~PublicationAt(final[N])
  <2>1. PublishTypeOK' /\ RecordOK'
    BY <1>2, GotoOK, ProgressKept DEF RecoverPublished, Goto, disk, progress
  <2> QED
    BY <1>2, <2>1, IdleOK DEF RecoverPublished, Goto
<1> QED
  BY <1>1, <1>2

LEMMA ConfirmOK == PublishInv /\ Confirm => PublishInv'
<1> SUFFICES ASSUME PublishInv, Confirm PROVE PublishInv'
  OBVIOUS
<1>1. CASE PublicationAt(final[N])
  BY <1>1, PublishedSaveOK DEF Confirm
<1>2. CASE ~PublicationAt(final[N])
  <2>1. PublishTypeOK' /\ RecordOK'
    BY <1>2, GotoOK, ProgressKept DEF Confirm, Goto, disk, progress
  <2> QED
    BY <1>2, <2>1, IdleOK DEF Confirm, Goto
<1> QED
  BY <1>1, <1>2

LEMMA RecoverBeforeRenameOK == PublishInv /\ RecoverBeforeRename => PublishInv'
<1> SUFFICES ASSUME PublishInv, RecoverBeforeRename PROVE PublishInv'
  OBVIOUS
<1>1. PublishTypeOK' /\ RecordOK'
  BY GotoOK, ProgressKept DEF RecoverBeforeRename, Goto, disk, progress
<1> QED
  BY <1>1 DEF RecoverBeforeRename, Goto, PublishInv, EntryOK, CleanedOK, Settling, FileStages,
              NamedStages

LEMMA RecordResidueOK == PublishInv /\ RecordResidue => PublishInv'
<1> SUFFICES ASSUME PublishInv, RecordResidue PROVE PublishInv'
  OBVIOUS
<1> DEFINE e == With("residuals", TRUE)
<1>1. /\ e \in Record /\ e.attempt \in Attempt /\ Extends(entry.attempt, e.attempt)
      /\ e.state = "publishing"
  BY Held, WithField DEF Extends, RecordResidue, N
<1> HIDE DEF e
<1>2. /\ pc \notin {"idle", "planning"} /\ UNCHANGED <<disk, used>>
      /\ SaveThen(e, "idle", "idle")
      /\ residue' \in BOOLEAN /\ pos' \in 1 .. Len(Plan) + 1
  BY ProgressKept DEF e, RecordResidue
<1>3. PublishTypeOK' /\ RecordOK' /\ pc' = "idle"
  BY <1>1, <1>2, SaveStep
<1> QED
  BY <1>3, IdleOK

(***************************************************************************)
(* Giving up an attempt and planning one                                   *)
(***************************************************************************)
LEMMA SaveCases ==
    ASSUME PublishInv, NEW e, NEW next, NEW otherwise, SaveThen(e, next, otherwise)
    PROVE  /\ entry' = e /\ stale' \in BOOLEAN /\ faults' \in 0 .. MaxFaults
           /\ \/ pc' = next /\ record' = e /\ ~stale'
              \/ pc' = otherwise /\ record' \in {record, e}
  BY NumberAssumption
     DEF SaveThen, SaveOk, SaveFails, Failure, Fault, PublishInv, PublishTypeOK

\* After a clean cleanup nothing of ours is left, nor was anything delivered.
LEMMA NothingLeft ==
    ASSUME PublishInv, pc \in {"cleaned for retry", "cleaned after failure"}, ~residue
    PROVE  /\ delivered = {}
           /\ \A n \in Attempts : temp[n] # NONE => temp[n].owner # n
<1>1. N \notin delivered /\ (temp[N] # NONE => temp[N].owner # N)
  BY DEF PublishInv, CleanedOK
<1>2. record.attempt.n = N
  BY Held
<1> QED
  BY <1>1, <1>2 DEF PublishInv, PublishTypeOK, RecordOK, DeliveredOnce, OwnedIsRecorded

\* So the attempt may be forgotten.
LEMMA ResetOK ==
    ASSUME PublishInv, pc \in {"cleaned for retry", "cleaned after failure"}, ~residue,
           NEW h \in 0 .. MaxHistory, NEW next \in {"planning", "idle"},
           SaveThen(WithoutAttempt(h), next, "idle"), UNCHANGED <<disk, used, progress>>
    PROVE  PublishInv'
<1> DEFINE e == WithoutAttempt(h)
<1>1. e \in Record /\ e.state = "rendered" /\ e.attempt = NONE
  BY WithoutAttemptOK
<1> HIDE DEF e
<1>2. /\ entry' = e /\ stale' \in BOOLEAN /\ faults' \in 0 .. MaxFaults
      /\ \/ pc' = next /\ record' = e /\ ~stale'
         \/ pc' = "idle" /\ record' \in {record, e}
  BY SaveCases DEF e
<1>3. record.state = "publishing" /\ record \in Record /\ record.attempt # NONE
  BY Held, AbsenceAssumption
<1>4. residue' \in BOOLEAN /\ pos' \in 1 .. Len(Plan) + 1
  BY ProgressKept
<1>5. PublishTypeOK'
  BY <1>1, <1>2, <1>3, <1>4, SavedTypeOK DEF PublishInv
<1>6. RecordOK'
  BY <1>1, <1>2, <1>3, NothingLeft, RecordResets
<1>7. EntryOK' /\ CleanedOK'
  BY <1>1, <1>2 DEF EntryOK, CleanedOK, Settling, FileStages, NamedStages
<1> QED
  BY <1>5, <1>6, <1>7 DEF PublishInv

LEMMA ResetAfterFailureOK == PublishInv /\ ResetAfterFailure => PublishInv'
<1> SUFFICES ASSUME PublishInv, ResetAfterFailure PROVE PublishInv'
  OBVIOUS
<1>1. entry.history \in 0 .. MaxHistory
  BY DEF PublishInv, PublishTypeOK, Record
<1> QED
  BY <1>1, ResetOK DEF ResetAfterFailure

LEMMA ResetForRetryOK == PublishInv /\ ResetForRetry => PublishInv'
<1> SUFFICES ASSUME PublishInv, ResetForRetry PROVE PublishInv'
  OBVIOUS
<1>1. entry.history \in 0 .. MaxHistory
  BY DEF PublishInv, PublishTypeOK, Record
<1>2. CASE Goto("idle") /\ UNCHANGED faults
  <2>1. UNCHANGED <<record, entry, stale>> /\ UNCHANGED faults /\ pc' = "idle"
    BY <1>2 DEF Goto
  <2>2. PublishTypeOK' /\ RecordOK'
    BY <2>1, GotoOK, ProgressKept DEF ResetForRetry
  <2> QED
    BY <2>1, <2>2, IdleOK
<1>3. CASE entry.history < MaxHistory
           /\ SaveThen(WithoutAttempt(entry.history + 1), "planning", "idle")
  <2>1. entry.history + 1 \in 0 .. MaxHistory
    BY <1>1, <1>3, NumberAssumption
  <2> QED
    BY <1>3, <2>1, ResetOK DEF ResetForRetry
<1>4. CASE SaveThen(WithoutAttempt(entry.history), "planning", "idle")
  BY <1>1, <1>4, ResetOK DEF ResetForRetry
<1> QED
  BY <1>2, <1>3, <1>4 DEF ResetForRetry

LEMMA PlanAttemptOK == PublishInv /\ PlanAttempt => PublishInv'
<1> SUFFICES ASSUME PublishInv, PlanAttempt PROVE PublishInv'
  OBVIOUS
<1> DEFINE e == [entry EXCEPT !.state = "publishing", !.attempt = NewAttempt(used + 1)]
<1>1. used + 1 \in Attempts /\ used' \in 0 .. MaxAttempts
  BY NumberAssumption DEF PublishInv, PublishTypeOK, PlanAttempt, Attempts
<1>2. entry \in Record /\ entry = record /\ record.state = "rendered" /\ record.attempt = NONE
  BY DEF PublishInv, PublishTypeOK, EntryOK, PlanAttempt, Settling
<1>3. /\ e \in Record /\ e.state = "publishing" /\ e.attempt \in Attempt /\ e.attempt # NONE
      /\ ~e.attempt.captured
  BY <1>1, <1>2, NewAttemptOK, AbsenceAssumption DEF Record
<1>4. SaveThen(e, "making", "idle")
  BY DEF PlanAttempt
<1> HIDE DEF e
<1>5. /\ entry' = e /\ stale' \in BOOLEAN /\ faults' \in 0 .. MaxFaults
      /\ \/ pc' = "making" /\ record' = e /\ ~stale'
         \/ pc' = "idle" /\ record' \in {record, e}
  BY <1>4, SaveCases
<1>6. delivered = {} /\ \A n \in Attempts : temp[n] # NONE => temp[n].owner # n
  BY <1>2 DEF PublishInv, PublishTypeOK, RecordOK, DeliveredOnce, OwnedIsRecorded
<1>7. RecordOK'
  BY <1>2, <1>3, <1>5, <1>6, RecordResets DEF PlanAttempt
<1>8. PublishTypeOK'
  <2>1. pos' \in 1 .. Len(Plan) + 1 /\ residue' \in BOOLEAN
    BY ProgressKept DEF PlanAttempt
  <2> QED
    BY <1>1, <1>2, <1>3, <1>5, <2>1 DEF PublishInv, PublishTypeOK, PlanAttempt, disk
<1>9. EntryOK' /\ CleanedOK'
  <2>1. pos' \in Files
    BY PlanAssumption DEF PlanAttempt, Files
  <2> QED
    BY <1>3, <1>5, <2>1 DEF EntryOK, CleanedOK, Settling, FileStages, NamedStages
<1> QED
  BY <1>7, <1>8, <1>9 DEF PublishInv

LEMMA PlanFailsOK == PublishInv /\ PlanFails => PublishInv'
<1> SUFFICES ASSUME PublishInv, PlanFails PROVE PublishInv'
  OBVIOUS
<1>1. UNCHANGED <<record, entry, stale>> /\ pc' = "idle" /\ faults' \in 0 .. MaxFaults
  BY ProgressKept DEF PlanFails, Goto
<1>2. PublishTypeOK' /\ RecordOK'
  BY <1>1, GotoOK, ProgressKept DEF PlanFails
<1> QED
  BY <1>1, <1>2, IdleOK

(***************************************************************************)
(* Building the directory                                                  *)
(***************************************************************************)
LEMMA CaptureDirectoryOK == PublishInv /\ CaptureDirectory => PublishInv'
<1> SUFFICES ASSUME PublishInv, CaptureDirectory PROVE PublishInv'
  OBVIOUS
<1> DEFINE e == With("captured", TRUE)
<1>1. /\ e \in Record /\ e.attempt \in Attempt /\ Extends(entry.attempt, e.attempt)
      /\ e.state = "publishing"
  BY Held, WithField DEF Extends, CaptureDirectory, N
<1>2. SaveThen(e, "building", "idle")
  BY DEF CaptureDirectory
<1> HIDE DEF e
<1>3. pos \in Files
  BY DEF PublishInv, EntryOK, CaptureDirectory, FileStages
<1>4. residue' \in BOOLEAN /\ pos' \in 1 .. Len(Plan) + 1 /\ pos' = pos
  BY ProgressKept DEF CaptureDirectory, progress
<1>5. /\ PublishTypeOK' /\ RecordOK' /\ entry' = e
      /\ \/ pc' = "building" /\ record' = e /\ ~stale'
         \/ pc' = "idle"
  BY <1>1, <1>2, <1>4, SaveStep DEF CaptureDirectory
<1> QED
  BY <1>1, <1>3, <1>4, <1>5
     DEF PublishInv, EntryOK, CleanedOK, Settling, FileStages, NamedStages

\* After a failure while the directory is built, the attempt is cleaned up.
LEMMA FailOverOK ==
    ASSUME PublishTypeOK', RecordOK', pc' = "cleaning after failure",
           entry'.state = "publishing", record'.state = "publishing",
           Extends(record'.attempt, entry'.attempt)
    PROVE  PublishInv'
  BY DEF PublishInv, EntryOK, CleanedOK, Settling, FileStages, NamedStages

LEMMA BuildFailsOK == PublishInv /\ BuildFails => PublishInv'
<1> SUFFICES ASSUME PublishInv, BuildFails PROVE PublishInv'
  OBVIOUS
<1>1. UNCHANGED <<record, entry, stale>> /\ pc' = "cleaning after failure"
  BY DEF BuildFails, Goto
<1>2. faults' \in 0 .. MaxFaults /\ residue' \in BOOLEAN /\ pos' \in 1 .. Len(Plan) + 1
  BY ProgressKept DEF BuildFails
<1>3. PublishTypeOK' /\ RecordOK'
  BY <1>1, <1>2, GotoOK DEF BuildFails
<1>4. /\ entry.state = "publishing" /\ record.state = "publishing"
      /\ Extends(record.attempt, entry.attempt)
  BY Held DEF BuildFails
<1>5. /\ entry'.state = "publishing" /\ record'.state = "publishing"
      /\ Extends(record'.attempt, entry'.attempt)
  BY <1>1, <1>4
<1> QED
  BY <1>1, <1>3, <1>5, FailOverOK

\* The saves of _build_attempt_outputs.
LEMMA BuildSaveOK ==
    ASSUME PublishInv, pc \notin {"idle", "planning"}, UNCHANGED <<disk, used, residue>>,
           NEW e \in Record, e.attempt \in Attempt, Extends(entry.attempt, e.attempt),
           e.state = "publishing", NEW next, SaveThen(e, next, "cleaning after failure"),
           pos' \in 1 .. Len(Plan) + 1,
           next \notin {"idle", "planning", "making", "capturing"} \cup Settling,
           next # "cleaned for retry",
           pc' \in FileStages => pos' \in Files,
           pc' \in NamedStages => e.attempt.files[pos'] # "none"
    PROVE  PublishInv'
<1>1. residue' \in BOOLEAN
  BY ProgressKept
<1>2. /\ PublishTypeOK' /\ RecordOK' /\ entry' = e
      /\ \/ pc' = next /\ record' = e /\ ~stale'
         \/ /\ pc' = "cleaning after failure"
            /\ record'.state = "publishing" /\ Extends(record'.attempt, e.attempt)
  BY <1>1, SaveStep
<1>3. CASE pc' = next /\ record' = e /\ ~stale'
  BY <1>2, <1>3 DEF PublishInv, EntryOK, CleanedOK, Settling, FileStages, NamedStages, File
<1>4. CASE /\ pc' = "cleaning after failure"
           /\ record'.state = "publishing" /\ Extends(record'.attempt, e.attempt)
  BY <1>2, <1>4, FailOverOK
<1> QED
  BY <1>2, <1>3, <1>4

\* A plan has at least one file.
LEMMA PlanLength == Len(Plan) \in Nat \ {0}
  BY PlanAssumption

\* A file that is registered stays on record.
LEMMA FileSaved ==
    ASSUME PublishInv, pc \notin {"idle", "planning"}, NEW f \in Files,
           NEW state \in {"reserved", "partial", "whole"}
    PROVE  /\ WithFile(f, state) \in Record /\ WithFile(f, state).attempt \in Attempt
           /\ WithFile(f, state).state = "publishing"
           /\ Extends(entry.attempt, WithFile(f, state).attempt)
           /\ WithFile(f, state).attempt.files[f] # "none"
<1>1. entry \in Record /\ entry.attempt \in Attempt /\ entry.state = "publishing"
  BY Held
<1>2. state \in FileStates /\ state # "none"
  BY DEF FileStates
<1> DEFINE e == WithFile(f, state)
<1>3. /\ e \in Record /\ e.attempt \in Attempt /\ e.state = entry.state
      /\ e.attempt.n = N /\ e.attempt.captured = entry.attempt.captured
      /\ e.attempt.files[f] = state
      /\ \A g \in Files \ {f} : e.attempt.files[g] = File(g)
  BY <1>1, <1>2, WithFileAt
<1> HIDE DEF e
<1>4. Extends(entry.attempt, e.attempt)
  BY <1>2, <1>3 DEF Extends, N, File
<1> QED
  BY <1>1, <1>2, <1>3, <1>4 DEF e

LEMMA ReservesOK == PublishInv /\ ReserveFile => PublishInv'
<1> SUFFICES ASSUME PublishInv, ReserveFile PROVE PublishInv'
  OBVIOUS
<1> DEFINE e == Reserved(pos)
<1>1. pos \in Files
  BY DEF PublishInv, EntryOK, ReserveFile, FileStages
<1>2. /\ e \in Record /\ e.attempt \in Attempt /\ e.state = "publishing"
      /\ Extends(entry.attempt, e.attempt) /\ e.attempt.files[pos] # "none"
  BY <1>1, FileSaved DEF Reserved, ReserveFile
<1> HIDE DEF e
<1>3. /\ SaveThen(e, "writing", "cleaning after failure")
      /\ pc' = "writing" => pos' = pos
      /\ pos' \in {pos, 1} /\ pc' \in {"writing", "cleaning after failure"}
  BY DEF ReserveFile, SaveThen, e
<1>4. pos' \in 1 .. Len(Plan) + 1
  BY <1>3, ProgressKept DEF PublishInv, PublishTypeOK
<1> QED
  BY <1>1, <1>2, <1>3, <1>4, BuildSaveOK DEF ReserveFile, FileStages, NamedStages, Settling

LEMMA OwnsPartialOK == PublishInv /\ OwnPartialFile => PublishInv'
<1> SUFFICES ASSUME PublishInv, OwnPartialFile PROVE PublishInv'
  OBVIOUS
<1> DEFINE e == WithFile(pos, "partial")
<1>1. pos \in Files
  BY DEF PublishInv, EntryOK, OwnPartialFile, FileStages
<1>2. /\ e \in Record /\ e.attempt \in Attempt /\ e.state = "publishing"
      /\ Extends(entry.attempt, e.attempt)
  BY <1>1, FileSaved DEF OwnPartialFile
<1> HIDE DEF e
<1>3. SaveThen(e, "cleaning after failure", "cleaning after failure")
  BY DEF OwnPartialFile, e
<1>4. residue' \in BOOLEAN /\ pos' \in 1 .. Len(Plan) + 1
  BY ProgressKept DEF OwnPartialFile
<1>5. /\ PublishTypeOK' /\ RecordOK' /\ entry' = e /\ pc' = "cleaning after failure"
      /\ record'.state = "publishing" /\ Extends(record'.attempt, e.attempt)
  BY <1>2, <1>3, <1>4, SaveStep DEF OwnPartialFile, Extends
<1> QED
  BY <1>2, <1>5, FailOverOK

LEMMA RegistersOK == PublishInv /\ RegisterFile => PublishInv'
<1> SUFFICES ASSUME PublishInv, RegisterFile PROVE PublishInv'
  OBVIOUS
<1> DEFINE e == WithFile(pos, "whole")
           next == IF pos = Len(Plan) THEN "sealing" ELSE "building"
<1>1. pos \in Files /\ pos \in Nat /\ Len(Plan) \in Nat /\ pos <= Len(Plan)
  <2>1. pos \in Files
    BY DEF PublishInv, EntryOK, RegisterFile, FileStages
  <2> QED
    BY <2>1, PlanLength DEF Files
<1>2. /\ e \in Record /\ e.attempt \in Attempt /\ e.state = "publishing"
      /\ Extends(entry.attempt, e.attempt)
  BY <1>1, FileSaved DEF RegisterFile
<1>3. /\ SaveThen(e, next, "cleaning after failure")
      /\ pc' = next => pos' = pos + 1
      /\ pos' \in {pos + 1, 1} /\ pc' \in {next, "cleaning after failure"}
  BY DEF RegisterFile, SaveThen
<1>4. pos + 1 \in 1 .. Len(Plan) + 1 /\ 1 \in 1 .. Len(Plan) + 1
  BY <1>1
<1>5. pc' = "building" => pos' \in Files
  <2> SUFFICES ASSUME pc' = "building" PROVE pos' \in Files
    OBVIOUS
  <2>1. pos' = pos + 1 /\ pos # Len(Plan)
    BY <1>3
  <2> QED
    BY <1>1, <2>1 DEF Files
<1>6. next \in {"sealing", "building"}
  OBVIOUS
<1> HIDE DEF e, next
<1> QED
  BY <1>2, <1>3, <1>4, <1>5, <1>6, BuildSaveOK DEF RegisterFile, FileStages, NamedStages, Settling

LEMMA SealsOK == PublishInv /\ Seal => PublishInv'
<1> SUFFICES ASSUME PublishInv, Seal PROVE PublishInv'
  OBVIOUS
<1> DEFINE e == With("receipt", TRUE)
<1>1. /\ e \in Record /\ e.attempt \in Attempt /\ Extends(entry.attempt, e.attempt)
      /\ e.state = "publishing"
  BY Held, WithField DEF Extends, Seal, N
<1> HIDE DEF e
<1>2. SaveThen(e, "verifying", "cleaning after failure") /\ pos' \in 1 .. Len(Plan) + 1
      /\ pc' \in {"verifying", "cleaning after failure"}
  BY ProgressKept DEF Seal, SaveThen, e
<1> QED
  BY <1>1, <1>2, BuildSaveOK DEF Seal, FileStages, NamedStages, Settling

LEMMA VerifiesOK == PublishInv /\ Verify => PublishInv'
<1> SUFFICES ASSUME PublishInv, Verify PROVE PublishInv'
  OBVIOUS
<1>1. /\ UNCHANGED <<record, entry, stale>> /\ pc' \in {"renaming", "cleaning after failure"}
      /\ faults' \in 0 .. MaxFaults /\ residue' \in BOOLEAN /\ pos' \in 1 .. Len(Plan) + 1
  BY ProgressKept DEF Verify, Goto
<1>2. PublishTypeOK' /\ RecordOK'
  BY <1>1, GotoOK DEF Verify
<1>3. /\ entry.state = "publishing" /\ entry = record /\ ~stale
      /\ Extends(record.attempt, entry.attempt)
  BY Held DEF Verify, PublishInv, EntryOK, Settling
<1> QED
  BY <1>1, <1>2, <1>3 DEF PublishInv, EntryOK, CleanedOK, Settling, FileStages, NamedStages

LEMMA CleanupRefusedOK == PublishInv /\ CleanupRefused => PublishInv'
<1> SUFFICES ASSUME PublishInv, CleanupRefused PROVE PublishInv'
  OBVIOUS
<1>1. /\ UNCHANGED <<record, entry, stale>> /\ residue' = ~NothingMade
      /\ pc = "cleaning for retry" => pc' = "cleaned for retry"
      /\ pc = "cleaning after failure" => pc' = "cleaned after failure"
      /\ pc \in {"cleaning for retry", "cleaning after failure"}
  BY DEF CleanupRefused, Goto, Cleaned, Cleaning
<1>2. faults' \in 0 .. MaxFaults /\ residue' \in BOOLEAN /\ pos' \in 1 .. Len(Plan) + 1
  BY <1>1, ProgressKept DEF CleanupRefused, NothingMade
<1>3. PublishTypeOK' /\ RecordOK'
  BY <1>1, <1>2, GotoOK DEF CleanupRefused
<1>4. EntryOK'
  BY <1>1 DEF PublishInv, EntryOK, Settling, FileStages, NamedStages
<1>5. ~residue' => N \notin delivered /\ temp[N] = NONE
  <2> SUFFICES ASSUME ~residue' PROVE N \notin delivered /\ temp[N] = NONE
    OBVIOUS
  <2>1. temp[N] = NONE /\ ~entry.attempt.captured
    BY <1>1 DEF NothingMade
  <2>2. ~record.attempt.captured
    BY <1>1, <2>1, Held DEF Extends
  <2> QED
    BY <1>1, <2>1, <2>2, Held DEF PublishInv, RecordOK, DiskOK
<1>6. CleanedOK'
  BY <1>1, <1>5 DEF CleanedOK, CleanupRefused, disk, N
<1> QED
  BY <1>3, <1>4, <1>6 DEF PublishInv

(***************************************************************************)
(* Steps on the disk                                                       *)
(***************************************************************************)
LEMMA FileStep ==
    ASSUME PublishInv, UNCHANGED <<record, final, delivered>>,
           NEW n \in Attempts, temp[n] # NONE, NEW f \in Files, NEW state \in DirFileStates,
           temp' = [temp EXCEPT ![n].files[f] = state],
           (state \in {"partial", "whole"} /\ temp[n].owner = n) => record.attempt.files[f] # "none"
    PROVE  /\ RecordOK'
           /\ temp' \in [Attempts -> Directory \cup {NONE}]
           /\ temp[n] \in Directory /\ temp'[n] \in Directory
           /\ temp'[n].owner = temp[n].owner /\ temp'[n].extra = temp[n].extra
           /\ temp'[n].files[f] = state
           /\ \A g \in Files \ {f} : temp'[n].files[g] = temp[n].files[g]
           /\ \A m \in Attempts \ {n} : temp'[m] = temp[m]
<1> DEFINE d == [temp[n] EXCEPT !.files[f] = state]
<1>1. temp' = [temp EXCEPT ![n] = d]
  BY NestedUpdate
<1>2. temp[n] \in Directory
  BY DEF PublishInv, PublishTypeOK
<1>3. /\ d \in Directory
      /\ d.owner = temp[n].owner /\ d.extra = temp[n].extra
      /\ d.files[f] = state
      /\ \A g \in Files \ {f} : d.files[g] = temp[n].files[g]
  BY <1>2, FileChanges
<1> HIDE DEF d
<1>4. d.owner = n =>
        /\ n \notin delivered
        /\ record.state = "publishing" /\ record.attempt.n = n
        /\ \A g \in Files : d.files[g] \in {"partial", "whole"} => record.attempt.files[g] # "none"
  BY <1>3 DEF PublishInv, RecordOK, OwnedIsRecorded, DiskOK
<1>5. /\ RecordOK'
      /\ temp' \in [Attempts -> Directory \cup {NONE}]
      /\ temp'[n] = d
      /\ \A m \in Attempts \ {n} : temp'[m] = temp[m]
  BY ZenonT(40), <1>1, <1>3, <1>4, TempChanges DEF PublishInv
<1> QED
  BY <1>2, <1>3, <1>5

\* The shapes are kept by a step on the disk.
LEMMA TempType ==
    ASSUME PublishTypeOK, UNCHANGED <<record, entry, stale, used, final, delivered>>,
           temp' \in [Attempts -> Directory \cup {NONE}],
           faults' \in 0 .. MaxFaults, residue' \in BOOLEAN, pos' \in 1 .. Len(Plan) + 1,
           pc' = "idle" \/ (pc \notin {"idle", "planning"} /\ pc' \notin {"idle", "planning"})
                        \/ pc' = pc
    PROVE  PublishTypeOK'
  BY DEF PublishTypeOK

LEMMA CleanFileOK == PublishInv /\ CleanFile => PublishInv'
<1> SUFFICES ASSUME PublishInv, CleanFile PROVE PublishInv'
  OBVIOUS
<1>1. /\ UNCHANGED <<record, entry, stale, used, final, delivered>> /\ pc' = pc /\ pos \in Files
      /\ pc \in {"cleaning for retry", "cleaning after failure"}
  BY DEF CleanFile, Goto, Cleaning
<1>2. /\ faults' \in 0 .. MaxFaults /\ residue' \in BOOLEAN
  BY ProgressKept DEF CleanFile
<1>3. pos' \in 1 .. Len(Plan) + 1
  BY PlanLength DEF CleanFile, Files
<1>4. RecordOK' /\ temp' \in [Attempts -> Directory \cup {NONE}]
  <2>1. CASE UNCHANGED temp
    BY <1>1, <2>1, RecordSame DEF PublishInv, PublishTypeOK, disk
  <2>2. CASE /\ Present(pos)
             /\ temp' = [temp EXCEPT ![N].files[pos] = "absent"]
    BY <1>1, <2>2, Held, FileStep DEF Present, DirFileStates
  <2> QED
    BY <2>1, <2>2 DEF CleanFile
<1>5. PublishTypeOK'
  BY <1>1, <1>2, <1>3, <1>4, TempType DEF PublishInv
<1>6. EntryOK' /\ CleanedOK'
  BY <1>1 DEF PublishInv, EntryOK, CleanedOK, Settling, FileStages, NamedStages
<1> QED
  BY <1>4, <1>5, <1>6 DEF PublishInv

LEMMA CleanDirectoryOK == PublishInv /\ CleanDirectory => PublishInv'
<1> SUFFICES ASSUME PublishInv, CleanDirectory PROVE PublishInv'
  OBVIOUS
<1>1. /\ UNCHANGED <<record, entry, stale, used, final, delivered>> /\ pos' = pos
      /\ pc = "cleaning for retry" => pc' = "cleaned for retry"
      /\ pc = "cleaning after failure" => pc' = "cleaned after failure"
      /\ pc \in {"cleaning for retry", "cleaning after failure"}
  BY DEF CleanDirectory, Goto, Cleaned, Cleaning
<1>2. faults' \in 0 .. MaxFaults /\ residue' \in BOOLEAN /\ pos' \in 1 .. Len(Plan) + 1
  BY <1>1, ProgressKept DEF CleanDirectory
<1>3. N \in Attempts
  BY <1>1, Held
<1>4. CASE temp[N] = NewDir(N) /\ temp' = [temp EXCEPT ![N] = NONE]
  <2>1. RecordOK' /\ temp' \in [Attempts -> Directory \cup {NONE}] /\ temp'[N] = NONE
    BY <1>1, <1>3, <1>4, TempChanges DEF PublishInv
  <2>2. PublishTypeOK'
    BY <1>1, <1>2, <2>1, TempType DEF PublishInv
  <2>3. N \notin delivered
    <3>1. N \in 0 .. MaxAttempts
      BY <1>3, NumberAssumption DEF Attempts
    <3>2. temp[N].owner = N
      BY <1>4, <3>1, NewDirIsNew
    <3>3. temp[N] # NONE
      BY <1>4, <3>1, NewDirIsNew, AbsenceAssumption
    <3> QED
      BY <1>3, <3>2, <3>3 DEF PublishInv, RecordOK, DiskOK
  <2>4. EntryOK' /\ CleanedOK'
    BY <1>1, <2>1, <2>3 DEF PublishInv, EntryOK, CleanedOK, Settling, FileStages, NamedStages, N
  <2> QED
    BY <2>1, <2>2, <2>4 DEF PublishInv
<1>5. CASE residue' /\ UNCHANGED temp
  <2>1. RecordOK' /\ temp' \in [Attempts -> Directory \cup {NONE}]
    BY <1>1, <1>5, RecordSame DEF PublishInv, PublishTypeOK, disk
  <2>2. PublishTypeOK'
    BY <1>1, <1>2, <2>1, TempType DEF PublishInv
  <2>3. EntryOK' /\ CleanedOK'
    BY <1>1, <1>5 DEF PublishInv, EntryOK, CleanedOK, Settling, FileStages, NamedStages, N
  <2> QED
    BY <2>1, <2>2, <2>3 DEF PublishInv
<1> QED
  BY <1>4, <1>5 DEF CleanDirectory

LEMMA MakeDirectoryOK == PublishInv /\ MakeDirectory => PublishInv'
<1> SUFFICES ASSUME PublishInv, MakeDirectory PROVE PublishInv'
  OBVIOUS
<1>1. /\ UNCHANGED <<record, entry, stale, used, final, delivered, progress>>
      /\ pc = "making"
      /\ pc' \in {"capturing", "idle"}
  BY DEF MakeDirectory, Goto
<1>2. /\ faults' \in 0 .. MaxFaults /\ residue' \in BOOLEAN
      /\ pos' \in 1 .. Len(Plan) + 1 /\ pos' = pos
  BY ProgressKept DEF MakeDirectory, progress
<1>3. /\ N \in Attempts /\ record.state = "publishing" /\ record.attempt.n = N
      /\ entry = record /\ ~stale
      /\ ~entry.attempt.captured /\ entry.state = "publishing" /\ pos \in Files
  BY <1>1, Held DEF PublishInv, EntryOK, Settling, FileStages
<1>4. RecordOK' /\ temp' \in [Attempts -> Directory \cup {NONE}]
  <2>1. CASE UNCHANGED temp
    BY <1>1, <2>1, RecordSame DEF PublishInv, PublishTypeOK, disk
  <2>2. CASE temp' = [temp EXCEPT ![N] = NewDir(N)]
    <3>1. N \in 0 .. MaxAttempts
      BY <1>3, NumberAssumption DEF Attempts
    <3>2. /\ NewDir(N) \in Directory /\ NewDir(N).owner = N
          /\ \A f \in Files : NewDir(N).files[f] = "absent"
      BY <3>1, NewDirIsNew
    <3>3. N \notin delivered
      BY <1>3 DEF PublishInv, RecordOK, DiskOK
    <3> QED
      BY <1>1, <1>3, <2>2, <3>2, <3>3, TempChanges DEF PublishInv
  <2> QED
    BY <2>1, <2>2 DEF MakeDirectory
<1>5. PublishTypeOK'
  BY <1>1, <1>2, <1>4, TempType DEF PublishInv
<1>6. EntryOK' /\ CleanedOK'
  BY <1>1, <1>2, <1>3 DEF EntryOK, CleanedOK, Settling, FileStages, NamedStages
<1> QED
  BY <1>4, <1>5, <1>6 DEF PublishInv

\* What the process knows while it writes a file.
LEMMA WritingFacts ==
    ASSUME PublishInv, pc = "writing"
    PROVE  /\ N \in Attempts /\ pos \in Files
           /\ entry = record /\ ~stale /\ entry.state = "publishing"
           /\ Extends(record.attempt, entry.attempt)
           /\ record.attempt.files[pos] # "none" /\ File(pos) # "none"
  BY Held DEF PublishInv, EntryOK, Settling, FileStages, NamedStages, File

LEMMA WriteFileOK == PublishInv /\ WriteFile => PublishInv'
<1> SUFFICES ASSUME PublishInv, WriteFile PROVE PublishInv'
  OBVIOUS
<1>1. /\ UNCHANGED <<record, entry, stale, used, final, delivered, faults>> /\ UNCHANGED progress
      /\ pc = "writing" /\ pc' = "registering"
      /\ temp[N] # NONE /\ temp' = [temp EXCEPT ![N].files[pos] = "whole"]
  BY DEF WriteFile, Goto, Written, IsOurs
<1>2. /\ faults' \in 0 .. MaxFaults /\ residue' \in BOOLEAN
      /\ pos' \in 1 .. Len(Plan) + 1 /\ pos' = pos
  BY <1>1, ProgressKept DEF progress
<1>3. RecordOK' /\ temp' \in [Attempts -> Directory \cup {NONE}]
  BY <1>1, WritingFacts, FileStep DEF DirFileStates
<1>4. PublishTypeOK'
  BY <1>1, <1>2, <1>3, TempType DEF PublishInv
<1>5. EntryOK' /\ CleanedOK'
  BY <1>1, <1>2, WritingFacts DEF EntryOK, CleanedOK, Settling, FileStages, NamedStages, File
<1> QED
  BY <1>3, <1>4, <1>5 DEF PublishInv

LEMMA WriteFailsPartlyOK == PublishInv /\ WriteFailsPartly => PublishInv'
<1> SUFFICES ASSUME PublishInv, WriteFailsPartly PROVE PublishInv'
  OBVIOUS
<1>1. /\ UNCHANGED <<record, entry, stale, used, final, delivered, residue>>
      /\ pc = "writing" /\ pc' \in {"owning", "cleaning after failure"}
      /\ pc' = "owning" => pos' = pos
      /\ pos' \in {pos, 1}
      /\ temp[N] # NONE /\ temp' = [temp EXCEPT ![N].files[pos] = "partial"]
  BY DEF WriteFailsPartly, Goto, Written, IsOurs
<1>2. faults' \in 0 .. MaxFaults /\ residue' \in BOOLEAN /\ pos' \in 1 .. Len(Plan) + 1
  BY <1>1, ProgressKept DEF WriteFailsPartly, PublishInv, PublishTypeOK
<1>3. RecordOK' /\ temp' \in [Attempts -> Directory \cup {NONE}]
  BY <1>1, WritingFacts, FileStep DEF DirFileStates
<1>4. PublishTypeOK'
  BY <1>1, <1>2, <1>3, TempType DEF PublishInv
<1>5. EntryOK' /\ CleanedOK'
  BY <1>1, <1>2, WritingFacts DEF EntryOK, CleanedOK, Settling, FileStages, NamedStages, File
<1> QED
  BY <1>3, <1>4, <1>5 DEF PublishInv

LEMMA CrashOK == PublishInv /\ Crash => PublishInv'
<1> SUFFICES ASSUME PublishInv, Crash PROVE PublishInv'
  OBVIOUS
<1>1. /\ UNCHANGED <<record, entry, stale, used, final, delivered>> /\ UNCHANGED progress
      /\ pc' = "idle"
  BY DEF Crash, Goto
<1>2. faults' \in 0 .. MaxFaults /\ residue' \in BOOLEAN /\ pos' \in 1 .. Len(Plan) + 1
  BY <1>1, ProgressKept, FailureBound DEF Crash, PublishInv
<1>3. RecordOK' /\ temp' \in [Attempts -> Directory \cup {NONE}]
  <2>1. CASE UNCHANGED temp
    BY <1>1, <2>1, RecordSame DEF PublishInv, PublishTypeOK, disk
  <2>2. CASE /\ pc = "writing" /\ temp[N] # NONE
             /\ temp' = [temp EXCEPT ![N].files[pos] = "partial"]
    BY <1>1, <2>2, WritingFacts, FileStep DEF DirFileStates
  <2> QED
    BY <2>1, <2>2 DEF Crash, Written, IsOurs
<1>4. PublishTypeOK'
  BY <1>1, <1>2, <1>3, TempType DEF PublishInv
<1> QED
  BY <1>1, <1>3, <1>4, IdleOK

LEMMA RenameOK == PublishInv /\ Rename => PublishInv'
<1> SUFFICES ASSUME PublishInv, Rename PROVE PublishInv'
  OBVIOUS
<1>1. /\ UNCHANGED <<record, entry, stale, used>> /\ UNCHANGED progress
      /\ pc = "renaming" /\ pc' \in {"confirming", "cleaning after failure"}
  BY DEF Rename, Goto
<1>2. faults' \in 0 .. MaxFaults /\ residue' \in BOOLEAN /\ pos' \in 1 .. Len(Plan) + 1
  BY <1>1, ProgressKept DEF Rename
<1>3. /\ N \in Attempts /\ record.attempt.n = N /\ record.state = "publishing"
      /\ entry = record /\ ~stale /\ entry.state = "publishing" /\ entry.attempt # NONE
      /\ Extends(record.attempt, entry.attempt)
  BY <1>1, Held, AbsenceAssumption DEF PublishInv, EntryOK, Settling
<1>4. PublishTypeOK' /\ RecordOK'
  <2>1. CASE UNCHANGED disk
    BY <1>1, <1>2, <2>1, GotoOK
  <2>2. CASE /\ IsOurs(temp[N])
             /\ final' = [final EXCEPT ![N] = temp[N]]
             /\ temp' = [temp EXCEPT ![N] = NONE]
             /\ delivered' = delivered \cup {N}
    <3>1. /\ temp \in [Attempts -> Directory \cup {NONE}]
          /\ final \in [Attempts -> Directory \cup {NONE}]
      BY DEF PublishInv, PublishTypeOK
    <3>2. /\ temp' \in [Attempts -> Directory \cup {NONE}]
          /\ final' \in [Attempts -> Directory \cup {NONE}]
          /\ temp'[N] = NONE /\ final'[N] = temp[N]
          /\ \A m \in Attempts \ {N} : temp'[m] = temp[m] /\ final'[m] = final[m]
      BY <1>3, <2>2, <3>1
    <3>3. PublishTypeOK'
      BY <1>1, <1>2, <1>3, <2>2, <3>2 DEF PublishInv, PublishTypeOK
    <3>4. DeliveredOnce' /\ PublishedIsDelivered'
      BY <1>1, <1>3, <2>2 DEF PublishInv, RecordOK, DeliveredOnce, PublishedIsDelivered
    <3>5. OwnedIsRecorded'
      BY <1>1, <3>2 DEF PublishInv, RecordOK, OwnedIsRecorded
    <3>6. DiskOK'
      BY <1>1, <1>3, <2>2, <3>2 DEF PublishInv, RecordOK, DiskOK, IsOurs
    <3> QED
      BY <3>3, <3>4, <3>5, <3>6 DEF RecordOK
  <2> QED
    BY <2>1, <2>2 DEF Rename
<1>5. EntryOK' /\ CleanedOK'
  BY <1>1, <1>3 DEF EntryOK, CleanedOK, Settling, FileStages, NamedStages
<1> QED
  BY <1>4, <1>5 DEF PublishInv

(***************************************************************************)
(* The user and other programs                                             *)
(***************************************************************************)
LEMMA TouchedFacts ==
    ASSUME NEW dir \in Directory, NEW d \in Touched(dir)
    PROVE  /\ d \in Directory /\ d.owner = dir.owner
           /\ \A f \in Files : d.files[f] \in {"partial", "whole"} => d.files[f] = dir.files[f]
<1>1. CASE d = [dir EXCEPT !.extra = TRUE]
  BY <1>1 DEF Directory
<1>2. ASSUME NEW f \in Files, NEW state \in {"foreign", "absent"},
             d = [dir EXCEPT !.files[f] = state]
      PROVE  /\ d \in Directory /\ d.owner = dir.owner
             /\ \A g \in Files : d.files[g] \in {"partial", "whole"} => d.files[g] = dir.files[g]
  <2>1. state \in DirFileStates
    BY DEF DirFileStates
  <2> QED
    BY <1>2, <2>1, FileChanges
<1> QED
  BY <1>1, <1>2 DEF Touched

\* What others do to a directory leaves the record and the process alone.
LEMMA InterferedProgress ==
    ASSUME PublishInv, Interferes
    PROVE  /\ UNCHANGED <<record, entry, stale, used, delivered>>
           /\ pc' = pc /\ pos' = pos /\ residue' = residue
           /\ faults' \in 0 .. MaxFaults /\ residue' \in BOOLEAN /\ pos' \in 1 .. Len(Plan) + 1
  BY ProgressKept, FailureBound DEF Interferes, PublishInv, progress

LEMMA TempInterference ==
    ASSUME PublishInv, Interferes, NEW n \in Attempts, NEW d \in Directory \cup {NONE},
           temp' = [temp EXCEPT ![n] = d], UNCHANGED final,
           (d # NONE /\ d.owner = n) =>
              /\ temp[n] # NONE /\ temp[n].owner = n
              /\ \A f \in Files :
                    d.files[f] \in {"partial", "whole"} => d.files[f] = temp[n].files[f]
    PROVE  PublishInv'
<1>1. /\ UNCHANGED <<record, entry, stale, used, delivered>>
      /\ pc' = pc /\ pos' = pos /\ residue' = residue
      /\ faults' \in 0 .. MaxFaults /\ residue' \in BOOLEAN /\ pos' \in 1 .. Len(Plan) + 1
  BY InterferedProgress
<1>2. (d # NONE /\ d.owner = n) =>
            /\ n \notin delivered
            /\ record.state = "publishing" /\ record.attempt.n = n
            /\ \A f \in Files :
                  d.files[f] \in {"partial", "whole"} => record.attempt.files[f] # "none"
  BY DEF PublishInv, RecordOK, DiskOK, OwnedIsRecorded
<1>3. /\ RecordOK' /\ temp' \in [Attempts -> Directory \cup {NONE}]
      /\ temp'[n] = d /\ \A m \in Attempts \ {n} : temp'[m] = temp[m]
  BY <1>1, <1>2, TempChanges DEF PublishInv
<1>4. PublishTypeOK'
  BY <1>1, <1>3, TempType DEF PublishInv
<1>5. EntryOK'
  BY <1>1 DEF PublishInv, EntryOK, File
<1>6. CleanedOK'
  <2> SUFFICES ASSUME pc \in {"cleaned for retry", "cleaned after failure"}, ~residue
               PROVE  N \notin delivered /\ (temp'[N] # NONE => temp'[N].owner # N)
    BY <1>1 DEF CleanedOK, N
  <2>1. N \in Attempts /\ N \notin delivered /\ (temp[N] # NONE => temp[N].owner # N)
    BY Held DEF PublishInv, CleanedOK
  <2> QED
    BY <1>3, <2>1
<1> QED
  BY <1>3, <1>4, <1>5, <1>6 DEF PublishInv

LEMMA FinalInterference ==
    ASSUME PublishInv, Interferes, NEW n \in Attempts, NEW d \in Directory \cup {NONE},
           final' = [final EXCEPT ![n] = d], UNCHANGED temp,
           (d # NONE /\ d.owner = n) => final[n] # NONE /\ final[n].owner = n
    PROVE  PublishInv'
<1>1. /\ UNCHANGED <<record, entry, stale, used, delivered>>
      /\ pc' = pc /\ pos' = pos /\ residue' = residue
      /\ faults' \in 0 .. MaxFaults /\ residue' \in BOOLEAN /\ pos' \in 1 .. Len(Plan) + 1
  BY InterferedProgress
<1>2. (d # NONE /\ d.owner = n) => n \in delivered
  BY DEF PublishInv, RecordOK, DiskOK
<1>3. RecordOK' /\ final' \in [Attempts -> Directory \cup {NONE}]
  BY <1>1, <1>2, FinalChanges DEF PublishInv
<1>4. PublishTypeOK'
  BY <1>1, <1>3 DEF PublishInv, PublishTypeOK
<1>5. EntryOK' /\ CleanedOK'
  BY <1>1 DEF PublishInv, EntryOK, CleanedOK, File, N
<1> QED
  BY <1>3, <1>4, <1>5 DEF PublishInv

LEMMA TouchOK == PublishInv /\ (\E n \in Attempts : Touch(n)) => PublishInv'
<1> SUFFICES ASSUME PublishInv, NEW n \in Attempts, Touch(n) PROVE PublishInv'
  OBVIOUS
<1>1. Interferes
  BY DEF Touch
<1>2. CASE /\ temp[n] # NONE /\ UNCHANGED final
           /\ temp' \in {[temp EXCEPT ![n] = d] : d \in Touched(temp[n])}
  <2>1. temp[n] \in Directory
    BY <1>2 DEF PublishInv, PublishTypeOK
  <2>2. PICK d \in Touched(temp[n]) : temp' = [temp EXCEPT ![n] = d]
    BY <1>2
  <2>3. /\ d \in Directory /\ d.owner = temp[n].owner
        /\ \A f \in Files : d.files[f] \in {"partial", "whole"} => d.files[f] = temp[n].files[f]
    BY <2>1, TouchedFacts
  <2> QED
    BY <1>1, <1>2, <2>2, <2>3, TempInterference
<1>3. CASE /\ final[n] # NONE /\ UNCHANGED temp
           /\ final' \in {[final EXCEPT ![n] = d] : d \in Touched(final[n])}
  <2>1. final[n] \in Directory
    BY <1>3 DEF PublishInv, PublishTypeOK
  <2>2. PICK d \in Touched(final[n]) : final' = [final EXCEPT ![n] = d]
    BY <1>3
  <2>3. d \in Directory /\ d.owner = final[n].owner
    BY <2>1, TouchedFacts
  <2> QED
    BY <1>1, <1>3, <2>2, <2>3, FinalInterference
<1> QED
  BY <1>2, <1>3 DEF Touch

LEMMA TakeAwayOK == PublishInv /\ (\E n \in Attempts : TakeAway(n)) => PublishInv'
<1> SUFFICES ASSUME PublishInv, NEW n \in Attempts, TakeAway(n) PROVE PublishInv'
  OBVIOUS
<1>1. /\ Interferes
      /\ \/ temp' = [temp EXCEPT ![n] = NONE] /\ UNCHANGED final
         \/ final' = [final EXCEPT ![n] = NONE] /\ UNCHANGED temp
  BY DEF TakeAway
<1> QED
  BY <1>1, TempInterference, FinalInterference

LEMMA OccupyOK == PublishInv /\ (\E n \in Attempts : Occupy(n)) => PublishInv'
<1> SUFFICES ASSUME PublishInv, NEW n \in Attempts, Occupy(n) PROVE PublishInv'
  OBVIOUS
<1>1. /\ Interferes
      /\ \/ temp' = [temp EXCEPT ![n] = NewDir(0)] /\ UNCHANGED final
         \/ final' = [final EXCEPT ![n] = NewDir(0)] /\ UNCHANGED temp
  BY DEF Occupy
<1>2. NewDir(0) \in Directory /\ NewDir(0).owner # n
  BY NewDirIsNew, NumberAssumption DEF Attempts
<1> QED
  BY <1>1, <1>2, TempInterference, FinalInterference

(***************************************************************************)
(* The publication is sound                                                *)
(***************************************************************************)
LEMMA StutterOK == PublishInv /\ UNCHANGED vars => PublishInv'
<1> SUFFICES ASSUME PublishInv, UNCHANGED vars PROVE PublishInv'
  OBVIOUS
<1>1. /\ UNCHANGED <<record, temp, final, delivered, used, pc, entry, stale, pos, residue, faults>>
      /\ UNCHANGED disk
  BY DEF vars, disk, progress
<1>2. PublishTypeOK'
  BY <1>1 DEF PublishInv, PublishTypeOK
<1>3. RecordOK'
  BY <1>1, RecordSame DEF PublishInv
<1>4. EntryOK'
  BY <1>1 DEF PublishInv, EntryOK, File
<1>5. CleanedOK'
  BY <1>1 DEF PublishInv, CleanedOK, N
<1> QED
  BY <1>2, <1>3, <1>4, <1>5 DEF PublishInv

\* Every step keeps the invariant.
LEMMA StepOK == PublishInv /\ [Next]_vars => PublishInv'
  BY RenderOK, CloseOK, TakeOK, RecoverPublishedOK, RecoverBeforeRenameOK, CleanupRefusedOK,
     CleanFileOK, CleanDirectoryOK, RecordResidueOK, ResetAfterFailureOK, ResetForRetryOK,
     PlanAttemptOK, PlanFailsOK, MakeDirectoryOK, CaptureDirectoryOK, BuildFailsOK, ReservesOK,
     WriteFileOK, WriteFailsPartlyOK, OwnsPartialOK, RegistersOK, SealsOK, VerifiesOK, RenameOK,
     ConfirmOK, CrashOK, TouchOK, TakeAwayOK, OccupyOK, StutterOK
     DEF Next, ProcessStep

\* The inductive invariant of a publication.
THEOREM PublishIsInductive == Spec => []PublishInv
  BY InitOK, StepOK, PTL DEF Spec

\* A directory is delivered at most once and never given up, what is reported as
\* published was delivered, and every directory and file of ours at a temporary
\* path is on record, whatever fails, crashes or interferes (publish_bundle,
\* _recover_before_rename, _cleanup_attempt).
THEOREM PublicationIsSound == Spec => []PublishIsSound
<1>1. PublishInv => PublishIsSound
  BY DEF PublishInv, RecordOK, PublishIsSound
<1> QED
  BY <1>1, PublishIsInductive, PTL

(***************************************************************************)
(* Nothing of others is lost                                               *)
(***************************************************************************)
NothingLost ==
    \A n \in Attempts :
        /\ Foreign(temp[n], n) \subseteq Foreign(temp'[n], n) \cup Foreign(final'[n], n)
        /\ Foreign(final[n], n) \subseteq Foreign(final'[n], n)

\* Only steps on the disk could lose something.
LEMMA DiskUntouched == UNCHANGED <<temp, final>> => NothingLost
  BY DEF NothingLost

\* A step touches one attempt.
LEMMA OneTempChanges ==
    ASSUME NEW n \in Attempts, UNCHANGED final,
           \A m \in Attempts \ {n} : temp'[m] = temp[m],
           Foreign(temp[n], n) \subseteq Foreign(temp'[n], n)
    PROVE  NothingLost
  BY DEF NothingLost

\* Nothing and a new directory hold nothing of others.
LEMMA NothingForeign ==
    ASSUME NEW n \in Attempts
    PROVE  Foreign(NONE, n) = {} /\ Foreign(NewDir(n), n) = {}
<1>1. Foreign(NONE, n) = {}
  BY DEF Foreign
<1>2. n \in 0 .. MaxAttempts
  BY NumberAssumption DEF Attempts
<1>3. /\ NewDir(n).owner = n /\ ~NewDir(n).extra
      /\ \A f \in Files : NewDir(n).files[f] = "absent"
  BY <1>2, NewDirIsNew
<1> HIDE DEF NewDir
<1>4. Foreign(NewDir(n), n) = {}
  BY <1>3 DEF Foreign
<1> QED
  BY <1>1, <1>4

\* A directory that keeps its foreign files keeps all that is foreign in it.
LEMMA ForeignFilesKept ==
    ASSUME NEW n \in Attempts, NEW a \in Directory, NEW b \in Directory,
           b.owner = a.owner, b.extra = a.extra,
           \A f \in Files : a.files[f] = "foreign" => b.files[f] = "foreign"
    PROVE  Foreign(a, n) \subseteq Foreign(b, n)
  BY AbsenceAssumption DEF Foreign

\* A step on a file that is not foreign loses nothing.
LEMMA FileStepKeepsForeign ==
    ASSUME PublishInv, UNCHANGED <<record, final, delivered>>,
           NEW n \in Attempts, temp[n] # NONE, NEW f \in Files, NEW state \in DirFileStates,
           temp' = [temp EXCEPT ![n].files[f] = state],
           (state \in {"partial", "whole"} /\ temp[n].owner = n) =>
               record.attempt.files[f] # "none",
           temp[n].files[f] # "foreign"
    PROVE  NothingLost
<1>1. /\ temp[n] \in Directory /\ temp'[n] \in Directory
      /\ temp'[n].owner = temp[n].owner /\ temp'[n].extra = temp[n].extra
      /\ \A g \in Files \ {f} : temp'[n].files[g] = temp[n].files[g]
      /\ \A m \in Attempts \ {n} : temp'[m] = temp[m]
  BY ZenonT(40), FileStep
<1>2. \A g \in Files : temp[n].files[g] = "foreign" => temp'[n].files[g] = "foreign"
  BY <1>1
<1>3. Foreign(temp[n], n) \subseteq Foreign(temp'[n], n)
  BY <1>1, <1>2, ForeignFilesKept
<1> QED
  BY <1>1, <1>3, OneTempChanges

\* Only a file that is still the captured one is deleted.
LEMMA CleanFileKeeps == PublishInv /\ CleanFile => NothingLost
<1> SUFFICES ASSUME PublishInv, CleanFile PROVE NothingLost
  OBVIOUS
<1>1. UNCHANGED <<record, final, delivered>> /\ pos \in Files /\ pc \notin {"idle", "planning"}
  BY DEF CleanFile, Goto, Cleaning
<1>2. CASE UNCHANGED temp
  BY <1>1, <1>2, DiskUntouched
<1>3. CASE /\ Present(pos) /\ MayUnlink(pos)
           /\ temp' = [temp EXCEPT ![N].files[pos] = "absent"]
  <2>1. N \in Attempts /\ entry.attempt \in Attempt
    BY <1>1, Held
  <2>2. File(pos) # "foreign"
    BY <1>1, <2>1 DEF File, Attempt, FileStates
  <2>3. temp[N] # NONE /\ temp[N].files[pos] # "foreign"
    BY <1>3, <2>2 DEF Present, MayUnlink
  <2> QED
    BY <1>1, <1>3, <2>1, <2>3, FileStepKeepsForeign DEF DirFileStates
<1> QED
  BY <1>2, <1>3 DEF CleanFile

\* Only an empty directory of the attempt's own is removed.
LEMMA CleanDirectoryKeeps == PublishInv /\ CleanDirectory => NothingLost
<1> SUFFICES ASSUME PublishInv, CleanDirectory PROVE NothingLost
  OBVIOUS
<1>1. UNCHANGED final /\ pc \notin {"idle", "planning"}
  BY DEF CleanDirectory, Cleaning
<1>2. CASE UNCHANGED temp
  BY <1>1, <1>2, DiskUntouched
<1>3. CASE temp[N] = NewDir(N) /\ temp' = [temp EXCEPT ![N] = NONE]
  <2>1. N \in Attempts
    BY <1>1, Held
  <2>2. \A m \in Attempts \ {N} : temp'[m] = temp[m]
    BY <1>3, <2>1 DEF PublishInv, PublishTypeOK
  <2>3. Foreign(temp[N], N) = {}
    BY <1>3, <2>1, NothingForeign
  <2> QED
    BY <1>1, <2>1, <2>2, <2>3, OneTempChanges
<1> QED
  BY <1>2, <1>3 DEF CleanDirectory

\* A directory is made only where there is nothing.
LEMMA MakeDirectoryKeeps == PublishInv /\ MakeDirectory => NothingLost
<1> SUFFICES ASSUME PublishInv, MakeDirectory PROVE NothingLost
  OBVIOUS
<1>1. UNCHANGED final /\ pc \notin {"idle", "planning"}
  BY DEF MakeDirectory
<1>2. CASE UNCHANGED temp
  BY <1>1, <1>2, DiskUntouched
<1>3. CASE temp[N] = NONE /\ temp' = [temp EXCEPT ![N] = NewDir(N)]
  <2>1. N \in Attempts
    BY <1>1, Held
  <2>2. \A m \in Attempts \ {N} : temp'[m] = temp[m]
    BY <1>3, <2>1 DEF PublishInv, PublishTypeOK
  <2>3. Foreign(temp[N], N) = {}
    BY <1>3, <2>1, NothingForeign
  <2> QED
    BY <1>1, <2>1, <2>2, <2>3, OneTempChanges
<1> QED
  BY <1>2, <1>3 DEF MakeDirectory

\* A file is created only where there is none (exclusive creation).
LEMMA WritesKeep ==
    ASSUME PublishInv, UNCHANGED <<record, final, delivered>>, pc = "writing", IsOurs(temp[N]),
           temp[N].files[pos] = "absent",
           NEW state \in {"partial", "whole"}, temp' = Written(state)
    PROVE  NothingLost
<1>1. state \in DirFileStates /\ temp[N] # NONE
  BY DEF DirFileStates, IsOurs
<1> QED
  BY <1>1, WritingFacts, FileStepKeepsForeign DEF Written

\* The rename takes the directory with all that is in it to a free name.
LEMMA RenameKeeps == PublishInv /\ Rename => NothingLost
<1> SUFFICES ASSUME PublishInv, Rename PROVE NothingLost
  OBVIOUS
<1>1. CASE UNCHANGED disk
  BY <1>1, DiskUntouched DEF disk
<1>2. CASE /\ final[N] = NONE
           /\ final' = [final EXCEPT ![N] = temp[N]]
           /\ temp' = [temp EXCEPT ![N] = NONE]
  <2>1. N \in Attempts
    BY Held DEF Rename
  <2>2. /\ final'[N] = temp[N]
        /\ \A m \in Attempts \ {N} : temp'[m] = temp[m] /\ final'[m] = final[m]
    BY <1>2, <2>1 DEF PublishInv, PublishTypeOK
  <2>3. Foreign(final[N], N) = {}
    BY <1>2, <2>1, NothingForeign
  <2> QED
    BY <2>1, <2>2, <2>3 DEF NothingLost
<1> QED
  BY <1>1, <1>2 DEF Rename

\* A crash may leave a partial file where there was none.
LEMMA CrashKeeps == PublishInv /\ Crash => NothingLost
<1> SUFFICES ASSUME PublishInv, Crash PROVE NothingLost
  OBVIOUS
<1>1. UNCHANGED <<record, final, delivered>>
  BY DEF Crash, Goto
<1>2. CASE UNCHANGED temp
  BY <1>1, <1>2, DiskUntouched
<1>3. CASE /\ pc = "writing" /\ IsOurs(temp[N]) /\ temp[N].files[pos] = "absent"
           /\ temp' = Written("partial")
  BY <1>1, <1>3, WritesKeep
<1> QED
  BY <1>2, <1>3 DEF Crash

\* The user and others are not what the property speaks of.
LEMMA InterferenceIsNoStep ==
    (\E n \in Attempts : Touch(n) \/ TakeAway(n) \/ Occupy(n)) => UNCHANGED <<record, pc, pos>>
  BY DEF Touch, TakeAway, Occupy, Interferes, progress

\* No step of the publication loses anything.
LEMMA ProcessKeeps ==
    ASSUME PublishInv, Render \/ Close \/ PublishBundle \/ StatusBundle \/ ProcessStep \/ Crash
    PROVE  NothingLost
<1>1. CASE Render \/ Close \/ PublishBundle \/ StatusBundle
  BY <1>1, DiskUntouched DEF Render, Close, PublishBundle, StatusBundle, Take, disk
<1>2. CASE CleanFile \/ CleanDirectory \/ MakeDirectory \/ Rename \/ Crash
  BY <1>2, CleanFileKeeps, CleanDirectoryKeeps, MakeDirectoryKeeps, RenameKeeps, CrashKeeps
<1>3. CASE WriteFile
  BY <1>3, WritesKeep DEF WriteFile, Goto
<1>4. CASE WriteFailsPartly
  BY <1>4, WritesKeep DEF WriteFailsPartly, Goto
<1>5. CASE \/ RecoverPublished \/ RecoverBeforeRename \/ CleanupRefused
           \/ RecordResidue \/ ResetAfterFailure \/ ResetForRetry \/ PlanAttempt \/ PlanFails
           \/ CaptureDirectory \/ BuildFails \/ ReserveFile \/ OwnPartialFile \/ RegisterFile
           \/ Seal \/ Verify \/ Confirm
  BY <1>5, DiskUntouched
     DEF RecoverPublished, RecoverBeforeRename, CleanupRefused, RecordResidue, ResetAfterFailure,
         ResetForRetry, PlanAttempt, PlanFails, CaptureDirectory, BuildFails, ReserveFile,
         OwnPartialFile, RegisterFile, Seal, Verify, Confirm, disk
<1> QED
  BY <1>1, <1>2, <1>3, <1>4, <1>5 DEF ProcessStep

\* No step of a publication deletes or replaces what is somebody else's: a file
\* is unlinked only while it is the captured one, a directory removed only when
\* it is ours and empty, made and renamed only where nothing is.
THEOREM ForeignStays == Spec => ForeignIsKept
<1>1. ASSUME PublishInv, [Next]_vars
      PROVE  [<<record, pc, pos>>' # <<record, pc, pos>> =>
                  \A n \in Attempts :
                      /\ Foreign(temp[n], n) \subseteq
                            Foreign(temp'[n], n) \cup Foreign(final'[n], n)
                      /\ Foreign(final[n], n) \subseteq Foreign(final'[n], n)]_vars
  BY <1>1, ProcessKeeps, InterferenceIsNoStep DEF Next, NothingLost
<1> QED
  BY <1>1, PublishIsInductive, PTL DEF Spec, ForeignIsKept
=============================================================================
