---------------------------- MODULE ExportPublish ----------------------------
(***************************************************************************)
(* Publication of one rendered export intent as one directory inside the   *)
(* parent the user selected (src/engine/export_publish.py), and the steps  *)
(* of the intent around it (src/engine/export_bundle.py).  One engine      *)
(* process at a time holds the journal's lock.  It may die at any step,    *)
(* any step may fail, and meanwhile the user and other programs use the    *)
(* same directory.                                                         *)
(*                                                                         *)
(* Abstractions.  The journal record is read and saved as a whole          *)
(* (ExportJournal).  Names are unique per attempt (uuid4), so an attempt   *)
(* is a number and owns one temporary and one final path.  A directory's   *)
(* identity is the attempt that made it, or 0 if somebody else did; a      *)
(* file's identity is who wrote it and whether its bytes are whole.  The   *)
(* receipt and the manifest follow from the registered files.  Residual    *)
(* lists are reduced to whether there are any.                             *)
(***************************************************************************)
EXTENDS Naturals, Sequences

CONSTANTS
    Plan,         \* the kinds of the files to publish, in the order written
    NONE,         \* None; also a path where nothing is
    FaultKinds,   \* bound of the model: the kinds of faults considered
    MaxFaults,    \* bound of the model: how many there are
    MaxAttempts,  \* bound of the model: attempts of the intent
    MaxHistory    \* MAX_RESIDUAL_ATTEMPTS

ASSUME PlanAssumption == Plan \in Seq({"pdf", "xlsx", "json"}) /\ Len(Plan) > 0
ASSUME FaultAssumption == FaultKinds \subseteq {"crash", "failure", "interference"}
ASSUME NumberAssumption == MaxFaults \in Nat /\ MaxAttempts \in Nat /\ MaxHistory \in Nat

VARIABLES
    record,     \* the durable journal record of the intent
    temp,       \* temp[n]: the directory at attempt n's temporary path
    final,      \* final[n]: the directory at attempt n's final path
    used,       \* how many pairs of names have been allocated
    pc,         \* where the process that holds the lock is
    entry,      \* the record as that process holds it
    stale,      \* its next save no longer matches the journal's version
    pos,        \* the file it is working on
    residue,    \* its cleanup has left something behind
    faults,     \* faults so far
    delivered   \* history: the attempts whose directory has been renamed

disk == <<temp, final, delivered>>
progress == <<pos, residue>>
vars == <<record, disk, used, pc, entry, stale, progress, faults>>

Attempts == 1 .. MaxAttempts
Files == 1 .. Len(Plan)

NewAttempt(n) ==
    [n |-> n, captured |-> FALSE, files |-> [f \in Files |-> "none"], receipt |-> FALSE,
     residuals |-> FALSE]
NewDir(owner) == [owner |-> owner, files |-> [f \in Files |-> "absent"], extra |-> FALSE]

\* The attempt the process works on.
N == entry.attempt.n
File(f) == entry.attempt.files[f]
With(field, value) == [entry EXCEPT !.attempt[field] = value]
WithFile(f, state) == [entry EXCEPT !.attempt.files[f] = state]
WithoutAttempt(history) ==
    [state |-> "rendered", attempt |-> NONE, history |-> history]

Init ==
    /\ record = [state |-> "created", attempt |-> NONE, history |-> 0]
    /\ temp = [n \in Attempts |-> NONE]
    /\ final = [n \in Attempts |-> NONE]
    /\ used = 0
    /\ pc = "idle" /\ entry = record /\ stale = FALSE /\ pos = 1 /\ residue = FALSE
    /\ faults = 0
    /\ delivered = {}

Fault(kind) == kind \in FaultKinds /\ faults < MaxFaults /\ faults' = faults + 1
Failure == Fault("failure")

(***************************************************************************)
(* A save publishes a new generation of the record or fails.  It may fail  *)
(* after the generation became durable: if it failed before it had taken   *)
(* the new version over, the version check refuses every later save of the *)
(* same process (_save_record).                                            *)
(***************************************************************************)
SaveOk(e) == ~stale /\ record' = e /\ entry' = e /\ UNCHANGED <<stale, faults>>
SaveFails(e) ==
    /\ entry' = e
    /\ \/ stale /\ UNCHANGED <<record, stale, faults>>
       \/ ~stale /\ Failure /\ UNCHANGED <<record, stale>>
       \/ ~stale /\ Failure /\ record' = e /\ stale' \in BOOLEAN
SaveThen(e, next, otherwise) ==
    \/ SaveOk(e) /\ pc' = next
    \/ SaveFails(e) /\ pc' = otherwise

Goto(next) == pc' = next /\ UNCHANGED <<record, entry, stale>>

(***************************************************************************)
(* The intent before its publication                                       *)
(***************************************************************************)
\* render: the previews are produced; then the record is saved.
Render ==
    /\ pc = "idle" /\ record.state = "created"
    /\ record' = [record EXCEPT !.state = "rendered"]
    /\ UNCHANGED <<disk, used, pc, entry, stale, progress, faults>>

\* Fault: an interrupted publication can be closed.
MayCloseMutant == record.state \notin {"published", "closed"}
\* close: only recovery may decide what became of a publication.
MayClose == record.state \in {"created", "rendered"}
Close ==
    /\ pc = "idle" /\ MayClose
    /\ record' = [record EXCEPT !.state = "closed"]
    /\ UNCHANGED <<disk, used, pc, entry, stale, progress, faults>>

(***************************************************************************)
(* publish_bundle and status_bundle take the lock and load the record      *)
(***************************************************************************)
Take(next) ==
    /\ pc = "idle" /\ pc' = next
    /\ entry' = record /\ stale' = FALSE /\ pos' = 1 /\ residue' = FALSE
    /\ UNCHANGED <<record, disk, used, faults>>
PublishBundle ==
    \/ record.state = "publishing" /\ Take("recovering")
    \/ record.state = "rendered" /\ Take("planning")
StatusBundle == record.state = "publishing" /\ Take("reporting")

\* _verify_temporary_directory, _verify_final_attempt: the captured directory ...
IsOurs(dir) == dir # NONE /\ entry.attempt.captured /\ dir.owner = N
\* ... with exactly the registered files (_verify_attempt_files).
Matches(dir) == \A f \in Files : File(f) = "whole" /\ dir.files[f] = "whole" /\ ~dir.extra

\* Fault: an attempt that left something behind is not looked for any more.
PublicationAtForgotten(dir) ==
    IsOurs(dir) /\ Matches(dir) /\ entry.attempt.receipt /\ ~entry.attempt.residuals
PublicationAt(dir) == IsOurs(dir) /\ Matches(dir) /\ entry.attempt.receipt

\* _recover_published_locked: the rename completed before the record was saved.
RecoverPublished ==
    /\ pc \in {"recovering", "reporting"}
    /\ final[N] # NONE
    /\ IF PublicationAt(final[N])
       THEN SaveThen([entry EXCEPT !.state = "published"], "idle", "idle")
       ELSE Goto("idle") /\ UNCHANGED faults
    /\ UNCHANGED <<disk, used, progress>>

\* Otherwise _recover_before_rename cleans up, and status_bundle only reports.
RecoverBeforeRename ==
    /\ pc \in {"recovering", "reporting"}
    /\ final[N] = NONE
    /\ Goto(IF pc = "recovering" THEN "cleaning for retry" ELSE "idle")
    /\ UNCHANGED <<disk, used, progress, faults>>

(***************************************************************************)
(* _cleanup_attempt, before a retry or after a failure                     *)
(***************************************************************************)
Cleaning == {"cleaning for retry", "cleaning after failure"}
Cleaned(where) ==
    IF where = "cleaning for retry" THEN "cleaned for retry" ELSE "cleaned after failure"

\* No directory was ever made, as far as the record can tell.
NothingMade == temp[N] = NONE /\ ~entry.attempt.captured

CleanupRefused ==
    /\ pc \in Cleaning /\ pos = 1 /\ ~IsOurs(temp[N])
    /\ residue' = ~NothingMade
    /\ Goto(Cleaned(pc))
    /\ UNCHANGED <<disk, used, pos, faults>>

\* Fault: a registered name is enough to delete a file.
MayUnlinkMutant(f) == File(f) # "none"
\* Only a file that is still the captured one is deleted (_unlink_owned_file).
MayUnlink(f) == File(f) = temp[N].files[f]

Present(f) == temp[N] # NONE /\ temp[N].files[f] # "absent"
CleanFile ==
    /\ pc \in Cleaning /\ pos \in Files
    /\ pos = 1 => IsOurs(temp[N])
    /\ pos' = pos + 1
    /\ \/ ~Present(pos) /\ UNCHANGED <<temp, residue, faults>>
       \/ /\ Present(pos) /\ MayUnlink(pos)
          /\ temp' = [temp EXCEPT ![N].files[pos] = "absent"]
          /\ UNCHANGED <<residue, faults>>
       \/ /\ Present(pos)
          /\ IF MayUnlink(pos) THEN Failure ELSE UNCHANGED faults
          /\ residue' = TRUE /\ UNCHANGED temp
    /\ Goto(pc)
    /\ UNCHANGED <<final, delivered, used>>

\* The directory itself goes if nothing is left in it (remove_directory_owned).
CleanDirectory ==
    /\ pc \in Cleaning /\ pos \notin Files
    /\ LET removable == ~residue /\ temp[N] = NewDir(N) IN
       \/ removable /\ temp' = [temp EXCEPT ![N] = NONE] /\ UNCHANGED <<residue, faults>>
       \/ /\ IF removable THEN Failure ELSE UNCHANGED faults
          /\ residue' = TRUE /\ UNCHANGED temp
    /\ Goto(Cleaned(pc))
    /\ UNCHANGED <<final, delivered, used, pos>>

RecordResidue ==
    /\ pc \in {"cleaned for retry", "cleaned after failure"} /\ residue
    /\ SaveThen(With("residuals", TRUE), "idle", "idle")
    /\ UNCHANGED <<disk, used, progress>>

\* _reset_after_clean_attempt, after a failure.
ResetAfterFailure ==
    /\ pc = "cleaned after failure" /\ ~residue
    /\ SaveThen(WithoutAttempt(entry.history), "idle", "idle")
    /\ UNCHANGED <<disk, used, progress>>

\* Before a retry, resolved residuals are first added to a bounded history.
ResetForRetry ==
    /\ pc = "cleaned for retry" /\ ~residue
    /\ \/ /\ entry.attempt.residuals /\ entry.history >= MaxHistory
          /\ Goto("idle") /\ UNCHANGED faults
       \/ /\ entry.attempt.residuals /\ entry.history < MaxHistory
          /\ SaveThen(WithoutAttempt(entry.history + 1), "planning", "idle")
       \/ /\ ~entry.attempt.residuals
          /\ SaveThen(WithoutAttempt(entry.history), "planning", "idle")
    /\ UNCHANGED <<disk, used, progress>>

(***************************************************************************)
(* _start_attempt                                                          *)
(***************************************************************************)
\* The planned paths are durable before anything is made.
PlanAttempt ==
    /\ pc = "planning" /\ used < MaxAttempts
    /\ used' = used + 1
    /\ SaveThen([entry EXCEPT !.state = "publishing", !.attempt = NewAttempt(used + 1)],
                "making", "idle")
    /\ pos' = 1 /\ residue' = FALSE
    /\ UNCHANGED disk

\* The intent or the parent directory is found invalid, or names run out.
PlanFails ==
    /\ pc = "planning"
    /\ IF used < MaxAttempts THEN Failure ELSE UNCHANGED faults
    /\ Goto("idle")
    /\ UNCHANGED <<disk, used, progress>>

\* mkdir refuses an existing name; a failure may follow the creation.
MakeDirectory ==
    /\ pc = "making"
    /\ \/ /\ temp[N] = NONE /\ temp' = [temp EXCEPT ![N] = NewDir(N)]
          /\ Goto("capturing") /\ UNCHANGED faults
       \/ /\ temp[N] = NONE /\ Failure
          /\ temp' \in {temp, [temp EXCEPT ![N] = NewDir(N)]}
          /\ Goto("idle")
       \/ temp[N] # NONE /\ Goto("idle") /\ UNCHANGED <<temp, faults>>
    /\ UNCHANGED <<final, delivered, used, progress>>

CaptureDirectory ==
    /\ pc = "capturing"
    /\ SaveThen(With("captured", TRUE), "building", "idle")
    /\ UNCHANGED <<disk, used, progress>>

(***************************************************************************)
(* _build_attempt_outputs, under handles that keep the directory in place  *)
(***************************************************************************)
BuildFails ==
    /\ pc \in {"building", "writing"}
    /\ IF \/ ~IsOurs(temp[N])
          \/ temp[N].files[pos] # "absent"
       THEN UNCHANGED faults ELSE Failure
    /\ Goto("cleaning after failure") /\ pos' = 1
    /\ UNCHANGED <<disk, used, residue>>

Reserved(f) == WithFile(f, "reserved")

\* A name is registered, and that is durable, before the file is created.
ReserveFile ==
    /\ pc = "building" /\ IsOurs(temp[N]) /\ temp[N].files[pos] = "absent"
    /\ \/ SaveOk(Reserved(pos)) /\ pc' = "writing" /\ UNCHANGED pos
       \/ SaveFails(Reserved(pos)) /\ pc' = "cleaning after failure" /\ pos' = 1
    /\ UNCHANGED <<disk, used, residue>>

Written(state) == [temp EXCEPT ![N].files[pos] = state]
WriteFile ==
    /\ pc = "writing" /\ IsOurs(temp[N]) /\ temp[N].files[pos] = "absent"
    /\ temp' = Written("whole")
    /\ Goto("registering")
    /\ UNCHANGED <<final, delivered, used, progress, faults>>

\* A file was created exclusively but not completed.  Only the workbook's
\* writer hands the identity of the partial file on (owned_identity).
WriteFailsPartly ==
    /\ pc = "writing" /\ IsOurs(temp[N]) /\ temp[N].files[pos] = "absent"
    /\ Failure
    /\ temp' = Written("partial")
    /\ \/ Plan[pos] = "xlsx" /\ Goto("owning") /\ UNCHANGED pos
       \/ Goto("cleaning after failure") /\ pos' = 1
    /\ UNCHANGED <<final, delivered, used, residue>>

OwnPartialFile ==
    /\ pc = "owning"
    /\ SaveThen(WithFile(pos, "partial"), "cleaning after failure", "cleaning after failure")
    /\ pos' = 1
    /\ UNCHANGED <<disk, used, residue>>

RegisterFile ==
    /\ pc = "registering"
    /\ \/ /\ SaveOk(WithFile(pos, "whole"))
          /\ pc' = IF pos = Len(Plan) THEN "sealing" ELSE "building"
          /\ pos' = pos + 1
       \/ SaveFails(WithFile(pos, "whole")) /\ pc' = "cleaning after failure" /\ pos' = 1
    /\ UNCHANGED <<disk, used, residue>>

\* The receipt is durable before the rename.
Seal ==
    /\ pc = "sealing"
    /\ \/ SaveOk(With("receipt", TRUE)) /\ pc' = "verifying"
       \/ SaveFails(With("receipt", TRUE)) /\ pc' = "cleaning after failure"
    /\ pos' = 1
    /\ UNCHANGED <<disk, used, residue>>

(***************************************************************************)
(* _finalise_attempt                                                       *)
(***************************************************************************)
\* The files are verified, the frozen scope is held and verified, the final
\* name is free; any of these may fail.
Verify ==
    /\ pc = "verifying"
    /\ LET fits == IsOurs(temp[N]) /\ final[N] = NONE IN
       \/ fits /\ Matches(temp[N]) /\ Goto("renaming") /\ UNCHANGED faults
       \/ /\ IF fits /\ Matches(temp[N]) THEN Failure ELSE UNCHANGED faults
          /\ Goto("cleaning after failure")
    /\ UNCHANGED <<disk, used, progress>>

\* rename_directory_no_replace moves exactly the captured directory and never
\* replaces anything; closing its handles may fail after the move.
Rename ==
    /\ pc = "renaming"
    /\ \/ /\ IsOurs(temp[N]) /\ final[N] = NONE
          /\ final' = [final EXCEPT ![N] = temp[N]]
          /\ temp' = [temp EXCEPT ![N] = NONE]
          /\ delivered' = delivered \cup {N}
          /\ \/ Goto("confirming") /\ UNCHANGED faults
             \/ Failure /\ Goto("cleaning after failure")
       \/ /\ IF IsOurs(temp[N]) /\ final[N] = NONE THEN Failure ELSE UNCHANGED faults
          /\ Goto("cleaning after failure")
          /\ UNCHANGED disk
    /\ UNCHANGED <<used, progress>>

\* The renamed directory is verified again before it is recorded.
Confirm ==
    /\ pc = "confirming"
    /\ IF PublicationAt(final[N])
       THEN SaveThen([entry EXCEPT !.state = "published"], "idle", "idle")
       ELSE Goto("idle") /\ UNCHANGED faults
    /\ UNCHANGED <<disk, used, progress>>

ProcessStep ==
    \/ RecoverPublished \/ RecoverBeforeRename
    \/ CleanupRefused \/ CleanFile \/ CleanDirectory
    \/ RecordResidue \/ ResetAfterFailure \/ ResetForRetry
    \/ PlanAttempt \/ PlanFails \/ MakeDirectory \/ CaptureDirectory
    \/ BuildFails \/ ReserveFile \/ WriteFile \/ WriteFailsPartly \/ OwnPartialFile
    \/ RegisterFile \/ Seal
    \/ Verify \/ Rename \/ Confirm

\* The process dies (or is killed after its time limit), perhaps amid a write.
Crash ==
    /\ pc # "idle" /\ Fault("crash")
    /\ \/ UNCHANGED temp
       \/ /\ pc = "writing" /\ IsOurs(temp[N]) /\ temp[N].files[pos] = "absent"
          /\ temp' = Written("partial")
    /\ Goto("idle")
    /\ UNCHANGED <<final, delivered, used, progress>>

(***************************************************************************)
(* What the user and other programs do to the attempts' directories        *)
(***************************************************************************)
Interferes ==
    Fault("interference") /\ UNCHANGED <<record, delivered, used, pc, entry, stale, progress>>

\* A file is replaced, removed or added.
Touched(dir) ==
    {[dir EXCEPT !.files[f] = state] : f \in Files, state \in {"foreign", "absent"}}
      \cup {[dir EXCEPT !.extra = TRUE]}
Touch(n) ==
    /\ Interferes
    /\ \/ temp[n] # NONE /\ temp' \in {[temp EXCEPT ![n] = d] : d \in Touched(temp[n])}
          /\ UNCHANGED final
       \/ final[n] # NONE /\ final' \in {[final EXCEPT ![n] = d] : d \in Touched(final[n])}
          /\ UNCHANGED temp

\* A directory is deleted or moved elsewhere; not while handles protect it.
Protected(n) == pc \in {"building", "writing", "owning", "registering", "sealing"} /\ n = N
TakeAway(n) ==
    /\ Interferes
    /\ \/ temp[n] # NONE /\ ~Protected(n) /\ temp' = [temp EXCEPT ![n] = NONE] /\ UNCHANGED final
       \/ final[n] # NONE /\ final' = [final EXCEPT ![n] = NONE] /\ UNCHANGED temp

\* Somebody makes a directory with that very name.
Occupy(n) ==
    /\ Interferes
    /\ n <= used
    /\ \/ temp[n] = NONE /\ temp' = [temp EXCEPT ![n] = NewDir(0)] /\ UNCHANGED final
       \/ final[n] = NONE /\ final' = [final EXCEPT ![n] = NewDir(0)] /\ UNCHANGED temp

Next ==
    \/ Render \/ Close
    \/ PublishBundle \/ StatusBundle
    \/ ProcessStep
    \/ Crash
    \/ \E n \in Attempts : Touch(n) \/ TakeAway(n) \/ Occupy(n)

Spec == Init /\ [][Next]_vars

\* A started process goes on, and the user opens the task again (status_bundle)
\* or retries (publish_bundle) as long as the publication is unfinished.
Fairness == WF_vars(ProcessStep) /\ SF_vars(StatusBundle) /\ SF_vars(PublishBundle)
FairSpec == Spec /\ Fairness

(***************************************************************************)
(* Properties                                                              *)
(***************************************************************************)
FileStates == {"none", "reserved", "partial", "whole"}
DirFileStates == {"absent", "partial", "whole", "foreign"}
Attempt ==
    [n : Attempts, captured : BOOLEAN, files : [Files -> FileStates], receipt : BOOLEAN,
     residuals : BOOLEAN]
Record ==
    [state : {"created", "rendered", "publishing", "published", "closed"},
     attempt : Attempt \cup {NONE}, history : 0 .. MaxHistory]
Directory == [owner : 0 .. MaxAttempts, files : [Files -> DirFileStates], extra : BOOLEAN]

\* None is neither an attempt nor a directory.
ASSUME AbsenceAssumption == NONE \notin Attempt \cup Directory

\* The journal record, the directories and the process keep their shapes, an
\* attempt is there exactly in the two states that need one, and a process
\* that works on an attempt holds one.
PublishTypeOK ==
    /\ record \in Record /\ entry \in Record
    /\ \A e \in {record, entry} :
           e.attempt # NONE <=> e.state \in {"publishing", "published"}
    /\ temp \in [Attempts -> Directory \cup {NONE}]
    /\ final \in [Attempts -> Directory \cup {NONE}]
    /\ used \in 0 .. MaxAttempts /\ faults \in 0 .. MaxFaults
    /\ stale \in BOOLEAN /\ residue \in BOOLEAN
    /\ pos \in 1 .. Len(Plan) + 1
    /\ delivered \subseteq Attempts
    /\ pc \notin {"idle", "planning"} => entry.attempt # NONE

\* A directory that reached its final path is never given up: the record
\* stays with that attempt for good, so that neither a retry nor a close
\* can lead to a second copy (publish_bundle, _recover_before_rename).
DeliveredOnce ==
    \A n \in delivered :
        record.state \in {"publishing", "published"} /\ record.attempt.n = n

\* What is reported as published is a directory this intent has made,
\* completed and moved to its final path (_verify_final_attempt).
PublishedIsDelivered ==
    record.state = "published" => record.attempt.n \in delivered

\* Whatever a publication leaves in the user's directory stays attributable:
\* the durable record still names the directory and every file of ours in it.
OwnedIsRecorded ==
    \A n \in Attempts :
        (temp[n] # NONE /\ temp[n].owner = n) =>
            /\ record.state = "publishing" /\ record.attempt.n = n
            /\ \A f \in Files :
                   temp[n].files[f] \in {"partial", "whole"} => record.attempt.files[f] # "none"

\* A publication keeps its promises whatever fails, crashes or interferes: a
\* directory is delivered once and never given up, what is reported as published
\* was delivered, and what it leaves is on record.
PublishIsSound == PublishTypeOK /\ DeliveredOnce /\ PublishedIsDelivered /\ OwnedIsRecorded

\* What in a directory at attempt n's path is not the attempt's own.
Foreign(dir, n) ==
    IF dir = NONE THEN {}
    ELSE {<<"file", f>> : f \in {g \in Files : dir.files[g] = "foreign"}}
           \cup (IF dir.extra THEN {<<"extra", 0>>} ELSE {})
           \cup (IF dir.owner # n THEN {<<"directory", 0>>} ELSE {})

\* No step of a publication, whatever failed or crashed before it, deletes or
\* replaces a file or a directory of somebody else's; at most the rename
\* moves such a file along with the directory it was put in.
ForeignIsKept ==
    [][<<record, pc, pos>>' # <<record, pc, pos>> =>
          \A n \in Attempts :
              /\ Foreign(temp[n], n) \subseteq Foreign(temp'[n], n) \cup Foreign(final'[n], n)
              /\ Foreign(final[n], n) \subseteq Foreign(final'[n], n)]_vars

\* A delivered directory that is left alone is reported as published in the
\* end, whichever failure or crash hid that the rename had succeeded.
Intact(n) == final[n] = [owner |-> n, files |-> [f \in Files |-> "whole"], extra |-> FALSE]
DeliveryIsReported ==
    \A n \in Attempts :
        n \in delivered /\ Intact(n) ~> record.state = "published" \/ ~Intact(n)

\* "Clean a proven pre-rename attempt so a later call may retry"
\* (_recover_before_rename): where only crashes happen, an interrupted attempt
\* of which nothing is left on disk is given up by the retry.
Abandoned(n) ==
    record.state = "publishing" /\ record.attempt.n = n /\ temp[n] = NONE /\ final[n] = NONE
CleanAttemptIsRetried == \A n \in Attempts : Abandoned(n) ~> ~Abandoned(n)
==============================================================================
