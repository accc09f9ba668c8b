---------------------------- MODULE GroupingDraft ----------------------------
(***************************************************************************)
(* The draft of a grouping for checking (publish_grouping_draft in           *)
(* engine/receipt_grouping_draft.py): a workbook written from a view of two  *)
(* databases, without their locks, into a hidden directory, and made         *)
(* visible by a rename under both locks once the view is seen to be current. *)
(* There is no journal: a failure names what remains and removes nothing.    *)
(*                                                                          *)
(* Others write in the databases whenever nobody holds them, replace the     *)
(* original, and meddle with the directories of the draft at any time.       *)
(***************************************************************************)
EXTENDS Integers

CONSTANTS MaxWrites, MaxMeddles   \* bounds of the model

VARIABLES
    batch,       \* version of the job: its sources, paths and results
    review,      \* version of the grouping and of the decisions under it
    original,    \* whether the originals still have their identity
    stage,       \* how far the request is
    want,        \* the version of the grouping the user asked for
    authority,   \* the job's version as read before its lock is taken
    frozen,      \* both versions of the first look, which the workbook holds
    place,       \* where the draft's directory is: "none", "tmp", "final", "away"
    intact,      \* whether its content is what was registered
    aliens,      \* places taken by somebody else's directory
    residuals,   \* the places a failed request names
    writes,
    meddles

vars == <<batch, review, original, stage, want, authority, frozen, place,
          intact, aliens, residuals, writes, meddles>>

files == <<place, intact, aliens>>
None == 0
Places == {"tmp", "final"}
Working == {"asked", "opened", "frozen", "writing", "written", "reopened", "reheld", "renamed"}

\* Both databases are locked from the second look to the acknowledgement; the
\* first look is one moment of its own.
Held == stage \in {"reheld", "renamed"}

Init ==
    /\ batch = 1 /\ review = 1 /\ original = TRUE
    /\ stage = "idle" /\ want = None /\ authority = None /\ frozen = <<None, None>>
    /\ place = "none" /\ intact = TRUE /\ aliens = {} /\ residuals = {}
    /\ writes = 0 /\ meddles = 0

Created == place # "none"
Present == aliens \cup ({place} \cap Places)

\* What an error names: the paths there are, or else the one it began with.
Left == IF ~Created THEN {} ELSE IF Present = {} THEN {"tmp"} ELSE Present

Fail ==
    /\ stage' = "failed" /\ residuals' = Left
    /\ UNCHANGED <<batch, review, original, want, authority, frozen, place, intact, aliens, writes, meddles>>

To(next) == stage' = next /\ UNCHANGED <<batch, review, original, want, residuals, writes, meddles>>

-----------------------------------------------------------------------------
(***************************************************************************)
(* _hold_draft, first half: the job as published, and the originals checked  *)
(* before any lock is taken.                                                *)
(***************************************************************************)
Open(from, next) ==
    /\ stage = from /\ original
    /\ authority' = batch
    /\ To(next)
    /\ UNCHANGED <<files, frozen>>

Ask ==
    /\ stage = "idle"
    /\ stage' = "asked" /\ want' = review
    /\ UNCHANGED <<batch, review, original, authority, frozen, files, residuals, writes, meddles>>

\* Second half, under the locks: the job read before is still the job, and
\* the grouping the one asked for.
Agrees == batch = authority /\ review = want

Freeze ==
    /\ stage = "opened" /\ Agrees
    /\ frozen' = <<batch, review>>
    /\ To("frozen")
    /\ UNCHANGED <<files, authority>>

MakeDirectory ==
    /\ stage = "frozen" /\ "tmp" \notin aliens
    /\ place' = "tmp"
    /\ To("writing")
    /\ UNCHANGED <<intact, aliens, authority, frozen>>

\* The workbook is written, synchronised and registered by its content.
WriteDraft ==
    /\ stage = "writing" /\ place = "tmp"
    /\ To("written")
    /\ UNCHANGED <<files, authority, frozen>>

\* Fault: the digest of the first look is not compared.
UnchangedMutant == Agrees

\* The second look must find what the first one froze.
UnchangedSince == Agrees /\ frozen = <<batch, review>>

HoldAgain ==
    /\ stage = "reopened" /\ UnchangedSince
    /\ To("reheld")
    /\ UNCHANGED <<files, authority, frozen>>

Free(where) == where \notin aliens

\* The hidden directory is verified and renamed; a taken name is refused.
Rename ==
    /\ stage = "reheld" /\ place = "tmp" /\ intact /\ Free("final")
    /\ place' = "final" /\ aliens' = aliens \ {"final"}
    /\ To("renamed")
    /\ UNCHANGED <<intact, authority, frozen>>

Verified == place = "final" /\ intact

\* The renamed directory is verified once more before the answer.
Acknowledge ==
    /\ stage = "renamed" /\ Verified
    /\ To("published")
    /\ UNCHANGED <<files, authority, frozen>>

\* Any step of files or databases may fail, and a check that does not hold does.
StepFails == stage \in Working /\ Fail

\* The process ends: nobody looks for the hidden directory afterwards.
Crash ==
    /\ stage \in Working
    /\ To("ended")
    /\ UNCHANGED <<files, authority, frozen>>

-----------------------------------------------------------------------------
(***************************************************************************)
(* The others.                                                              *)
(***************************************************************************)
WriteBatch ==
    /\ ~Held /\ writes < MaxWrites
    /\ batch' = batch + 1 /\ writes' = writes + 1
    /\ UNCHANGED <<review, original, stage, want, authority, frozen, files, residuals, meddles>>

WriteReview ==
    /\ ~Held /\ writes < MaxWrites
    /\ review' = review + 1 /\ writes' = writes + 1
    /\ UNCHANGED <<batch, original, stage, want, authority, frozen, files, residuals, meddles>>

ReplaceOriginal ==
    /\ original' = ~original /\ meddles < MaxMeddles /\ meddles' = meddles + 1
    /\ UNCHANGED <<batch, review, stage, want, authority, frozen, files, residuals, writes>>

\* A file of the draft is changed or joined by another one.
ChangeFiles ==
    /\ place \in Places /\ meddles < MaxMeddles
    /\ intact' = FALSE /\ meddles' = meddles + 1
    /\ UNCHANGED <<batch, review, original, stage, want, authority, frozen, place, aliens, residuals, writes>>

\* The draft is moved away, and another directory may take its name or the
\* final one.
MoveAway ==
    /\ place \in Places /\ meddles < MaxMeddles
    /\ place' = "away" /\ meddles' = meddles + 1
    /\ UNCHANGED <<batch, review, original, stage, want, authority, frozen, intact, aliens, residuals, writes>>

Occupy(where) ==
    /\ where \notin Present /\ meddles < MaxMeddles
    /\ aliens' = aliens \cup {where} /\ meddles' = meddles + 1
    /\ UNCHANGED <<batch, review, original, stage, want, authority, frozen, place, intact, residuals, writes>>

Next ==
    \/ Ask \/ Open("asked", "opened") \/ Freeze \/ MakeDirectory \/ WriteDraft
    \/ Open("written", "reopened") \/ HoldAgain \/ Rename \/ Acknowledge \/ StepFails \/ Crash
    \/ WriteBatch \/ WriteReview \/ ReplaceOriginal \/ ChangeFiles \/ MoveAway
    \/ \E where \in Places : Occupy(where)

Spec == Init /\ [][Next]_vars

-----------------------------------------------------------------------------
\* Types: a request that created nothing names nothing.
DraftTypeOK ==
    /\ batch \in 1..(MaxWrites + 1) /\ review \in 1..(MaxWrites + 1)
    /\ stage \in Working \cup {"idle", "published", "failed", "ended"}
    /\ want \in 0..review /\ authority \in 0..batch
    /\ place \in Places \cup {"none", "away"} /\ intact \in BOOLEAN
    /\ aliens \subseteq Places /\ residuals \subseteq Places
    /\ residuals # {} => stage = "failed" /\ Created

Ends(outcome) == stage # outcome /\ stage' = outcome

(***************************************************************************)
(* A draft that is reported as published shows one moment of both databases, *)
(* the one the user asked for, and that moment still is when the request     *)
(* ends, though it was written while others could save.                      *)
(***************************************************************************)
PublishedIsCurrent ==
    Ends("published") => frozen = <<batch, review>> /\ want = review

\* What is reported as published is the directory made by this request with
\* the content it registered, even if somebody wrote into it during the rename.
PublishedIsWhole == Ends("published") => place = "final" /\ intact

\* No directory of somebody else gives way to a draft.
OthersKept == aliens \subseteq aliens'

(***************************************************************************)
(* A failure names the place where the draft's directory is, before or after *)
(* the rename, so that no copy of a client's data remains unmentioned.       *)
(***************************************************************************)
FailureNamesRemains == Ends("failed") /\ place \in Places => place \in residuals'

=============================================================================
