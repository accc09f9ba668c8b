----------------------------- MODULE ExportBundle -----------------------------
(***************************************************************************)
(* The life of an export intent between the host (src/src-tauri/src/       *)
(* export_bundle.rs, main.rs) and the engine (src/engine/export_bundle.py, *)
(* batch_previews.py): a journal record, preview files, rows that make the *)
(* task own them, and the tokens the host keeps in memory.  The host runs  *)
(* one operation at a time, each of several engine calls; a call may fail, *)
(* fail in the middle, or be carried out without an answer, and the host   *)
(* may end between any two steps.  What an intent contains and how it is   *)
(* published is in ExportScope and ExportPublish.                          *)
(***************************************************************************)
EXTENDS Integers, FiniteSets

CONSTANTS
    MaxIntents,  \* bound: intents made
    FilesOf,     \* how many previews an intent has
    MaxReceipts, \* MAX_RETAINED_RECEIPTS
    Capacity,    \* intents that are neither closed nor published
    NoRecord     \* no record of an intent, or none any more

ASSUME BundleAssumption ==
    /\ MaxIntents \in Nat
    /\ FilesOf \in [1..MaxIntents -> Nat \ {0}]
    /\ MaxReceipts \in Nat /\ Capacity \in Nat \ {0}

VARIABLES
    journal,    \* the record of each intent, numbered by creation
    previews,   \* the preview files there are
    owners,     \* batch_preview_owners
    tokens,     \* lifecycle.tokens: previews in use
    taskTokens, \* lifecycle.task_tokens: while there are any, no task is cleaned up
    shown,      \* what the user interface has: an open preview, one being closed
    host,       \* the operation the host is in
    intentsMade \* intents created so far

bundleVars == <<journal, previews, owners, tokens, taskTokens, shown, host, intentsMade>>

Intents == 1..MaxIntents
TokensOf(i) == {i} \X (1..FilesOf[i])
AllTokens == UNION {TokensOf(i) : i \in Intents}
HostIdle == [at |-> "idle"]
State(i) == IF journal[i] = NoRecord THEN NoRecord ELSE journal[i].state
Recorded == {i \in Intents : journal[i] # NoRecord}

BundleInit ==
    /\ journal = [i \in Intents |-> NoRecord]
    /\ previews = {} /\ owners = {}
    /\ tokens = {} /\ taskTokens = {}
    /\ shown = [i \in Intents |-> "no"]
    /\ host = HostIdle
    /\ intentsMade = 0

-----------------------------------------------------------------------------
(* Closing, as the engine does it for the host and when it reconciles. *)

Closed(i) ==
    [journal[i] EXCEPT !.full = FALSE,
                       !.state = IF @ = "published" THEN "published" ELSE "closed"]

\* Every preview is gone and the record is compact.
Closes(i) ==
    /\ State(i) \notin {NoRecord, "publishing"}
    /\ previews' = previews \ TokensOf(i)

\* A preview that cannot be deleted ends the call.
CloseStops(i) ==
    /\ State(i) \notin {NoRecord, "publishing"}
    /\ \E gone \in SUBSET (previews \cap TokensOf(i)) : previews' = previews \ gone
    /\ UNCHANGED journal

\* Removal of a record that was closed and left nothing behind.
\* Fault: files that a publication left with the user are not asked for.
MayBeRemovedMutant(record, rest) == record.state = "closed" /\ rest = {}

MayBeRemoved(record, rest) == record.state = "closed" /\ ~record.residual /\ rest = {}

-----------------------------------------------------------------------------
(* Creation and status begin with a reconciliation of older intents. *)

Start(op) ==
    /\ host = HostIdle
    /\ op = "create" => intentsMade < MaxIntents
    /\ host' = [at |-> "reconcile", op |-> op, todo |-> Recorded]
    /\ UNCHANGED <<journal, previews, owners, tokens, taskTokens, shown, intentsMade>>

InUse(i) == TokensOf(i) \cap tokens # {}

Reconcile(i) ==
    /\ host.at = "reconcile" /\ i \in host.todo
    /\ host' = [host EXCEPT !.todo = @ \ {i}]
    /\ \/ /\ State(i) = "publishing" \/ InUse(i)
          /\ UNCHANGED <<journal, previews, owners>>
       \/ /\ ~InUse(i)
          /\ CloseStops(i)
          /\ UNCHANGED owners
       \/ /\ ~InUse(i)
          /\ Closes(i)
          /\ \E released \in SUBSET TokensOf(i) :
               LET rest == (owners \cap TokensOf(i)) \ released
               IN /\ owners' = owners \ released
                  /\ journal' = [journal EXCEPT ![i] =
                       IF released = TokensOf(i) /\ MayBeRemoved(Closed(i), rest)
                       THEN NoRecord ELSE Closed(i)]
    /\ UNCHANGED <<tokens, taskTokens, shown, intentsMade>>

\* The status call: a publication that was interrupted may prove to be done.
Status ==
    /\ host.at = "reconcile" /\ host.op = "status" /\ host.todo = {}
    /\ \E done \in SUBSET {i \in Intents : State(i) = "publishing"} :
         journal' = [i \in Intents |-> IF i \in done THEN [journal[i] EXCEPT !.state = "published"]
                                                     ELSE journal[i]]
    /\ host' = HostIdle
    /\ UNCHANGED <<previews, owners, tokens, taskTokens, shown, intentsMade>>

-----------------------------------------------------------------------------
(* The create call. *)

Creating == host.at = "reconcile" /\ host.op = "create" /\ host.todo = {}
Droppable == {i \in Recorded : MayBeRemoved(journal[i], owners \cap TokensOf(i))}

DropClosed ==
    /\ Creating
    /\ \E i \in Droppable : journal' = [journal EXCEPT ![i] = NoRecord]
    /\ UNCHANGED <<previews, owners, tokens, taskTokens, shown, host, intentsMade>>

HasCapacity == Cardinality({i \in Recorded : State(i) \notin {"closed", "published"}}) < Capacity
Receipts == {i \in Recorded : State(i) = "published"}

\* _can_retire_published_receipt.

Retirable(i) ==
    /\ ~journal[i].full /\ ~journal[i].residual
    /\ TokensOf(i) \cap (owners \cup previews) = {}

Aged == {i \in Receipts : Retirable(i)}

\* The oldest first, while there are too many or they take too much space.
Retire ==
    /\ Creating /\ Droppable = {} /\ HasCapacity
    /\ \E i \in Aged :
         /\ \A j \in Aged : i <= j
         /\ journal' = [journal EXCEPT ![i] = NoRecord]
    /\ UNCHANGED <<previews, owners, tokens, taskTokens, shown, host, intentsMade>>

Refuse ==
    /\ Creating /\ Droppable = {} /\ ~HasCapacity
    /\ host' = HostIdle
    /\ UNCHANGED <<journal, previews, owners, tokens, taskTokens, shown, intentsMade>>

\* The record comes first; its answer may be lost.
NewIntent ==
    /\ Creating /\ Droppable = {} /\ HasCapacity
    /\ Cardinality(Receipts) > MaxReceipts => Aged = {}
    /\ intentsMade' = intentsMade + 1
    /\ journal' = [journal EXCEPT ![intentsMade'] =
                     [state |-> "created", full |-> TRUE, residual |-> FALSE]]
    /\ \/ host' = [at |-> "register", op |-> "create", intent |-> intentsMade',
                    todo |-> TokensOf(intentsMade')]
       \/ host' = HostIdle
    /\ UNCHANGED <<previews, owners, tokens, taskTokens, shown>>

HostGoto(at) == host' = [host EXCEPT !.at = at]

\* The host makes the task own each preview before there is one.
Register(t) ==
    /\ host.at = "register" /\ t \in host.todo
    /\ \/ /\ owners' = owners \cup {t}
          /\ taskTokens' = taskTokens \cup {t} /\ tokens' = tokens \cup {t}
          /\ host' = [host EXCEPT !.todo = @ \ {t}]
       \/ /\ owners' \in {owners, owners \cup {t}}
          /\ HostGoto("close")
          /\ UNCHANGED <<tokens, taskTokens>>
    /\ UNCHANGED <<journal, previews, shown, intentsMade>>

Render ==
    /\ host.at = "register" /\ host.todo = {}
    /\ LET i == host.intent
           rendered == [journal EXCEPT ![i].state = "rendered"]
       IN \/ /\ previews' = previews \cup TokensOf(i)
             /\ journal' = rendered
             /\ host' = HostIdle
             /\ shown' = [shown EXCEPT ![i] = "open"]
          \/ /\ previews' = previews \cup TokensOf(i)
             /\ journal' = rendered
             /\ HostGoto("close")
             /\ UNCHANGED shown
          \/ /\ \E some \in SUBSET TokensOf(i) : previews' = previews \cup some
             /\ HostGoto("close")
             /\ UNCHANGED <<journal, shown>>
    /\ UNCHANGED <<owners, tokens, taskTokens, intentsMade>>

\* After a failure the host closes the intent itself.
HostClose ==
    /\ host.at = "close"
    /\ LET i == host.intent
       IN \/ /\ CloseStops(i) /\ HostGoto("abandon")
          \/ /\ Closes(i)
             /\ journal' = [journal EXCEPT ![i] = Closed(i)]
             /\ \/ HostGoto("abandon")
                \/ host' = [host EXCEPT !.at = "release", !.todo = TokensOf(i)]
    /\ UNCHANGED <<owners, tokens, taskTokens, shown, intentsMade>>

\* release_absent_preview for one token, then the host's own sets.
ReleaseToken(t) ==
    /\ host.at = "release" /\ t \in host.todo
    /\ t \notin previews
    /\ owners' = owners \ {t}
    /\ tokens' = tokens \ {t} /\ taskTokens' = taskTokens \ {t}
    /\ host' = [host EXCEPT !.todo = @ \ {t}]
    /\ UNCHANGED <<journal, previews, shown, intentsMade>>

\* It fails, or its answer is lost; a close the user asked for ends there.
ReleaseFails(t) ==
    /\ host.at = "release" /\ t \in host.todo
    /\ owners' \in {owners, owners \ {t}}
    /\ host' = IF host.op = "create" THEN [host EXCEPT !.todo = @ \ {t}] ELSE HostIdle
    /\ UNCHANGED <<journal, previews, tokens, taskTokens, shown, intentsMade>>

\* The tokens of a failed creation are not in use any more.
Abandon ==
    /\ host.at = "abandon" \/ (host.at = "release" /\ host.op = "create" /\ host.todo = {})
    /\ tokens' = tokens \ TokensOf(host.intent)
    /\ host' = HostIdle
    /\ UNCHANGED <<journal, previews, owners, taskTokens, shown, intentsMade>>

-----------------------------------------------------------------------------
(* What the user does with an open preview. *)

ClientClose(i) ==
    /\ host = HostIdle /\ shown[i] # "no"
    /\ shown' = [shown EXCEPT ![i] = "closing"]
    /\ \/ /\ State(i) = "publishing"
          /\ UNCHANGED <<journal, previews, host>>
       \/ /\ CloseStops(i)
          /\ UNCHANGED host
       \/ /\ Closes(i)
          /\ journal' = [journal EXCEPT ![i] = Closed(i)]
          /\ \/ host' = [at |-> "release", op |-> "close", intent |-> i, todo |-> TokensOf(i)]
             \/ UNCHANGED host
    /\ UNCHANGED <<owners, tokens, taskTokens, intentsMade>>

EndClose ==
    /\ host.at = "release" /\ host.op = "close" /\ host.todo = {}
    /\ shown' = [shown EXCEPT ![host.intent] = "no"]
    /\ host' = HostIdle
    /\ UNCHANGED <<journal, previews, owners, tokens, taskTokens, intentsMade>>

\* Publication, of which only what it leaves in the record matters here.
PublishIntent(i) ==
    /\ host = HostIdle /\ shown[i] = "open"
    /\ State(i) \in {"rendered", "publishing"}
    /\ \E state \in {"rendered", "publishing", "published"}, residual \in BOOLEAN :
         /\ journal[i].residual => residual
         /\ journal' = [journal EXCEPT ![i].state = state, ![i].residual = residual]
    /\ UNCHANGED <<previews, owners, tokens, taskTokens, shown, host, intentsMade>>

\* Cleanup of the task that owns previews; refused while a preview is in use.
CleanupTask ==
    /\ host = HostIdle /\ taskTokens = {} /\ owners # {}
    /\ \E gone \in SUBSET owners :
         owners' = owners \ gone /\ previews' = previews \ gone
    /\ UNCHANGED <<journal, tokens, taskTokens, shown, host, intentsMade>>

\* A call that never answers: the operation ends where it is.
HostError ==
    /\ host.at = "reconcile"
    /\ host' = HostIdle
    /\ UNCHANGED <<journal, previews, owners, tokens, taskTokens, shown, intentsMade>>

\* The host ends and starts; both sweep the preview directory.
Restart ==
    /\ previews' \in SUBSET previews
    /\ tokens' = {} /\ taskTokens' = {}
    /\ shown' = [i \in Intents |-> "no"]
    /\ host' = HostIdle
    /\ UNCHANGED <<journal, owners, intentsMade>>

BundleNext ==
    \/ \E op \in {"create", "status"} : Start(op)
    \/ \E i \in Intents : Reconcile(i) \/ ClientClose(i) \/ PublishIntent(i)
    \/ Status \/ DropClosed \/ Retire \/ Refuse \/ NewIntent \/ Render
    \/ \E t \in AllTokens : Register(t) \/ ReleaseToken(t) \/ ReleaseFails(t)
    \/ HostClose \/ Abandon \/ EndClose \/ CleanupTask \/ HostError \/ Restart

BundleSpec == BundleInit /\ [][BundleNext]_bundleVars

-----------------------------------------------------------------------------
States == {"created", "rendered", "publishing", "published", "closed"}
Records == [state : States, full : BOOLEAN, residual : BOOLEAN]

ASSUME NoRecordAssumption == NoRecord \notin Records \cup States

\* What the host is in the middle of.
HostSteps ==
    {HostIdle}
    \cup [at : {"reconcile"}, op : {"create", "status"}, todo : SUBSET Intents]
    \cup [at : {"register", "close", "abandon"}, op : {"create"}, intent : Intents,
          todo : SUBSET AllTokens]
    \cup [at : {"release"}, op : {"create", "close"}, intent : Intents,
          todo : SUBSET AllTokens]

\* Records, rows and tokens have their types, a full record is one that is not
\* closed, and no more intents are open than there is room for.
BundleTypeOK ==
    /\ journal \in [Intents -> Records \cup {NoRecord}]
    /\ previews \subseteq AllTokens /\ owners \subseteq AllTokens
    /\ tokens \subseteq taskTokens /\ taskTokens \subseteq AllTokens
    /\ shown \in [Intents -> {"no", "open", "closing"}]
    /\ host \in HostSteps
    /\ intentsMade \in 0..MaxIntents
    /\ \A i \in Recorded :
         /\ i <= intentsMade
         /\ journal[i].state \in {"created", "rendered", "publishing"} => journal[i].full
         /\ journal[i].state = "closed" => ~journal[i].full
    /\ Cardinality({i \in Recorded : State(i) \notin {"closed", "published"}}) <= Capacity

\* Nothing is forgotten: every preview file and every row that owns one
\* belongs to an intent that still has a record, through failures, lost
\* answers and restarts.
NothingForgotten == \A t \in previews \cup owners : t[1] \in Recorded

\* While the user looks at a preview, neither a reconciliation nor another
\* request nor a cleanup of tasks touches its files or closes it.
ShownStays ==
    \A i \in Intents : shown[i] = "open" /\ shown'[i] = "open" =>
         /\ previews' \cap TokensOf(i) = TokensOf(i)
         /\ journal'[i] # NoRecord
         /\ journal'[i].state \in {"rendered", "publishing", "published"}

\* A record goes only when nothing depends on it: no attempt that may have left
\* files with the user, no preview, no row, no publication to be recovered.
EvidenceKept ==
    \A i \in Recorded : journal'[i] = NoRecord =>
         /\ State(i) # "publishing" /\ ~journal[i].residual
         /\ TokensOf(i) \cap (previews' \cup owners') = {}

\* Every preview file and every row that owns one belongs to an intent with a
\* record; what the user looks at stays until it is closed, and the record of an
\* intent goes only when no file, row or unfinished publication depends on it.
BundlesKept ==
    /\ [](BundleTypeOK /\ NothingForgotten)
    /\ [][ShownStays /\ EvidenceKept]_bundleVars

\* "Close the preview first" is told only while there is one: what blocks the
\* cleanup of tasks is shown to the user, or is a file or a row.
BlockedMeansPreview ==
    host = HostIdle => \A t \in taskTokens : shown[t[1]] # "no" \/ t \in previews \cup owners
=============================================================================
