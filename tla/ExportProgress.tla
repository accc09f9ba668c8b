--------------------------- MODULE ExportProgress ---------------------------
(***************************************************************************)
(* The progress of one export, from the reporter in the engine               *)
(* (ExportProgressReporter in engine/export_progress.py) to the reader in    *)
(* the host (read_response in src-tauri/src/export_progress.rs), which gives *)
(* the whole export up over one frame too many or one that is not valid.     *)
(*                                                                          *)
(* The export calls with any stage, count and urgency, in any order; the     *)
(* pipe may break at any time.                                              *)
(***************************************************************************)
EXTENDS Integers

CONSTANTS
    Stages,       \* EXPORT_PROGRESS_STAGES, with "finalizing"
    MaxTotal,     \* EXPORT_PROGRESS_MAX_TOTAL, the host's limit as well
    MaxFrames,    \* EXPORT_PROGRESS_MAX_FRAMES, the host's limit as well
    Totals        \* the totals the export may report

ASSUME ProgressAssumption ==
    /\ "finalizing" \in Stages /\ MaxFrames \in Nat \ {0}
    /\ MaxTotal \in Nat /\ Totals \subseteq Nat

VARIABLES
    last_stage,
    emitted,      \* _emitted_frames
    disabled,     \* the reporter has met a broken pipe
    broken,       \* the pipe is broken
    final,        \* whether the export has come to its last, urgent report
    received,     \* frames the host has counted
    stageShown,        \* the stage the window shows
    reader        \* "reading", "response", or "rejected"

progressVars == <<last_stage, emitted, disabled, broken, final, received, stageShown, reader>>

Never == -1
NoStage == "none"
Unknown == [completed |-> Never, total |-> Never]   \* three nulls

ProgressInit ==
    /\ last_stage = NoStage
    /\ emitted = 0 /\ disabled = FALSE /\ broken = FALSE /\ final = FALSE
    /\ received = 0 /\ stageShown = NoStage /\ reader = "reading"

\* _frame: counts beyond the host's contract become unknown ones.
Counts(completed, total) ==
    IF total >= 1 /\ total <= MaxTotal /\ completed <= total
    THEN [completed |-> completed, total |-> total] ELSE Unknown

\* A frame of the same stage may come within the interval after the last one;
\* time itself is left out.
MayBeSoon(stage, force) == ~force /\ stage = last_stage

\* Fault: no frame is kept back for the end.
SpentMutant(stage, force) == emitted >= MaxFrames

\* One frame is kept for the urgent report of the last stage.
Spent(stage, force) ==
    \/ emitted >= MaxFrames
    \/ emitted >= MaxFrames - 1 /\ ~(stage = "finalizing" /\ force)

\* valid_progress in the host.
Valid(counts) ==
    counts = Unknown \/ (counts.total \in 1..MaxTotal /\ counts.completed \in 0..counts.total)

Quiet == UNCHANGED <<last_stage, emitted, received, stageShown, reader>>

\* The host counts a frame before it looks at it.
Receive(stage, counts) ==
    /\ received' = received + 1
    /\ IF received' > MaxFrames \/ ~Valid(counts)
       THEN reader' = "rejected" /\ UNCHANGED stageShown
       ELSE stageShown' = stage /\ UNCHANGED reader

Report(stage, completed, total, force) ==
    /\ reader = "reading"
    /\ final' = (final \/ (stage = "finalizing" /\ force))
    /\ \/ /\ disabled \/ MayBeSoon(stage, force) \/ Spent(stage, force)
          /\ Quiet /\ UNCHANGED disabled
       \/ /\ ~disabled /\ ~Spent(stage, force)
          /\ IF broken
             THEN Quiet /\ disabled' = TRUE
             ELSE /\ last_stage' = stage /\ emitted' = emitted + 1
                  /\ Receive(stage, Counts(completed, total))
                  /\ UNCHANGED disabled
    /\ UNCHANGED broken

\* The export reports its end once, at the last (export_api.py:113).
Reports ==
    \E stage \in Stages, completed \in Totals \cup {0}, total \in Totals, force \in BOOLEAN :
        ~final /\ Report(stage, completed, total, force)

\* The answer is the last line of the engine, and goes through unless the
\* pipe is gone.
Respond ==
    /\ reader = "reading" /\ final
    /\ reader' = IF broken THEN "rejected" ELSE "response"
    /\ UNCHANGED <<last_stage, emitted, disabled, broken, final, received, stageShown>>

Break ==
    /\ ~broken /\ broken' = TRUE
    /\ UNCHANGED <<last_stage, emitted, disabled, final, received, stageShown, reader>>

ProgressNext == Reports \/ Respond \/ Break

ProgressSpec == ProgressInit /\ [][ProgressNext]_progressVars

-----------------------------------------------------------------------------
\* Types: the reporter counts as the host does.
ProgressTypeOK ==
    /\ last_stage \in Stages \cup {NoStage} /\ stageShown \in Stages \cup {NoStage}
    /\ emitted \in 0..MaxFrames /\ received = emitted
    /\ disabled \in BOOLEAN /\ broken \in BOOLEAN /\ final \in BOOLEAN
    /\ disabled => broken
    /\ reader \in {"reading", "response", "rejected"}

(***************************************************************************)
(* Progress is advisory: however long the export and whatever its counts,    *)
(* the host never rejects it over its progress while the pipe is whole.      *)
(***************************************************************************)
NeverOverProgress == reader = "rejected" => broken

\* The last stage reaches the window, however many frames were sent before.
EndIsShown == reader = "response" => stageShown = "finalizing"

\* The host never gives an export up over its progress while the pipe is whole,
\* and the last stage reaches the window however many frames were sent before.
ProgressIsAdvisory == ProgressTypeOK /\ NeverOverProgress /\ EndIsShown
=============================================================================
