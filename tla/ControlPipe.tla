----------------------------- MODULE ControlPipe -----------------------------
(***************************************************************************)
(* The control pipe of a worker (src/engine/batch_pipe.py, the control     *)
(* thread of batch_worker.py): lines arrive in pieces of any size, are put *)
(* together in a bounded buffer, and each is one command for the job.  A   *)
(* stop may be asked for at any moment, also in the middle of a line.      *)
(*                                                                         *)
(* A byte is "x", or the newline that ends a line: "go" when the line is a *)
(* command for this job and generation, "no" when it is anything else.     *)
(***************************************************************************)
EXTENDS Integers, SequencesExt

CONSTANTS
    MaxFrame, \* MAX_FRAME_BYTES
    Chunk,    \* _READ_CHUNK_BYTES
    MaxBytes  \* bound: bytes the other side writes

PipeAssumption == MaxFrame \in Nat \ {0} /\ Chunk \in Nat \ {0} /\ MaxBytes \in Nat

VARIABLES
    written, \* history: all the bytes written
    read,    \* how many of them were read
    open,    \* has the other side its end open
    buffer,  \* read and not yet part of a frame
    stop,    \* the event
    turn,    \* the reader's turn: "check" the event, then "act"
    late,    \* history: commands carried out after the stop
    applied, \* the commands carried out, by their length
    result   \* how the reading ended: "reads", "ended", "failed", "stopped"

vars == <<written, read, open, buffer, stop, turn, late, applied, result>>

Newlines == {"go", "no"}

Init ==
    /\ written = <<>> /\ read = 0 /\ open = TRUE
    /\ buffer = <<>> /\ stop = FALSE /\ turn = "check" /\ late = 0
    /\ applied = <<>> /\ result = "reads"

-----------------------------------------------------------------------------
(* The other side. *)

WriteByte ==
    /\ open /\ Len(written) < MaxBytes
    /\ \E byte \in {"x"} \cup Newlines : written' = Append(written, byte)
    /\ UNCHANGED <<read, open, buffer, stop, turn, late, applied, result>>

ClosePipe ==
    /\ open
    /\ open' = FALSE
    /\ UNCHANGED <<written, read, buffer, stop, turn, late, applied, result>>

AskToStop ==
    /\ ~stop
    /\ stop' = TRUE
    /\ UNCHANGED <<written, read, open, buffer, turn, late, applied, result>>

-----------------------------------------------------------------------------
(* The reader. *)

HasLine == \E i \in DOMAIN buffer : buffer[i] \in Newlines
FirstLine == SelectInSeq(buffer, LAMBDA b : b \in Newlines)

StopSeen == stop

\* A stop wins over all that was read before.
Check ==
    /\ result = "reads" /\ turn = "check"
    /\ IF StopSeen THEN result' = "stopped" /\ UNCHANGED turn
                   ELSE turn' = "act" /\ UNCHANGED result
    /\ UNCHANGED <<written, read, open, buffer, stop, late, applied>>

Acts == result = "reads" /\ turn = "act" /\ turn' = "check"

\* An error after the stop is nobody's concern.
Broken == IF stop THEN "stopped" ELSE "failed"

After(bytes, n) == SubSeq(bytes, n + 1, Len(bytes))

\* _next_frame, _decode_frame and validate_control; then the command itself.
TakeFrame ==
    /\ Acts /\ HasLine
    /\ buffer' = After(buffer, FirstLine)
    /\ IF FirstLine <= MaxFrame /\ buffer[FirstLine] = "go"
         THEN /\ applied' = Append(applied, FirstLine)
              /\ late' = IF stop THEN late + 1 ELSE late
              /\ UNCHANGED result
         ELSE /\ result' = Broken
              /\ UNCHANGED <<applied, late>>
    /\ UNCHANGED <<written, read, open, stop>>

TooLong(bytes) == Len(bytes) >= MaxFrame

GiveUp ==
    /\ Acts /\ ~HasLine /\ TooLong(buffer)
    /\ result' = Broken
    /\ UNCHANGED <<written, read, open, buffer, stop, late, applied>>

\* How much is read at once.
AtMost(bytes) == IF Chunk < MaxFrame - Len(bytes) THEN Chunk ELSE MaxFrame - Len(bytes)

Reads == Acts /\ ~HasLine /\ ~TooLong(buffer)

\* The system gives any part of what there is.
ReadSome ==
    /\ Reads
    /\ \E n \in 1..AtMost(buffer) :
         /\ read + n <= Len(written)
         /\ buffer' = buffer \o SubSeq(written, read + 1, read + n)
         /\ read' = read + n
    /\ UNCHANGED <<written, open, stop, late, applied, result>>

\* The short poll ends without bytes.
Poll ==
    /\ Reads
    /\ UNCHANGED <<written, read, open, buffer, stop, late, applied, result>>

ReadEnd ==
    /\ Reads
    /\ ~open /\ read = Len(written)
    /\ result' = IF stop THEN "stopped" ELSE IF buffer = <<>> THEN "ended" ELSE "failed"
    /\ UNCHANGED <<written, read, open, buffer, stop, late, applied>>

Reader == Check \/ TakeFrame \/ GiveUp \/ ReadSome \/ Poll \/ ReadEnd

Next == WriteByte \/ ClosePipe \/ AskToStop \/ Reader

Spec == Init /\ [][Next]_vars

\* The thread runs; nothing is assumed of the other side.
FairSpec == Spec /\ WF_vars(Reader)

-----------------------------------------------------------------------------
(* What was written, as lines. *)

EndOf(n) ==
    LET ends == {i \in DOMAIN written : written[i] \in Newlines /\
                   Cardinality({j \in 1..i : written[j] \in Newlines}) = n}
    IN IF ends = {} THEN 0 ELSE CHOOSE i \in ends : TRUE
LineLength(n) == EndOf(n) - (IF n = 1 THEN 0 ELSE EndOf(n - 1))
Lines == Cardinality({i \in DOMAIN written : written[i] \in Newlines})
Good(n) == written[EndOf(n)] = "go" /\ LineLength(n) <= MaxFrame
Rest == Len(written) - (IF Lines = 0 THEN 0 ELSE EndOf(Lines))

\* The buffer is the bytes between the last frame and what was read, and never
\* longer than a frame.
PipeTypeOK ==
    /\ read \in 0..Len(written)
    /\ Len(buffer) <= MaxFrame
    /\ buffer = SubSeq(written, read - Len(buffer) + 1, read)
    /\ result \in {"reads", "ended", "failed", "stopped"}

\* The commands carried out are the first lines written, in order and each
\* whole, however the bytes arrived.
AppliedAsWritten ==
    /\ Len(applied) <= Lines
    /\ \A n \in DOMAIN applied : Good(n) /\ applied[n] = LineLength(n)

\* The pipe is called broken only if the other side broke it: the next line is
\* not a command for this job, is too long, or was never ended.  It is called
\* closed only when nothing was lost.
BrokenForAReason ==
    LET next == Len(applied) + 1
    IN /\ result = "failed" =>
            IF next <= Lines THEN ~Good(next) ELSE Rest >= MaxFrame \/ (~open /\ Rest > 0)
       /\ result = "ended" => Len(applied) = Lines /\ Rest = 0

\* After a stop at most the command already looked at is carried out.
AtMostOneLate == late <= 1

\* A stop is obeyed whether or not the other side ever writes again: the reading
\* ends.
Stopping == stop /\ result = "reads"
StopIsObeyed == Stopping ~> ~Stopping
=============================================================================
