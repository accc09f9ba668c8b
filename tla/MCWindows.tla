----------------------------- MODULE MCWindows ------------------------------
(***************************************************************************)
(* Small instances of the modules about what a window of the application   *)
(* keeps: the jobs it shows (BatchControl) and the review it edits         *)
(* (ReviewSession).                                                        *)
(*                                                                         *)
(* They share nothing, so one run checks them side by side: `part' is      *)
(* fixed in the initial state and says which of them a behaviour is about; *)
(* the other rests in its initial state.                                   *)
(***************************************************************************)
EXTENDS BatchControl, ReviewSession, TLC

CONSTANTS j1, j2, s1, s2, proposed, other

VARIABLE part  \* what a behaviour is about

allVars == <<controlVars, sessionVars, part>>

\* Bound of the model: either the review is analysed twice, with few
\* operations, ...
Reanalysed == count.operations <= 2

\* ... or there is a long series of edits and undos of one segment in one
\* analysis, of a source that does not change, in which nothing fails.
LongSeries ==
    /\ \E s \in Segments : \A r \in Segments \ {s} :
         store[r] = << >> /\ \A t \in UnderWay : r \notin DOMAIN t.change
    /\ bound + Len(SelectSeq(queue, LAMBDA t : t.kind = "prepare")) <= 1
    /\ ui.sources = 0 /\ count.errors = 0

AllInit == ControlInit /\ SessionInit /\ part \in {"jobs", "session", "undo"}

AllNext ==
    /\ UNCHANGED part
    /\ \/ /\ part = "jobs" /\ ControlNext
          /\ UNCHANGED sessionVars
       \/ /\ part = "session" /\ SessionNext /\ Reanalysed'
          /\ UNCHANGED controlVars
       \/ /\ part = "undo" /\ SessionNext /\ LongSeries'
          /\ UNCHANGED controlVars

AllSpec == AllInit /\ [][AllNext]_allVars

Symmetry == Permutations({j1, j2}) \cup Permutations({s1, s2})
=============================================================================
