----------------------------- MODULE MCExports ------------------------------
(***************************************************************************)
(* Small instances of the modules about exported files and export intents: *)
(* the durable record of an intent (ExportJournal), who owns an exported   *)
(* file (ExportOwnership), the life of an intent and its previews          *)
(* (ExportBundle), and the progress of a running export (ExportProgress).  *)
(*                                                                         *)
(* They share nothing, so one run checks them side by side: `part' is      *)
(* fixed in the initial state and says which of them a behaviour is about; *)
(* the others rest in their initial states.                                *)
(***************************************************************************)
EXTENDS ExportJournal, ExportOwnership, ExportBundle, ExportProgress, TLC

CONSTANTS
    t1, t2, q1, q2, p1, p2, d1, d2

VARIABLE part  \* what a behaviour is about

allVars == <<vars, ownershipVars, bundleVars, progressVars, part>>

\* The first intent has two previews, the others have one.
MCFilesOf == <<2, 1, 1>>

\* Bound of the model: either the requests are about one path under one token
\* and the source is left alone, ...
Races ==
    /\ \E t \in Tokens, q \in Paths :
         /\ \A p \in Procs : proc[p] # Idle =>
              proc[p].token = t /\ proc[p].path = q /\ proc[p].want = source
         /\ \A r \in Paths \ {q} : disk[r] = Absent /\ manifest[t][r] = Absent
         /\ \A u \in Tokens \ {t} :
              u \notin stale /\ \A r \in Paths : manifest[u][r] = Absent

\* ... or there is one request at a time, and the user does nothing.
Previews ==
    /\ \E p \in Procs : \A o \in Procs \ {p} : proc[o] = Idle
    /\ filesMade <= 2 /\ edits = 0

\* The files and tokens of the first intent are gone when there is a third one.
Bundles == intentsMade = 3 => TokensOf(1) \cap (previews \cup tokens) = {}

AllInit ==
    /\ Init /\ OwnershipInit /\ BundleInit /\ ProgressInit
    /\ part \in {"journal", "race", "preview", "bundle", "progress"}

AllNext ==
    /\ UNCHANGED part
    /\ \/ /\ part = "journal" /\ Next
          /\ UNCHANGED <<ownershipVars, bundleVars, progressVars>>
       \/ /\ part = "race" /\ OwnershipNext /\ Races'
          /\ UNCHANGED <<vars, bundleVars, progressVars>>
       \/ /\ part = "preview" /\ OwnershipNext /\ Previews'
          /\ UNCHANGED <<vars, bundleVars, progressVars>>
       \/ /\ part = "bundle" /\ BundleNext /\ Bundles'
          /\ UNCHANGED <<vars, ownershipVars, progressVars>>
       \/ /\ part = "progress" /\ ProgressNext
          /\ UNCHANGED <<vars, ownershipVars, bundleVars>>

AllSpec == AllInit /\ [][AllNext]_allVars

Symmetry ==
    Permutations({t1, t2}) \cup Permutations({q1, q2})
        \cup Permutations({p1, p2}) \cup Permutations({d1, d2})
=============================================================================
