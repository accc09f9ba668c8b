----------------------------- MODULE PrivateTemp -----------------------------
(***************************************************************************)
(* The private temporary directories of the engine's processes              *)
(* (engine/private_temp.py).  A process gives each use a directory named     *)
(* after its process number and removes it at the end; whoever enters next   *)
(* removes what dead processes left behind.  Process numbers are used again, *)
(* and nothing is locked between the look at a number and the removal.       *)
(***************************************************************************)
EXTENDS Integers, FiniteSets

CONSTANTS
    Pids,        \* process numbers
    Jobs,        \* directory names; mkdtemp never gives one out twice
    Others,      \* how many other directories the private root holds
    ScanLimit,   \* MAX_ABANDONED_JOB_SCAN
    MaxFailures  \* bound on removals that fail, by a file still open

TempAssumption == Others \in Nat /\ ScanLimit \in Nat

VARIABLES
    running,     \* the numbers of the processes alive
    dirs,        \* the number in each directory's name, while it exists
    uses,        \* the directories in use by each process, nested ones together
    cleaning,    \* of each process: "no", or its progress through the cleanup
    used,        \* names given out
    failures

vars == <<running, dirs, uses, cleaning, used, failures>>

Free == [free |-> TRUE]
No == [at |-> "no"]

Init ==
    /\ running = {}
    /\ dirs = [j \in Jobs |-> Free]
    /\ uses = [p \in Pids |-> {}]
    /\ cleaning = [p \in Pids |-> No]
    /\ used = {}
    /\ failures = 0

Existing == {j \in Jobs : dirs[j] # Free}
OwnedBy(P) == {j \in Existing : dirs[j] \in P}
Become(p, c) == cleaning' = [cleaning EXCEPT ![p] = c]
Smaller(a, b) == IF a < b THEN a ELSE b

Start(p) ==
    /\ p \notin running
    /\ running' = running \cup {p}
    \* What is due to a cleanup no longer is once the number is taken again.
    /\ cleaning' = [q \in Pids |->
                      IF cleaning[q] = No THEN No
                      ELSE [cleaning[q] EXCEPT !.due = @ \ OwnedBy({p})]]
    /\ UNCHANGED <<dirs, uses, used, failures>>

(***************************************************************************)
(* The process ends without leaving its blocks.                             *)
(***************************************************************************)
End(p) ==
    /\ p \in running
    /\ running' = running \ {p}
    /\ uses' = [uses EXCEPT ![p] = {}]
    /\ Become(p, No)
    /\ UNCHANGED <<dirs, used, failures>>

-----------------------------------------------------------------------------
(***************************************************************************)
(* private_temporary_directory: the cleanup, entry by entry.  The listing   *)
(* is cut at a limit, in the order of the file system.                      *)
(***************************************************************************)

Listing(E, n) ==
    {S \in SUBSET E : Cardinality(S) >= Smaller(n, ScanLimit) - Others
                      /\ Cardinality(S) <= ScanLimit}

Enter(p) ==
    /\ p \in running /\ cleaning[p] = No /\ used # Jobs
    /\ LET n == Cardinality(Existing) + Others IN
       \E listed \in Listing(Existing, n) :
          Become(p, [at |-> "looking", left |-> listed,
                     due |-> IF n <= ScanLimit THEN OwnedBy(Pids \ running) ELSE {}])
    /\ UNCHANGED <<running, dirs, uses, used, failures>>

\* The number in the name decides; the entry may be gone by now.
Look(p) ==
    /\ cleaning[p].at = "looking"
    /\ \E j \in cleaning[p].left :
         Become(p, IF j \in OwnedBy(Pids \ running)
                   THEN [at |-> "removing", job |-> j,
                         left |-> cleaning[p].left \ {j}, due |-> cleaning[p].due]
                   ELSE [cleaning[p] EXCEPT !.left = @ \ {j}])
    /\ UNCHANGED <<running, dirs, uses, used, failures>>

\* _remove_private_job: a failure is passed over, a later cleanup tries again.
Remove(p) ==
    /\ cleaning[p].at = "removing"
    /\ LET looking == [at |-> "looking", left |-> cleaning[p].left, due |-> cleaning[p].due]
           j == cleaning[p].job
       IN \/ /\ dirs' = [dirs EXCEPT ![j] = Free]
             /\ Become(p, looking)
             /\ UNCHANGED failures
          \/ /\ failures < MaxFailures /\ failures' = failures + 1
             /\ Become(p, [looking EXCEPT !.due = @ \ {j}])
             /\ UNCHANGED dirs
    /\ UNCHANGED <<running, uses, used>>

\* mkdtemp: the directory is this use's own.
Make(p) ==
    /\ cleaning[p].at = "looking" /\ cleaning[p].left = {}
    /\ \E j \in Jobs \ used :
         /\ dirs' = [dirs EXCEPT ![j] = p]
         /\ uses' = [uses EXCEPT ![p] = @ \cup {j}]
         /\ used' = used \cup {j}
    /\ Become(p, No)
    /\ UNCHANGED <<running, failures>>

\* The end of the block, with the removal of its directory.
Leave(p) ==
    /\ cleaning[p] = No
    /\ \E j \in uses[p] :
         /\ uses' = [uses EXCEPT ![p] = @ \ {j}]
         /\ \/ dirs' = [dirs EXCEPT ![j] = Free] /\ UNCHANGED failures
            \/ /\ failures < MaxFailures /\ failures' = failures + 1
               /\ UNCHANGED dirs
    /\ UNCHANGED <<running, cleaning, used>>

Next == \E p \in Pids :
          Start(p) \/ End(p) \/ Enter(p) \/ Look(p) \/ Remove(p) \/ Make(p) \/ Leave(p)

Spec == Init /\ [][Next]_vars

-----------------------------------------------------------------------------
\* Types: only a live process cleans or uses a directory.
TempTypeOK ==
    /\ running \subseteq Pids /\ used \subseteq Jobs /\ failures \in 0..MaxFailures
    /\ dirs \in [Jobs -> Pids \cup {Free}] /\ Existing \subseteq used
    /\ uses \in [Pids -> SUBSET Jobs]
    /\ \A p \in Pids :
         /\ cleaning[p].at \in {"no", "looking", "removing"}
         /\ p \notin running => uses[p] = {} /\ cleaning[p] = No

(***************************************************************************)
(* A directory in use is there until its own process leaves it, whatever    *)
(* other processes clean up meanwhile and whether or not the number belonged *)
(* to a dead process before (_cleanup_abandoned_jobs, 93-107).               *)
(***************************************************************************)
InUseIsKept == \A p \in Pids : \A j \in uses[p] : dirs[j] = p

(***************************************************************************)
(* Once a cleanup has been through its listing, no directory is left that a  *)
(* dead process had left behind when it began, unless its removal failed,    *)
(* its number was taken again or the listing was cut.                        *)
(***************************************************************************)
LeftoversGo ==
    \A p \in Pids : cleaning[p].at = "looking" /\ cleaning[p].left = {} =>
        cleaning[p].due \cap Existing = {}

=============================================================================
