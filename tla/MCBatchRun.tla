----------------------------- MODULE MCBatchRun -----------------------------
(***************************************************************************)
(* Small instances of BatchStore and of BatchRun for TLC.                  *)
(***************************************************************************)
EXTENDS BatchRun, FiniteSetsExt, TLC

CONSTANTS d1, d2

\* A document of two pages and one of one page.
MCPagesOf == (d1 :> {1, 2}) @@ (d2 :> {1})
MCShortOnly == (d2 :> {1})

\* The applications that have left a trace.
Seen == {o \in Owners :
    o = host.owner \/ o = supervisor \/ proc[o].stage # "none" \/ \E j \in Jobs : job[j].owner = o}

Reads(d) == \E j \in Jobs, s \in Sources : source[j][s].sha = d

Claims == MapThenSumSet(LAMBDA j : MapThenSumSet(LAMBDA k : page[j][k].attempt, Pages), Jobs)

\* Bound of the model: either one job that reads the long document, with all
\* of the other constants, but for a second command only up to its first
\* claim; or two jobs that read the short one under one application, each
\* started once, with no command and one claim between them.
Explored ==
    \/ /\ Cardinality({j \in Jobs : job[j].state # "absent"}) <= 1
       /\ ~Reads(d2)
       /\ \A j \in Jobs : Cardinality(commands[j]) <= 1 \/ Claims <= 1
    \/ /\ Cardinality(Seen) <= 1 /\ ~Reads(d1)
       /\ \A j \in Jobs : job[j].gen <= 1 /\ commands[j] = {}
       /\ Claims <= 1

SmallSpec == RunInit /\ [][RunNext /\ Explored']_vars

Symmetry == Permutations(Owners) \cup Permutations(Jobs)

-----------------------------------------------------------------------------
(* The database alone, whose callers may call anything at any time.        *)

\* Bound of the model: either one job, with all of the constants, or two jobs
\* that are started once each and read one-page documents, of which one gets
\* as far as its page, with one command between them.
StoreExplored ==
    \/ Cardinality({j \in Jobs : job[j].state # "absent"}) <= 1
    \/ /\ \A j \in Jobs : job[j].gen <= 1 /\ ~Reads(d1)
       /\ MapThenSumSet(LAMBDA j : Cardinality(commands[j]), Jobs) <= 1
       /\ Claims <= 1

StoreOnly == Next /\ StoreExplored' /\ UNCHANGED <<host, slot, proc, lease>>
StoreSpec == RunInit /\ [][StoreOnly]_vars

StoreSymmetry == Symmetry \cup Permutations(CommandIds)
=============================================================================
