-------------------------- MODULE BatchStoreProofs --------------------------
(***************************************************************************)
(* Proofs that the transactions of the batch database preserve its         *)
(* invariants, for any number of jobs, sources, pages, hosts and commands. *)
(***************************************************************************)
EXTENDS BatchStore, FiniteSetTheorems, TLAPS

USE DEF RowStates, JobStates, ActiveStates, ExecutionStates, StartableStates, PublishedStates

(***************************************************************************)
(* Rows keep their types under the updates the transactions make.          *)
(***************************************************************************)
LEMMA JobRowUpdate ==
    ASSUME NEW r \in JobRow
    PROVE  /\ \A st \in JobStates : [r EXCEPT !.state = st] \in JobRow
           /\ \A st \in JobStates, ow \in OptionalOwner :
                [r EXCEPT !.state = st, !.owner = ow] \in JobRow
           /\ \A st \in JobStates, rev \in Nat :
                [r EXCEPT !.state = st, !.rev = rev] \in JobRow
           /\ [r EXCEPT !.deleting = TRUE] \in JobRow
  BY ZenonT(40) DEF JobRow, OptionalGen

\* A source row keeps its type when its state and verification change.
LEMMA SourceRowUpdate ==
    ASSUME NEW r \in SourceRow
    PROVE  /\ \A st \in SourceStates, v \in OptionalGen :
                [r EXCEPT !.state = st, !.verified = v] \in SourceRow
           /\ [r EXCEPT !.verified = NONE] \in SourceRow
  BY DEF SourceRow, OptionalGen

\* So does the table of sources when one of its rows changes so.
LEMMA SourceUpdate ==
    ASSUME TypeOK, NEW j \in Jobs, NEW s \in Sources,
           NEW st \in SourceStates, NEW v \in OptionalGen
    PROVE  [source EXCEPT ![j][s].state = st, ![j][s].verified = v]
             \in [Jobs -> [Sources -> SourceRow]]
<1> DEFINE row == [source[j][s] EXCEPT !.state = st, !.verified = v]
<1>1. source[j] \in [Sources -> SourceRow] /\ source[j][s] \in SourceRow
  BY DEF TypeOK
<1>2. row \in SourceRow
  BY <1>1, SourceRowUpdate
<1>3. [source[j] EXCEPT ![s] = row] \in [Sources -> SourceRow]
  BY <1>1, <1>2
<1>4. [source EXCEPT ![j] = [source[j] EXCEPT ![s] = row]] \in [Jobs -> [Sources -> SourceRow]]
  BY <1>3 DEF TypeOK
<1>5. [source EXCEPT ![j][s].state = st, ![j][s].verified = v]
        = [source EXCEPT ![j] = [source[j] EXCEPT ![s] = row]]
  BY <1>1 DEF TypeOK
<1> QED
  BY <1>4, <1>5

\* A page row keeps its type under every change the transactions make to it.
LEMMA PageRowUpdate ==
    ASSUME NEW r \in PageRow
    PROVE  /\ \A st \in PageStates :
                [r EXCEPT !.state = st, !.owner = NONE] \in PageRow
           /\ \A gen \in Nat :
                [r EXCEPT !.state = "pending", !.owner = NONE, !.gen = gen] \in PageRow
  BY DEF PageRow, PageStates, OptionalOwner

(***************************************************************************)
(* Every step keeps every row in its type.                                 *)
(***************************************************************************)
LEMMA TypeStep == TypeOK /\ [Next]_storeVars => TypeOK'
<1> SUFFICES ASSUME TypeOK, [Next]_storeVars
             PROVE  TypeOK'
  OBVIOUS
<1>1. ASSUME NEW o \in Owners, ActivateSupervisor(o)
      PROVE  TypeOK'
  <2>1. supervisor' \in OptionalOwner
    BY <1>1 DEF ActivateSupervisor, OptionalOwner
  <2>2. page' \in [Jobs -> [Pages -> PageRow]]
    BY <1>1, PageRowUpdate DEF ActivateSupervisor, TypeOK, PageStates
  <2>3. job' \in [Jobs -> JobRow]
    BY <1>1, JobRowUpdate DEF ActivateSupervisor, TypeOK, OptionalOwner
  <2>4. UNCHANGED <<source, result, processed, commands, snapshot>>
    BY <1>1 DEF ActivateSupervisor
  <2> QED
    BY <2>1, <2>2, <2>3, <2>4 DEF TypeOK
<1>2. ASSUME NEW j \in Jobs, NEW g \in Gens, NEW o \in Owners, StartJob(j, g, o)
      PROVE  TypeOK'
  <2>1. g + 1 \in Nat
    BY BoundsAssumption DEF Gens
  <2>2. commands' \in [Jobs -> SUBSET Command]
    BY <1>2 DEF StartJob, TypeOK
  <2>3. result' \in [Jobs -> [Pages -> OptionalDigest]]
    BY <1>2 DEF StartJob, TypeOK, OptionalDigest
  <2>4. page' \in [Jobs -> [Pages -> PageRow]]
    BY <1>2, <2>1, PageRowUpdate DEF StartJob, TypeOK
  <2>5. source' \in [Jobs -> [Sources -> SourceRow]]
    BY <1>2, SourceRowUpdate DEF StartJob, TypeOK, Unverified
  <2>6. job' \in [Jobs -> JobRow]
    BY <1>2, <2>1 DEF StartJob, TypeOK, JobRow, OptionalOwner, OptionalGen
  <2>7. UNCHANGED <<supervisor, processed, snapshot>>
    BY <1>2 DEF StartJob
  <2> QED
    BY <2>1, <2>2, <2>3, <2>4, <2>5, <2>6, <2>7 DEF TypeOK
<1>3. ASSUME NEW j \in Jobs, NEW g \in Gens, NEW o \in Owners, NEW cancelled \in BOOLEAN,
             FinishStop(j, g, o, cancelled)
      PROVE  TypeOK'
  <2>1. page' \in [Jobs -> [Pages -> PageRow]]
    BY <1>3, PageRowUpdate DEF FinishStop, TypeOK, PageStates
  <2>2. job[j] \in JobRow
    BY DEF TypeOK
  <2>3. job' \in [Jobs -> JobRow]
    BY <1>3, <2>2, JobRowUpdate DEF FinishStop, StopState, TypeOK, OptionalOwner
  <2>4. UNCHANGED <<supervisor, source, result, processed, commands, snapshot>>
    BY <1>3 DEF FinishStop
  <2> QED
    BY <2>1, <2>2, <2>3, <2>4 DEF TypeOK
<1>4. ASSUME NEW j \in Jobs, NEW g \in Gens, NEW o \in Owners, NEW s \in Sources,
             NEW d \in Digests, RegisterSource(j, g, o, s, d)
      PROVE  TypeOK'
  <2>1. source' \in [Jobs -> [Sources -> SourceRow]]
    BY <1>4 DEF RegisterSource, TypeOK, SourceRow, SourceStates, OptionalDigest, OptionalGen
  <2>2. job[j].gen \in Nat
    BY DEF TypeOK, JobRow
  <2>3. page' \in [Jobs -> [Pages -> PageRow]]
    BY <1>4, <2>2 DEF RegisterSource, TypeOK, PageRow, PageStates, OptionalOwner
  <2>4. UNCHANGED <<supervisor, job, result, processed, commands, snapshot>>
    BY <1>4 DEF RegisterSource
  <2> QED
    BY <2>1, <2>2, <2>3, <2>4 DEF TypeOK
<1>5. ASSUME NEW j \in Jobs, NEW g \in Gens, NEW o \in Owners, NEW s \in Sources,
             NEW d \in Digests, ReregisterSource(j, g, o, s, d)
      PROVE  TypeOK'
  <2>1. "registered" \in SourceStates /\ NONE \in OptionalGen
    BY DEF SourceStates, OptionalGen
  <2>2. source' \in [Jobs -> [Sources -> SourceRow]]
    BY <1>5, <2>1, SourceUpdate DEF ReregisterSource
  <2>3. UNCHANGED <<supervisor, job, page, result, processed, commands, snapshot>>
    BY <1>5 DEF ReregisterSource
  <2> QED
    BY <2>1, <2>2, <2>3 DEF TypeOK
<1>6. ASSUME NEW j \in Jobs, NEW g \in Gens, NEW o \in Owners, NEW s \in Sources,
             NEW d \in Digests, VerifySource(j, g, o, s, d)
      PROVE  TypeOK'
  <2>1. "verified" \in SourceStates /\ g \in OptionalGen
    BY BoundsAssumption DEF SourceStates, OptionalGen, Gens
  <2>2. source' \in [Jobs -> [Sources -> SourceRow]]
    BY <1>6, <2>1, SourceUpdate DEF VerifySource
  <2>3. UNCHANGED <<supervisor, job, page, result, processed, commands, snapshot>>
    BY <1>6 DEF VerifySource
  <2> QED
    BY <2>1, <2>2, <2>3 DEF TypeOK
<1>7. ASSUME NEW j \in Jobs, NEW g \in Gens, NEW o \in Owners, NEW s \in Sources,
             NEW outcome \in {"failed", "blocked"}, FailSource(j, g, o, s, outcome)
      PROVE  TypeOK'
  <2>1. outcome \in SourceStates /\ NONE \in OptionalGen
    BY DEF SourceStates, OptionalGen
  <2>2. source' \in [Jobs -> [Sources -> SourceRow]]
    BY <1>7, <2>1, SourceUpdate DEF FailSource
  <2>3. UNCHANGED <<supervisor, job, page, result, processed, commands, snapshot>>
    BY <1>7 DEF FailSource
  <2> QED
    BY <2>1, <2>2, <2>3 DEF TypeOK
<1>8. ASSUME NEW j \in Jobs, NEW g \in Gens, NEW o \in Owners, NEW move \in WorkerMoves,
             Transition(j, g, o, move[1], move[2])
      PROVE  TypeOK'
  <2>1. job[j] \in JobRow /\ move[2] \in JobStates
    BY DEF TypeOK, WorkerMoves
  <2>2. job' \in [Jobs -> JobRow]
    BY <1>8, <2>1, JobRowUpdate DEF Transition, TypeOK
  <2>3. UNCHANGED <<supervisor, source, page, result, processed, commands, snapshot>>
    BY <1>8 DEF Transition
  <2> QED
    BY <2>1, <2>2, <2>3 DEF TypeOK
<1>9. ASSUME NEW j \in Jobs, NEW g \in Gens, NEW o \in Owners, NEW k \in Pages,
             BeginPage(j, g, o, k)
      PROVE  TypeOK'
  <2>1. result' \in [Jobs -> [Pages -> OptionalDigest]]
    BY <1>9 DEF BeginPage, TypeOK, OptionalDigest
  <2>2. page[j][k].attempt + 1 \in Nat /\ g \in Nat
    BY BoundsAssumption DEF TypeOK, PageRow, Gens
  <2>3. page' \in [Jobs -> [Pages -> PageRow]]
    BY <1>9, <2>2 DEF BeginPage, TypeOK, PageRow, PageStates, OptionalOwner
  <2>4. UNCHANGED <<supervisor, job, source, processed, commands, snapshot>>
    BY <1>9 DEF BeginPage
  <2> QED
    BY <2>1, <2>2, <2>3, <2>4 DEF TypeOK
<1>10. ASSUME NEW j \in Jobs, NEW g \in Gens, NEW o \in Owners, NEW k \in Pages,
             NEW attempt \in 1 .. MaxAttempts, NEW d \in Digests,
             CommitPage(j, g, o, k, attempt, d, processed[j][k[1]] + 1)
      PROVE  TypeOK'
  <2>1. k[1] \in Sources
    BY DEF Pages
  <2>2. page[j][k] \in PageRow /\ job[j] \in JobRow /\ job[j].state \in JobStates
    BY DEF TypeOK, JobRow
  <2>3. result' \in [Jobs -> [Pages -> OptionalDigest]]
    BY <1>10 DEF CommitPage, TypeOK, OptionalDigest
  <2>4. processed' \in [Jobs -> [Sources -> Nat]]
    BY <1>10, <2>1 DEF CommitPage, TypeOK
  <2>5. page' \in [Jobs -> [Pages -> PageRow]]
    BY ZenonT(40), <1>10, <2>2, PageRowUpdate DEF CommitPage, TypeOK, PageStates
  <2>6. job' \in [Jobs -> JobRow]
    BY <1>10, <2>2, JobRowUpdate DEF CommitPage, TypeOK
  <2>7. UNCHANGED <<supervisor, source, commands, snapshot>>
    BY <1>10 DEF CommitPage
  <2> QED
    BY <2>1, <2>2, <2>3, <2>4, <2>5, <2>6, <2>7 DEF TypeOK
<1>11. ASSUME NEW j \in Jobs, NEW g \in Gens, NEW o \in Owners, NEW k \in Pages,
             NEW attempt \in 1 .. MaxAttempts, NEW work \in {0, 1},
             FailPage(j, g, o, k, attempt, processed[j][k[1]] + work)
      PROVE  TypeOK'
  <2>1. k[1] \in Sources
    BY DEF Pages
  <2>2. page[j][k] \in PageRow
    BY DEF TypeOK
  <2>3. result' \in [Jobs -> [Pages -> OptionalDigest]]
    BY <1>11 DEF FailPage, TypeOK, OptionalDigest
  <2>4. processed' \in [Jobs -> [Sources -> Nat]]
    BY <1>11, <2>1 DEF FailPage, TypeOK
  <2>5. page' \in [Jobs -> [Pages -> PageRow]]
    BY ZenonT(40), <1>11, <2>2, PageRowUpdate DEF FailPage, TypeOK, PageStates
  <2>6. UNCHANGED <<supervisor, job, source, commands, snapshot>>
    BY <1>11 DEF FailPage
  <2> QED
    BY <2>1, <2>2, <2>3, <2>4, <2>5, <2>6 DEF TypeOK
<1>12. ASSUME NEW j \in Jobs, NEW g \in Gens, NEW o \in Owners, PublishSnapshot(j, g, o)
      PROVE  TypeOK'
  <2>1. g \in Nat /\ job[j] \in JobRow
    BY BoundsAssumption DEF TypeOK, Gens
  <2>2. [gen |-> g, shas |-> [s \in Sources |-> source[j][s].sha], items |-> result[j]] \in Snapshot
    BY <2>1 DEF TypeOK, Snapshot, SourceRow
  <2>3. snapshot' \in [Jobs -> Snapshot \cup {NONE}]
    BY <1>12, <2>2 DEF PublishSnapshot, TypeOK
  <2>4. job' \in [Jobs -> JobRow]
    BY <1>12, <2>1, JobRowUpdate DEF PublishSnapshot, TypeOK
  <2>5. UNCHANGED <<supervisor, source, page, result, processed, commands>>
    BY <1>12 DEF PublishSnapshot
  <2> QED
    BY <2>1, <2>2, <2>3, <2>4, <2>5 DEF TypeOK
<1>13. ASSUME NEW j \in Jobs, CreateJob(j)
      PROVE  TypeOK'
  <2>1. job[j] \in JobRow
    BY DEF TypeOK
  <2>2. job' \in [Jobs -> JobRow]
    BY <1>13, <2>1, JobRowUpdate DEF CreateJob, TypeOK
  <2>3. UNCHANGED <<supervisor, source, page, result, processed, commands, snapshot>>
    BY <1>13 DEF CreateJob
  <2> QED
    BY <2>1, <2>2, <2>3 DEF TypeOK
<1>14. ASSUME NEW j \in Jobs, NEW g \in Gens, NEW c \in CommandIds, NEW action \in Actions,
             NEW to \in RowStates, Control(j, g, c, action, to)
      PROVE  TypeOK'
  <2>1. job[j] \in JobRow /\ to \in JobStates
    BY DEF TypeOK
  <2>2. job' \in [Jobs -> JobRow]
    BY <1>14, <2>1, JobRowUpdate DEF Control, TypeOK
  <2>3. [id |-> c, action |-> action, state |-> to] \in Command
    BY DEF Command
  <2>4. commands' \in [Jobs -> SUBSET Command]
    BY <1>14, <2>3 DEF Control, TypeOK
  <2>5. UNCHANGED <<supervisor, source, page, result, processed, snapshot>>
    BY <1>14 DEF Control
  <2> QED
    BY <2>1, <2>2, <2>3, <2>4, <2>5 DEF TypeOK
<1>15. ASSUME NEW j \in Jobs, NEW s \in Sources, NEW d \in Digests, RelocateSource(j, s, d)
      PROVE  TypeOK'
  <2>1. "registered" \in SourceStates /\ NONE \in OptionalGen
    BY DEF SourceStates, OptionalGen
  <2>2. source' \in [Jobs -> [Sources -> SourceRow]]
    BY <1>15, <2>1, SourceUpdate DEF RelocateSource
  <2>3. UNCHANGED <<supervisor, job, page, result, processed, commands, snapshot>>
    BY <1>15 DEF RelocateSource
  <2> QED
    BY <2>1, <2>2, <2>3 DEF TypeOK
<1>16. ASSUME NEW j \in Jobs, CloseGate(j)
      PROVE  TypeOK'
  <2>1. job[j] \in JobRow
    BY DEF TypeOK
  <2>2. job' \in [Jobs -> JobRow]
    BY <1>16, <2>1, JobRowUpdate DEF CloseGate, TypeOK
  <2>3. UNCHANGED <<supervisor, source, page, result, processed, commands, snapshot>>
    BY <1>16 DEF CloseGate
  <2> QED
    BY <2>1, <2>2, <2>3 DEF TypeOK
<1>17. ASSUME NEW j \in Jobs, DeleteJob(j)
      PROVE  TypeOK'
  <2>1. [NoJob EXCEPT !.state = "deleted"] \in JobRow /\ NewSource \in SourceRow /\ NoPage \in PageRow
    BY DEF NoJob, NewSource, NoPage, JobRow, SourceRow, PageRow,
       OptionalOwner, OptionalGen, OptionalDigest, SourceStates, PageStates
  <2>2. job' \in [Jobs -> JobRow]
    BY <1>17, <2>1 DEF DeleteJob, TypeOK
  <2>3. source' \in [Jobs -> [Sources -> SourceRow]]
    BY <1>17, <2>1 DEF DeleteJob, TypeOK
  <2>4. page' \in [Jobs -> [Pages -> PageRow]]
    BY <1>17, <2>1 DEF DeleteJob, TypeOK
  <2>5. result' \in [Jobs -> [Pages -> OptionalDigest]]
    BY <1>17 DEF DeleteJob, TypeOK, OptionalDigest
  <2>6. processed' \in [Jobs -> [Sources -> Nat]]
    BY <1>17 DEF DeleteJob, TypeOK
  <2>7. commands' \in [Jobs -> SUBSET Command]
    BY <1>17 DEF DeleteJob, TypeOK
  <2>8. snapshot' \in [Jobs -> Snapshot \cup {NONE}]
    BY <1>17 DEF DeleteJob, TypeOK
  <2>9. UNCHANGED <<supervisor>>
    BY <1>17 DEF DeleteJob
  <2> QED
    BY <2>1, <2>2, <2>3, <2>4, <2>5, <2>6, <2>7, <2>8, <2>9 DEF TypeOK
<1>18. CASE UNCHANGED storeVars
  BY <1>18 DEF storeVars, TypeOK
<1>a. ASSUME HostStep PROVE TypeOK'
  BY <1>a, <1>1, <1>2, <1>3 DEF HostStep
<1>b. ASSUME WorkerStep PROVE TypeOK'
  BY <1>b, <1>4, <1>5, <1>6, <1>7, <1>8, <1>9, <1>10, <1>11, <1>12 DEF WorkerStep
<1>c. ASSUME ClientStep PROVE TypeOK'
  BY <1>c, <1>13, <1>14, <1>15, <1>16, <1>17 DEF ClientStep
<1> QED
  BY <1>18, <1>a, <1>b, <1>c DEF Next

\* An empty database is well typed.
LEMMA TypeInit == Init => TypeOK
  BY NoneAssumption DEF Init, TypeOK, JobRow, SourceRow, PageRow, Command, Snapshot,
     OptionalOwner, OptionalGen, OptionalDigest, SourceStates, PageStates,
     NoJob, NewSource, NoPage

\* Every row of the database has the columns and values of its schema, in
\* every reachable state (batch_store.py, _DDL_V1).
THEOREM TypeCorrect == Spec => []TypeOK
  BY TypeInit, TypeStep, PTL DEF Spec

(***************************************************************************)
(* How a job comes to be active, or stays so, in one step.                 *)
(***************************************************************************)
Starts(j) ==
    /\ Startable(j) /\ OthersRest(j)
    /\ supervisor \in Owners /\ supervisor' = supervisor
    /\ job'[j].owner = supervisor /\ ~job'[j].deleting
    /\ \A i \in Jobs \ {j} : job'[i] = job[i]

Continues(j) ==
    /\ Active(j)
    /\ job'[j].owner = job[j].owner
    /\ job'[j].deleting = job[j].deleting
    /\ supervisor' = supervisor \/ supervisor = NONE \/ job[j].owner = NONE

\* Transactions that leave the jobs and the supervisor alone.
LEMMA JobKept ==
    ASSUME NEW j \in Jobs, NEW g \in Gens, NEW o \in Owners
    PROVE  /\ \A s \in Sources, d \in Digests :
                RegisterSource(j, g, o, s, d) \/ ReregisterSource(j, g, o, s, d)
                  \/ VerifySource(j, g, o, s, d) => UNCHANGED <<supervisor, job>>
           /\ \A s \in Sources, outcome \in {"failed", "blocked"} :
                FailSource(j, g, o, s, outcome) => UNCHANGED <<supervisor, job>>
           /\ \A k \in Pages : BeginPage(j, g, o, k) => UNCHANGED <<supervisor, job>>
           /\ \A k \in Pages, attempt \in 1 .. MaxAttempts, work \in {0, 1} :
                FailPage(j, g, o, k, attempt, processed[j][k[1]] + work)
                  => UNCHANGED <<supervisor, job>>
  BY DEF RegisterSource, ReregisterSource, VerifySource, FailSource, BeginPage, FailPage

\* A job that is active after a step was started by the step or was active before.
LEMMA ActiveStep ==
    ASSUME TypeOK, [Next]_storeVars, NEW j \in Jobs, Active(j)'
    PROVE  Starts(j) \/ Continues(j)
<1> USE DEF Active
<1>0. /\ job \in [Jobs -> JobRow] /\ job[j] \in JobRow
      /\ \A i \in Jobs : job[i] \in JobRow
  BY DEF TypeOK
<1>1. ASSUME NEW o \in Owners, ActivateSupervisor(o)
      PROVE  Continues(j)
  BY <1>0, <1>1 DEF ActivateSupervisor, Continues, Abandoned, JobRow
<1>2. ASSUME NEW i \in Jobs, NEW g \in Gens, NEW o \in Owners, StartJob(i, g, o)
      PROVE  Starts(j) \/ Continues(j)
  <2>1. CASE i = j
    <3>1. job' = [job EXCEPT ![j] = [state |-> "validating", gen |-> g + 1, owner |-> o, rev |-> NONE, deleting |-> FALSE]]
      BY <1>2, <2>1 DEF StartJob
    <3>2. Startable(j) /\ OthersRest(j) /\ supervisor = o /\ supervisor' = supervisor
      BY <1>2, <2>1 DEF StartJob
    <3> QED
      BY <1>0, <3>1, <3>2 DEF Starts
  <2>2. CASE i # j
    BY <1>0, <1>2, <2>2 DEF StartJob, Continues
  <2> QED
    BY <2>1, <2>2
<1>3. ASSUME NEW i \in Jobs, NEW g \in Gens, NEW o \in Owners, NEW cancelled \in BOOLEAN,
             FinishStop(i, g, o, cancelled)
      PROVE  Continues(j)
  BY ZenonT(40), <1>0, <1>3 DEF FinishStop, StopState, Continues, JobRow
<1>4. ASSUME NEW i \in Jobs, NEW g \in Gens, NEW o \in Owners, NEW move \in WorkerMoves,
             Transition(i, g, o, move[1], move[2])
      PROVE  Continues(j)
  BY <1>0, <1>4 DEF Transition, WorkerMoves, Continues, JobRow
<1>5. ASSUME NEW i \in Jobs, NEW g \in Gens, NEW o \in Owners, NEW k \in Pages,
             NEW attempt \in 1 .. MaxAttempts, NEW d \in Digests,
             CommitPage(i, g, o, k, attempt, d, processed[i][k[1]] + 1)
      PROVE  Continues(j)
  BY <1>0, <1>5 DEF CommitPage, Continues, JobRow
<1>6. ASSUME NEW i \in Jobs, NEW g \in Gens, NEW o \in Owners, PublishSnapshot(i, g, o)
      PROVE  Continues(j)
  BY <1>0, <1>6 DEF PublishSnapshot, Continues, JobRow
<1>7. ASSUME NEW i \in Jobs, CreateJob(i)
      PROVE  Continues(j)
  BY <1>0, <1>7 DEF CreateJob, Continues, JobRow
<1>8. ASSUME NEW i \in Jobs, NEW g \in Gens, NEW c \in CommandIds, NEW action \in Actions,
             NEW to \in RowStates, Control(i, g, c, action, to)
      PROVE  Continues(j)
  <2>1. <<job[i].state, to>> \in PauseMoves \cup CancelMoves \cup ArchiveMoves
    BY <1>8 DEF Control, MovesOf, Actions
  <2>2. to \in ActiveStates => job[i].state \in ActiveStates
    BY <2>1 DEF PauseMoves, CancelMoves, ArchiveMoves, Stays
  <2> QED
    BY <1>0, <1>8, <2>2 DEF Control, Continues, JobRow
<1>9. ASSUME NEW i \in Jobs, CloseGate(i)
      PROVE  Continues(j)
  BY <1>0, <1>9 DEF CloseGate, Continues, JobRow
<1>10. ASSUME NEW i \in Jobs, DeleteJob(i)
      PROVE  Continues(j)
  BY <1>0, <1>10 DEF DeleteJob, NoJob, Continues, JobRow
<1>11. ASSUME UNCHANGED <<supervisor, job>>
      PROVE  Continues(j)
  BY <1>11 DEF Continues
<1>a. ASSUME HostStep PROVE Starts(j) \/ Continues(j)
  BY <1>a, <1>1, <1>2, <1>3 DEF HostStep
<1>b. ASSUME WorkerStep PROVE Continues(j)
  BY <1>b, <1>4, <1>5, <1>6, <1>11, JobKept DEF WorkerStep
<1>c. ASSUME ClientStep PROVE Continues(j)
  BY <1>c, <1>7, <1>8, <1>9, <1>10, <1>11 DEF ClientStep, RelocateSource
<1> QED
  BY <1>a, <1>b, <1>c, <1>11 DEF Next, storeVars

\* start_job finds every other job at rest, so no step makes a second job active.
LEMMA SingleActiveStep == TypeOK /\ SingleActiveJob /\ [Next]_storeVars => SingleActiveJob'
<1> SUFFICES ASSUME TypeOK, SingleActiveJob, [Next]_storeVars,
                    NEW i \in Jobs, NEW j \in Jobs, Active(i)', Active(j)'
             PROVE  i = j
  BY DEF SingleActiveJob
<1>1. Starts(i) \/ Continues(i)
  BY ActiveStep
<1>2. Starts(j) \/ Continues(j)
  BY ActiveStep
<1>3. Active(i) => ~Startable(i)
  BY DEF Active, Startable
<1> QED
  BY <1>1, <1>2, <1>3 DEF Starts, Continues, OthersRest, SingleActiveJob, Active, Startable

\* A start makes the supervisor the owner, and a takeover reclaims every owned run.
LEMMA ActiveOwnedStep == TypeOK /\ ActiveIsOwned /\ [Next]_storeVars => ActiveIsOwned'
<1> SUFFICES ASSUME TypeOK, ActiveIsOwned, [Next]_storeVars, NEW j \in Jobs, Active(j)'
             PROVE  job'[j].owner = supervisor' /\ supervisor' # NONE
  BY DEF ActiveIsOwned
<1>1. Starts(j) \/ Continues(j)
  BY ActiveStep
<1> QED
  BY <1>1, NoneAssumption DEF Starts, Continues, ActiveIsOwned

\* The gate closes on idle jobs only, and no gated job is started.
LEMMA GatedIdleStep == TypeOK /\ GatedIsIdle /\ [Next]_storeVars => GatedIsIdle'
<1> SUFFICES ASSUME TypeOK, GatedIsIdle, [Next]_storeVars, NEW j \in Jobs, job'[j].deleting
             PROVE  ~Active(j)' /\ Exists(j)'
  BY DEF GatedIsIdle
<1>0. job \in [Jobs -> JobRow] /\ job[j] \in JobRow
  BY DEF TypeOK
<1>g. (job[j].deleting = TRUE) => Exists(j)
  BY DEF GatedIsIdle
<1>t. job'[j] \in JobRow
  BY TypeStep DEF TypeOK
<1>h. job'[j].deleting = TRUE
  BY <1>t DEF JobRow
<1>1. ~Active(j)'
  <2> SUFFICES ASSUME Active(j)' PROVE FALSE
    OBVIOUS
  <2>1. Starts(j) \/ Continues(j)
    BY ActiveStep
  <2> QED
    BY <2>1 DEF Starts, Continues, GatedIsIdle
<1>2. Exists(j)'
  <2> USE <1>0, <1>g, <1>h DEF Exists
  <2>1. ASSUME NEW o \in Owners, ActivateSupervisor(o)
        PROVE  Exists(j)'
    BY <2>1 DEF ActivateSupervisor, JobRow
  <2>2. ASSUME NEW i \in Jobs, NEW g \in Gens, NEW o \in Owners, StartJob(i, g, o)
        PROVE  Exists(j)'
    <3>1. job' = [job EXCEPT ![i] = [state |-> "validating", gen |-> g + 1, owner |-> o, rev |-> NONE, deleting |-> FALSE]]
      BY <2>2 DEF StartJob
    <3> QED
      BY <3>1
  <2>3. ASSUME NEW i \in Jobs, NEW g \in Gens, NEW o \in Owners, NEW cancelled \in BOOLEAN,
               FinishStop(i, g, o, cancelled)
        PROVE  Exists(j)'
    BY <2>3 DEF FinishStop, StopState, JobRow
  <2>4. ASSUME NEW i \in Jobs, NEW g \in Gens, NEW o \in Owners, NEW move \in WorkerMoves,
               Transition(i, g, o, move[1], move[2])
        PROVE  Exists(j)'
    <3>1. job' = [job EXCEPT ![i].state = move[2]] /\ move[2] \in RowStates
      BY <2>4 DEF Transition, WorkerMoves
    <3> QED
      BY <3>1 DEF JobRow
  <2>5. ASSUME NEW i \in Jobs, NEW g \in Gens, NEW o \in Owners, NEW k \in Pages,
               NEW attempt \in 1 .. MaxAttempts, NEW d \in Digests,
               CommitPage(i, g, o, k, attempt, d, processed[i][k[1]] + 1)
        PROVE  Exists(j)'
    BY <2>5 DEF CommitPage, JobRow
  <2>6. ASSUME NEW i \in Jobs, NEW g \in Gens, NEW o \in Owners, PublishSnapshot(i, g, o)
        PROVE  Exists(j)'
    BY <2>6 DEF PublishSnapshot, JobRow
  <2>7. ASSUME NEW i \in Jobs, CreateJob(i)
        PROVE  Exists(j)'
    BY <2>7 DEF CreateJob, JobRow
  <2>8. ASSUME NEW i \in Jobs, NEW g \in Gens, NEW c \in CommandIds, NEW action \in Actions,
               NEW to \in RowStates, Control(i, g, c, action, to)
        PROVE  Exists(j)'
    BY <2>8 DEF Control, JobRow
  <2>9. ASSUME NEW i \in Jobs, CloseGate(i)
        PROVE  Exists(j)'
    BY <2>9 DEF CloseGate, JobRow
  <2>10. ASSUME NEW i \in Jobs, DeleteJob(i)
        PROVE  Exists(j)'
    <3>1. job' = [job EXCEPT ![i] = [NoJob EXCEPT !.state = "deleted"]]
      BY <2>10 DEF DeleteJob
    <3> QED
      BY <3>1 DEF NoJob, JobRow
  <2>11. ASSUME UNCHANGED <<supervisor, job>>
        PROVE  Exists(j)'
    BY <2>11
  <2>a. ASSUME HostStep PROVE Exists(j)'
    BY <2>a, <2>1, <2>2, <2>3 DEF HostStep
  <2>b. ASSUME WorkerStep PROVE Exists(j)'
    BY <2>b, <2>4, <2>5, <2>6, <2>11, JobKept DEF WorkerStep
  <2>c. ASSUME ClientStep PROVE Exists(j)'
    BY <2>c, <2>7, <2>8, <2>9, <2>10, <2>11 DEF ClientStep, RelocateSource
  <2> QED
    BY <2>a, <2>b, <2>c, <2>11 DEF Next, storeVars
<1> QED
  BY <1>1, <1>2

\* A claim is made under the job's owner and generation and does not outlive them.
LEMMA ClaimStep == TypeOK /\ ClaimIsCurrent /\ [Next]_storeVars => ClaimIsCurrent'
<1> SUFFICES ASSUME TypeOK, ClaimIsCurrent, [Next]_storeVars,
                    NEW j \in Jobs, NEW k \in Pages, page'[j][k].state = "processing"
             PROVE  /\ job'[j].owner # NONE
                    /\ page'[j][k].owner = job'[j].owner
                    /\ page'[j][k].gen = job'[j].gen
  BY DEF ClaimIsCurrent
<1> DEFINE Good ==
      /\ job'[j].owner # NONE
      /\ page'[j][k].owner = job'[j].owner
      /\ page'[j][k].gen = job'[j].gen
<1>0. /\ job \in [Jobs -> JobRow] /\ \A i \in Jobs : job[i] \in JobRow
      /\ page \in [Jobs -> [Pages -> PageRow]]
      /\ \A i \in Jobs : page[i] \in [Pages -> PageRow]
      /\ \A i \in Jobs, m \in Pages : page[i][m] \in PageRow
  BY DEF TypeOK
<1>c. page[j][k].state = "processing" =>
        job[j].owner # NONE /\ page[j][k].owner = job[j].owner /\ page[j][k].gen = job[j].gen
  BY DEF ClaimIsCurrent
<1>k. ASSUME page'[j][k] = page[j][k], job'[j].owner = job[j].owner, job'[j].gen = job[j].gen
      PROVE  Good
  BY <1>c, <1>k
<1>1. ASSUME NEW o \in Owners, ActivateSupervisor(o)
      PROVE  Good
  BY <1>0, <1>1, <1>c DEF ActivateSupervisor, PageRow
<1>2. ASSUME NEW i \in Jobs, NEW g \in Gens, NEW o \in Owners, StartJob(i, g, o)
      PROVE  Good
  <2>1. page' = [page EXCEPT ![i] = [m \in Pages |->
         IF page[i][m].state \in {"absent", "succeeded"} THEN page[i][m]
         ELSE [page[i][m] EXCEPT !.state = "pending", !.owner = NONE, !.gen = g + 1]]]
    BY <1>2 DEF StartJob
  <2>2. i # j
    BY <1>0, <2>1 DEF PageRow
  <2>3. page'[j][k] = page[j][k] /\ job'[j] = job[j]
    BY <1>0, <1>2, <2>1, <2>2 DEF StartJob
  <2> QED
    BY <2>3, <1>k
<1>3. ASSUME NEW i \in Jobs, NEW g \in Gens, NEW o \in Owners, NEW cancelled \in BOOLEAN,
             FinishStop(i, g, o, cancelled)
      PROVE  Good
  <2>1. CASE i = j
    <3>1. job[j].gen = g /\ job[j].owner = o
      BY <1>3, <2>1 DEF FinishStop, Owns
    <3>2. page'[j][k] = IF ClaimedBy(j, g, o, k)
         THEN [page[j][k] EXCEPT !.state = "pending", !.owner = NONE] ELSE page[j][k]
      BY <1>0, <1>3, <2>1 DEF FinishStop
    <3> QED
      BY <1>0, <1>c, <3>1, <3>2 DEF ClaimedBy, PageRow
  <2>2. CASE i # j
    <3>1. page'[j][k] = page[j][k] /\ job'[j] = job[j]
      BY <1>0, <1>3, <2>2 DEF FinishStop
    <3> QED
      BY <3>1, <1>k
  <2> QED
    BY <2>1, <2>2
<1>4. ASSUME NEW i \in Jobs, NEW g \in Gens, NEW o \in Owners, NEW s \in Sources,
             NEW d \in Digests, RegisterSource(i, g, o, s, d)
      PROVE  Good
  <2>1. page'[j][k] = page[j][k]
    BY <1>0, <1>4 DEF RegisterSource, PageRow
  <2> QED
    BY <2>1, <1>4, <1>k DEF RegisterSource
<1>5. ASSUME NEW i \in Jobs, NEW g \in Gens, NEW o \in Owners, NEW m \in Pages,
             BeginPage(i, g, o, m)
      PROVE  Good
  <2>1. CASE i = j /\ m = k
    <3>1. page'[j][k] = [state |-> "processing", owner |-> o, gen |-> g, attempt |-> page[j][k].attempt + 1]
      BY <1>0, <1>5, <2>1 DEF BeginPage
    <3> QED
      BY <1>5, <2>1, <3>1, NoneAssumption DEF BeginPage, Owns
  <2>2. CASE ~(i = j /\ m = k)
    <3>1. page'[j][k] = page[j][k]
      BY <1>0, <1>5, <2>2 DEF BeginPage
    <3> QED
      BY <1>5, <3>1, <1>k DEF BeginPage
  <2> QED
    BY <2>1, <2>2
<1>6. ASSUME NEW i \in Jobs, NEW g \in Gens, NEW o \in Owners, NEW m \in Pages,
             NEW attempt \in 1 .. MaxAttempts, NEW d \in Digests,
             CommitPage(i, g, o, m, attempt, d, processed[i][m[1]] + 1)
      PROVE  Good
  <2>1. page'[j][k] = page[j][k]
    BY <1>0, <1>6 DEF CommitPage, PageRow
  <2>2. job'[j].owner = job[j].owner /\ job'[j].gen = job[j].gen
    BY <1>0, <1>6 DEF CommitPage, JobRow
  <2> QED
    BY <2>1, <2>2, <1>k
<1>7. ASSUME NEW i \in Jobs, NEW g \in Gens, NEW o \in Owners, NEW m \in Pages,
             NEW attempt \in 1 .. MaxAttempts, NEW work \in {0, 1},
             FailPage(i, g, o, m, attempt, processed[i][m[1]] + work)
      PROVE  Good
  <2>1. page'[j][k] = page[j][k]
    BY <1>0, <1>7 DEF FailPage, PageRow
  <2> QED
    BY <2>1, <1>7, <1>k DEF FailPage
<1>8. ASSUME page' = page, job'[j].owner = job[j].owner, job'[j].gen = job[j].gen
      PROVE  Good
  BY <1>8, <1>k
<1>9. ASSUME NEW i \in Jobs, NEW g \in Gens, NEW o \in Owners, NEW move \in WorkerMoves,
             Transition(i, g, o, move[1], move[2])
      PROVE  Good
  BY <1>0, <1>9, <1>8 DEF Transition, JobRow
<1>10. ASSUME NEW i \in Jobs, NEW g \in Gens, NEW o \in Owners, PublishSnapshot(i, g, o)
      PROVE  Good
  BY <1>0, <1>10, <1>8 DEF PublishSnapshot, JobRow
<1>11. ASSUME NEW i \in Jobs, CreateJob(i)
      PROVE  Good
  BY <1>0, <1>11, <1>8 DEF CreateJob, JobRow
<1>12. ASSUME NEW i \in Jobs, NEW g \in Gens, NEW c \in CommandIds, NEW action \in Actions,
             NEW to \in RowStates, Control(i, g, c, action, to)
      PROVE  Good
  BY <1>0, <1>12, <1>8 DEF Control, JobRow
<1>13. ASSUME NEW i \in Jobs, CloseGate(i)
      PROVE  Good
  BY <1>0, <1>13, <1>8 DEF CloseGate, JobRow
<1>14. ASSUME NEW i \in Jobs, DeleteJob(i)
      PROVE  Good
  <2>1. page' = [page EXCEPT ![i] = [m \in Pages |-> NoPage]]
    BY <1>14 DEF DeleteJob
  <2>2. i # j
    BY <1>0, <2>1 DEF NoPage
  <2>3. page'[j][k] = page[j][k] /\ job'[j] = job[j]
    BY <1>0, <1>14, <2>1, <2>2 DEF DeleteJob
  <2> QED
    BY <2>3, <1>k
<1>15. ASSUME NEW i \in Jobs, NEW g \in Gens, NEW o \in Owners, NEW s \in Sources,
             \/ \E d \in Digests : ReregisterSource(i, g, o, s, d) \/ VerifySource(i, g, o, s, d)
             \/ \E outcome \in {"failed", "blocked"} : FailSource(i, g, o, s, outcome)
      PROVE  Good
  <2>1. UNCHANGED <<job, page>>
    BY <1>15 DEF ReregisterSource, VerifySource, FailSource
  <2> QED
    BY <2>1, <1>8
<1>17. ASSUME NEW i \in Jobs, NEW s \in Sources, NEW d \in Digests, RelocateSource(i, s, d)
      PROVE  Good
  BY <1>17, <1>8 DEF RelocateSource
<1>16. CASE UNCHANGED storeVars
  BY <1>16, <1>8 DEF storeVars
<1>a. ASSUME HostStep PROVE Good
  BY <1>a, <1>1, <1>2, <1>3 DEF HostStep
<1>b. ASSUME WorkerStep PROVE Good
  BY <1>b, <1>4, <1>5, <1>6, <1>7, <1>9, <1>10, <1>15 DEF WorkerStep
<1>d. ASSUME ClientStep PROVE Good
  BY <1>d, <1>11, <1>12, <1>13, <1>14, <1>17 DEF ClientStep
<1> QED
  BY <1>a, <1>b, <1>d, <1>16 DEF Next

\* Transactions on a source that is registered, and on none of its pages.
SourceOnly(j, s) ==
    \/ \E g \in Gens, o \in Owners :
        \/ \E d \in Digests : ReregisterSource(j, g, o, s, d) \/ VerifySource(j, g, o, s, d)
        \/ \E outcome \in {"failed", "blocked"} : FailSource(j, g, o, s, outcome)
    \/ \E d \in Digests : RelocateSource(j, s, d)

\* The identity of a source survives the transactions that write sources again.
LEMMA IdentityKept ==
    ASSUME TypeOK, NEW i \in Jobs, NEW t \in Sources, SourceOnly(i, t)
    PROVE  /\ UNCHANGED <<supervisor, job, page, result, processed, commands, snapshot>>
           /\ \A j \in Jobs, s \in Sources : source'[j][s].sha = source[j][s].sha
<1>0. /\ source \in [Jobs -> [Sources -> SourceRow]]
      /\ \A j \in Jobs : source[j] \in [Sources -> SourceRow]
      /\ \A j \in Jobs, s \in Sources : source[j][s] \in SourceRow
  BY DEF TypeOK
<1>1. UNCHANGED <<supervisor, job, page, result, processed, commands, snapshot>>
  BY DEF SourceOnly, ReregisterSource, VerifySource, FailSource, RelocateSource
<1>2. PICK st \in SourceStates, v \in OptionalGen :
        source' = [source EXCEPT ![i][t].state = st, ![i][t].verified = v]
  <2> DEFINE Updated == \E st \in SourceStates, v \in OptionalGen :
               source' = [source EXCEPT ![i][t].state = st, ![i][t].verified = v]
  <2>0. NONE \in OptionalGen /\ \A g \in Gens : g \in OptionalGen
    BY BoundsAssumption DEF OptionalGen, Gens
  <2>1. ASSUME NEW g \in Gens, NEW o \in Owners, NEW d \in Digests,
               ReregisterSource(i, g, o, t, d)
        PROVE  Updated
    BY <2>0, <2>1 DEF ReregisterSource, SourceStates
  <2>2. ASSUME NEW g \in Gens, NEW o \in Owners, NEW d \in Digests, VerifySource(i, g, o, t, d)
        PROVE  Updated
    BY <2>0, <2>2 DEF VerifySource, SourceStates
  <2>3. ASSUME NEW g \in Gens, NEW o \in Owners, NEW outcome \in {"failed", "blocked"},
               FailSource(i, g, o, t, outcome)
        PROVE  Updated
    BY <2>0, <2>3 DEF FailSource, SourceStates
  <2>4. ASSUME NEW d \in Digests, RelocateSource(i, t, d)
        PROVE  Updated
    BY <2>0, <2>4 DEF RelocateSource, SourceStates
  <2> QED
    BY <2>1, <2>2, <2>3, <2>4 DEF SourceOnly
<1>3. ASSUME NEW j \in Jobs, NEW s \in Sources
      PROVE  source'[j][s].sha = source[j][s].sha
  <2>1. source' = [source EXCEPT ![i] = [source[i] EXCEPT
          ![t] = [source[i][t] EXCEPT !.state = st, !.verified = v]]]
    BY <1>0, <1>2
  <2>2. [source[i][t] EXCEPT !.state = st, !.verified = v].sha = source[i][t].sha
    BY <1>0 DEF SourceRow
  <2> QED
    BY <1>0, <2>1, <2>2
<1> QED
  BY <1>1, <1>3

\* Page states, results and identities are written together or not at all.
LEMMA SettledStep == TypeOK /\ SettledIffResult /\ [Next]_storeVars => SettledIffResult'
<1> SUFFICES ASSUME TypeOK, SettledIffResult, [Next]_storeVars,
                    NEW j \in Jobs, NEW k \in Pages
             PROVE  /\ page'[j][k].state = "succeeded" <=> result'[j][k] # NONE
                    /\ result'[j][k] # NONE => result'[j][k] = source'[j][k[1]].sha
  BY DEF SettledIffResult
<1> DEFINE Good ==
      /\ page'[j][k].state = "succeeded" <=> result'[j][k] # NONE
      /\ result'[j][k] # NONE => result'[j][k] = source'[j][k[1]].sha
<1>0. /\ page \in [Jobs -> [Pages -> PageRow]]
      /\ \A i \in Jobs : page[i] \in [Pages -> PageRow]
      /\ \A i \in Jobs, m \in Pages : page[i][m] \in PageRow
      /\ result \in [Jobs -> [Pages -> OptionalDigest]]
      /\ \A i \in Jobs : result[i] \in [Pages -> OptionalDigest]
      /\ source \in [Jobs -> [Sources -> SourceRow]]
      /\ \A i \in Jobs : source[i] \in [Sources -> SourceRow]
      /\ \A i \in Jobs, s \in Sources : source[i][s] \in SourceRow
  BY DEF TypeOK
<1>p. k[1] \in Sources
  BY DEF Pages
<1>c. /\ page[j][k].state = "succeeded" <=> result[j][k] # NONE
      /\ result[j][k] # NONE => result[j][k] = source[j][k[1]].sha
  BY DEF SettledIffResult
<1>k. ASSUME page'[j][k].state = "succeeded" <=> page[j][k].state = "succeeded",
             result'[j][k] = result[j][k], source'[j][k[1]].sha = source[j][k[1]].sha
      PROVE  Good
  BY <1>c, <1>k
<1>1. ASSUME NEW o \in Owners, ActivateSupervisor(o)
      PROVE  Good
  <2>1. page'[j][k].state = "succeeded" <=> page[j][k].state = "succeeded"
    BY ZenonT(40), <1>0, <1>1 DEF ActivateSupervisor, PageRow
  <2> QED
    BY <2>1, <1>1, <1>k DEF ActivateSupervisor
<1>2. ASSUME NEW i \in Jobs, NEW g \in Gens, NEW o \in Owners, StartJob(i, g, o)
      PROVE  Good
  <2>1. page'[j][k].state = "succeeded" <=> page[j][k].state = "succeeded"
    <3>1. \A m \in Pages :
            [page[i][m] EXCEPT !.state = "pending", !.owner = NONE, !.gen = g + 1].state = "pending"
      BY <1>0 DEF PageRow
    <3>2. page' = [page EXCEPT ![i] = [m \in Pages |->
            IF page[i][m].state \in {"absent", "succeeded"} THEN page[i][m]
            ELSE [page[i][m] EXCEPT !.state = "pending", !.owner = NONE, !.gen = g + 1]]]
      BY <1>2 DEF StartJob
    <3> QED
      BY <1>0, <3>1, <3>2
  <2>2. result'[j][k] = result[j][k]
    BY <1>0, <1>2, <1>c DEF StartJob
  <2>3. source'[j][k[1]].sha = source[j][k[1]].sha
    <3>1. [source[j][k[1]] EXCEPT !.verified = NONE].sha = source[j][k[1]].sha
      BY <1>0, <1>p DEF SourceRow
    <3>2. source' = [source EXCEPT ![i] = [s \in Sources |-> [source[i][s] EXCEPT !.verified = NONE]]]
      BY <1>2 DEF StartJob, Unverified
    <3> QED
      BY <1>0, <1>p, <3>1, <3>2
  <2> QED
    BY <2>1, <2>2, <2>3, <1>k
<1>3. ASSUME NEW i \in Jobs, NEW g \in Gens, NEW o \in Owners, NEW cancelled \in BOOLEAN,
             FinishStop(i, g, o, cancelled)
      PROVE  Good
  <2>1. page'[j][k].state = "succeeded" <=> page[j][k].state = "succeeded"
    <3>1. \A m \in Pages : page[i][m].state = "processing" =>
            [page[i][m] EXCEPT !.state = "pending", !.owner = NONE].state = "pending"
      BY <1>0 DEF PageRow
    <3>2. page' = [page EXCEPT ![i] = [m \in Pages |->
            IF ClaimedBy(i, g, o, m)
            THEN [page[i][m] EXCEPT !.state = "pending", !.owner = NONE] ELSE page[i][m]]]
      BY <1>3 DEF FinishStop
    <3>3. \A m \in Pages : ClaimedBy(i, g, o, m) => page[i][m].state = "processing"
      BY DEF ClaimedBy
    <3> QED
      BY <1>0, <3>1, <3>2, <3>3
  <2> QED
    BY <2>1, <1>3, <1>k DEF FinishStop
<1>4. ASSUME NEW i \in Jobs, NEW g \in Gens, NEW o \in Owners, NEW s \in Sources,
             NEW d \in Digests, RegisterSource(i, g, o, s, d)
      PROVE  Good
  <2>1. page'[j][k].state = "succeeded" <=> page[j][k].state = "succeeded"
    BY <1>0, <1>4 DEF RegisterSource, PageRow
  <2>2. CASE source'[j][k[1]] = source[j][k[1]]
    BY <2>1, <2>2, <1>4, <1>k DEF RegisterSource
  <2>3. CASE i = j /\ s = k[1]
    <3>1. result[j][k] = NONE
      BY <1>0, <1>c, <1>4, <2>3, NoneAssumption DEF RegisterSource
    <3> QED
      BY <3>1, <2>1, <1>4, <1>c DEF RegisterSource
  <2>4. CASE ~(i = j /\ s = k[1])
    <3>1. source'[j][k[1]] = source[j][k[1]]
      BY <1>0, <1>p, <1>4, <2>4 DEF RegisterSource
    <3> QED
      BY <3>1, <2>2
  <2> QED
    BY <2>3, <2>4
<1>5. ASSUME NEW i \in Jobs, NEW s \in Sources, SourceOnly(i, s)
      PROVE  Good
  BY <1>5, <1>p, <1>k, IdentityKept
<1>6. ASSUME NEW i \in Jobs, NEW g \in Gens, NEW o \in Owners, NEW m \in Pages,
             BeginPage(i, g, o, m)
      PROVE  Good
  <2>1. CASE i = j /\ m = k
    <3>1. page'[j][k].state = "processing" /\ result'[j][k] = NONE
      BY <1>0, <1>6, <2>1 DEF BeginPage
    <3> QED
      BY <3>1
  <2>2. CASE ~(i = j /\ m = k)
    <3>1. page'[j][k] = page[j][k] /\ result'[j][k] = result[j][k]
      BY <1>0, <1>6, <2>2 DEF BeginPage
    <3> QED
      BY <1>6, <3>1, <1>k DEF BeginPage
  <2> QED
    BY <2>1, <2>2
<1>7. ASSUME NEW i \in Jobs, NEW g \in Gens, NEW o \in Owners, NEW m \in Pages,
             NEW attempt \in 1 .. MaxAttempts, NEW d \in Digests,
             CommitPage(i, g, o, m, attempt, d, processed[i][m[1]] + 1)
      PROVE  Good
  <2>1. CASE i = j /\ m = k
    <3>1. page'[j][k].state = "succeeded" /\ result'[j][k] = d
      BY <1>0, <1>7, <2>1 DEF CommitPage, PageRow
    <3>2. source'[j][k[1]].sha = d /\ d # NONE
      BY <1>7, <2>1, NoneAssumption DEF CommitPage, BoundTo
    <3> QED
      BY <3>1, <3>2
  <2>2. CASE ~(i = j /\ m = k)
    <3>1. page'[j][k] = page[j][k] /\ result'[j][k] = result[j][k]
      BY <1>0, <1>7, <2>2 DEF CommitPage
    <3> QED
      BY <1>7, <3>1, <1>k DEF CommitPage
  <2> QED
    BY <2>1, <2>2
<1>8. ASSUME NEW i \in Jobs, NEW g \in Gens, NEW o \in Owners, NEW m \in Pages,
             NEW attempt \in 1 .. MaxAttempts, NEW work \in {0, 1},
             FailPage(i, g, o, m, attempt, processed[i][m[1]] + work)
      PROVE  Good
  <2>1. CASE i = j /\ m = k
    <3>1. page'[j][k].state = "failed" /\ result'[j][k] = NONE
      BY <1>0, <1>8, <2>1 DEF FailPage, PageRow
    <3> QED
      BY <3>1
  <2>2. CASE ~(i = j /\ m = k)
    <3>1. page'[j][k] = page[j][k] /\ result'[j][k] = result[j][k]
      BY <1>0, <1>8, <2>2 DEF FailPage
    <3> QED
      BY <1>8, <3>1, <1>k DEF FailPage
  <2> QED
    BY <2>1, <2>2
<1>9. ASSUME NEW i \in Jobs, DeleteJob(i)
      PROVE  Good
  <2>1. CASE i = j
    <3>1. page'[j][k].state = "absent" /\ result'[j][k] = NONE
      BY <1>0, <1>9, <2>1 DEF DeleteJob, NoPage
    <3> QED
      BY <3>1
  <2>2. CASE i # j
    <3>1. page'[j] = page[j] /\ result'[j] = result[j] /\ source'[j] = source[j]
      BY <1>0, <1>9, <2>2 DEF DeleteJob
    <3> QED
      BY <3>1, <1>k
  <2> QED
    BY <2>1, <2>2
<1>10. ASSUME UNCHANGED <<page, result, source>>
      PROVE  Good
  BY <1>10, <1>k
<1>a. ASSUME HostStep PROVE Good
  BY <1>a, <1>1, <1>2, <1>3 DEF HostStep
<1>b. ASSUME WorkerStep PROVE Good
  <2>1. ASSUME NEW i \in Jobs, NEW g \in Gens, NEW o \in Owners,
               \/ \E move \in WorkerMoves : Transition(i, g, o, move[1], move[2])
               \/ PublishSnapshot(i, g, o)
        PROVE  Good
    BY <2>1, <1>10 DEF Transition, PublishSnapshot
  <2> QED
    BY <1>b, <1>4, <1>5, <1>6, <1>7, <1>8, <2>1 DEF WorkerStep, SourceOnly
<1>d. ASSUME ClientStep PROVE Good
  <2>1. ASSUME NEW i \in Jobs,
               \/ CreateJob(i) \/ CloseGate(i)
               \/ \E g \in Gens, c \in CommandIds, action \in Actions, to \in RowStates :
                    Control(i, g, c, action, to)
        PROVE  Good
    BY <2>1, <1>10 DEF CreateJob, CloseGate, Control
  <2> QED
    BY <1>d, <1>5, <1>9, <2>1 DEF ClientStep, SourceOnly
<1> QED
  BY <1>a, <1>b, <1>d, <1>10 DEF Next, storeVars

\* Transactions that write neither a source nor whether a page exists.
LEMMA PresenceKept ==
    ASSUME TypeOK, NEW i \in Jobs, NEW j \in Jobs, NEW k \in Pages,
           NEW g \in Gens, NEW o \in Owners
    PROVE  /\ ActivateSupervisor(o) => (page'[j][k].state = "absent" <=> page[j][k].state = "absent")
           /\ StartJob(i, g, o) => (page'[j][k].state = "absent" <=> page[j][k].state = "absent")
           /\ \A cancelled \in BOOLEAN : FinishStop(i, g, o, cancelled) =>
                (page'[j][k].state = "absent" <=> page[j][k].state = "absent")
           /\ \A m \in Pages : BeginPage(i, g, o, m) =>
                (page'[j][k].state = "absent" <=> page[j][k].state = "absent")
           /\ \A m \in Pages, attempt \in 1 .. MaxAttempts, d \in Digests :
                CommitPage(i, g, o, m, attempt, d, processed[i][m[1]] + 1) =>
                (page'[j][k].state = "absent" <=> page[j][k].state = "absent")
           /\ \A m \in Pages, attempt \in 1 .. MaxAttempts, work \in {0, 1} :
                FailPage(i, g, o, m, attempt, processed[i][m[1]] + work) =>
                (page'[j][k].state = "absent" <=> page[j][k].state = "absent")
<1> DEFINE Same == page'[j][k].state = "absent" <=> page[j][k].state = "absent"
<1>0. /\ page \in [Jobs -> [Pages -> PageRow]]
      /\ \A l \in Jobs : page[l] \in [Pages -> PageRow]
      /\ \A l \in Jobs, m \in Pages : page[l][m] \in PageRow
  BY DEF TypeOK
<1>p. \A l \in Jobs, m \in Pages :
        /\ [page[l][m] EXCEPT !.state = "pending", !.owner = NONE].state = "pending"
        /\ [page[l][m] EXCEPT !.state = "pending", !.owner = NONE, !.gen = g + 1].state = "pending"
        /\ [page[l][m] EXCEPT !.state = "succeeded", !.owner = NONE].state = "succeeded"
        /\ [page[l][m] EXCEPT !.state = "failed", !.owner = NONE].state = "failed"
  BY <1>0 DEF PageRow
<1>1. ASSUME ActivateSupervisor(o) PROVE Same
  BY <1>0, <1>p, <1>1 DEF ActivateSupervisor
<1>2. ASSUME StartJob(i, g, o) PROVE Same
  <2>1. page' = [page EXCEPT ![i] = [m \in Pages |->
            IF page[i][m].state \in {"absent", "succeeded"} THEN page[i][m]
            ELSE [page[i][m] EXCEPT !.state = "pending", !.owner = NONE, !.gen = g + 1]]]
    BY <1>2 DEF StartJob
  <2> QED
    BY <1>0, <1>p, <2>1
<1>3. ASSUME NEW cancelled \in BOOLEAN, FinishStop(i, g, o, cancelled) PROVE Same
  <2>1. page' = [page EXCEPT ![i] = [m \in Pages |->
            IF ClaimedBy(i, g, o, m)
            THEN [page[i][m] EXCEPT !.state = "pending", !.owner = NONE] ELSE page[i][m]]]
    BY <1>3 DEF FinishStop
  <2>2. \A m \in Pages : ClaimedBy(i, g, o, m) => page[i][m].state = "processing"
    BY DEF ClaimedBy
  <2> QED
    BY <1>0, <1>p, <2>1, <2>2
<1>4. ASSUME NEW m \in Pages, BeginPage(i, g, o, m) PROVE Same
  BY <1>0, <1>4 DEF BeginPage, Claimable
<1>5. ASSUME NEW m \in Pages, page[i][m].state = "processing",
             \/ page' = [page EXCEPT ![i][m].state = "succeeded", ![i][m].owner = NONE]
             \/ page' = [page EXCEPT ![i][m].state = "failed", ![i][m].owner = NONE]
      PROVE  Same
  <2>1. PICK st \in {"succeeded", "failed"} :
          page' = [page EXCEPT ![i] = [page[i] EXCEPT
            ![m] = [page[i][m] EXCEPT !.state = st, !.owner = NONE]]]
    BY <1>0, <1>5
  <2>2. [page[i][m] EXCEPT !.state = st, !.owner = NONE].state # "absent"
    BY <1>p
  <2> QED
    BY <1>0, <1>5, <2>1, <2>2
<1>6. ASSUME NEW m \in Pages, NEW attempt \in 1 .. MaxAttempts, NEW d \in Digests,
             CommitPage(i, g, o, m, attempt, d, processed[i][m[1]] + 1)
      PROVE  Same
  BY <1>5, <1>6 DEF CommitPage, HoldsClaim, ClaimedBy
<1>7. ASSUME NEW m \in Pages, NEW attempt \in 1 .. MaxAttempts, NEW work \in {0, 1},
             FailPage(i, g, o, m, attempt, processed[i][m[1]] + work)
      PROVE  Same
  BY <1>5, <1>7 DEF FailPage, HoldsClaim, ClaimedBy
<1> HIDE DEF Same
<1>8. /\ ActivateSupervisor(o) => Same
      /\ StartJob(i, g, o) => Same
      /\ \A cancelled \in BOOLEAN : FinishStop(i, g, o, cancelled) => Same
  BY <1>1, <1>2, <1>3
<1>9. /\ \A m \in Pages : BeginPage(i, g, o, m) => Same
      /\ \A m \in Pages, attempt \in 1 .. MaxAttempts, d \in Digests :
           CommitPage(i, g, o, m, attempt, d, processed[i][m[1]] + 1) => Same
      /\ \A m \in Pages, attempt \in 1 .. MaxAttempts, work \in {0, 1} :
           FailPage(i, g, o, m, attempt, processed[i][m[1]] + work) => Same
  BY <1>4, <1>6, <1>7
<1> QED
  BY <1>8, <1>9, Zenon DEF Same

\* The identity of a source changes only when it is first registered and when
\* its job is deleted.
LEMMA IdentityStep ==
    ASSUME TypeOK, [Next]_storeVars, NEW j \in Jobs, NEW s \in Sources
    PROVE  \/ source'[j][s].sha = source[j][s].sha
           \/ \E g \in Gens, o \in Owners, d \in Digests : RegisterSource(j, g, o, s, d)
           \/ DeleteJob(j)
<1> DEFINE Same == source'[j][s].sha = source[j][s].sha
<1>0. /\ source \in [Jobs -> [Sources -> SourceRow]]
      /\ \A i \in Jobs : source[i] \in [Sources -> SourceRow]
      /\ \A i \in Jobs, t \in Sources : source[i][t] \in SourceRow
  BY DEF TypeOK
<1>1. ASSUME NEW i \in Jobs, NEW g \in Gens, NEW o \in Owners, StartJob(i, g, o)
      PROVE  Same
  <2>1. [source[j][s] EXCEPT !.verified = NONE].sha = source[j][s].sha
    BY <1>0 DEF SourceRow
  <2>2. source' = [source EXCEPT ![i] = [t \in Sources |-> [source[i][t] EXCEPT !.verified = NONE]]]
    BY <1>1 DEF StartJob, Unverified
  <2> QED
    BY <1>0, <2>1, <2>2
<1>2. ASSUME NEW i \in Jobs, NEW g \in Gens, NEW o \in Owners, NEW t \in Sources,
             NEW d \in Digests, RegisterSource(i, g, o, t, d), ~(i = j /\ t = s)
      PROVE  Same
  BY <1>0, <1>2 DEF RegisterSource
<1>3. ASSUME NEW i \in Jobs, DeleteJob(i), i # j
      PROVE  Same
  BY <1>0, <1>3 DEF DeleteJob
<1>4. ASSUME NEW i \in Jobs, NEW t \in Sources, SourceOnly(i, t)
      PROVE  Same
  BY <1>4, IdentityKept
<1>5. ASSUME UNCHANGED source PROVE Same
  BY <1>5
<1>a. ASSUME HostStep PROVE Same
  <2>1. ASSUME NEW o \in Owners, ActivateSupervisor(o) PROVE Same
    BY <2>1, <1>5 DEF ActivateSupervisor
  <2>2. ASSUME NEW i \in Jobs, NEW g \in Gens, NEW o \in Owners, NEW cancelled \in BOOLEAN,
               FinishStop(i, g, o, cancelled)
        PROVE  Same
    BY <2>2, <1>5 DEF FinishStop
  <2> QED
    BY <1>a, <1>1, <2>1, <2>2 DEF HostStep
<1>b. ASSUME WorkerStep
      PROVE  Same \/ \E g \in Gens, o \in Owners, d \in Digests : RegisterSource(j, g, o, s, d)
  <2>1. ASSUME NEW i \in Jobs, NEW g \in Gens, NEW o \in Owners,
               \/ \E move \in WorkerMoves : Transition(i, g, o, move[1], move[2])
               \/ \E k \in Pages : BeginPage(i, g, o, k)
               \/ PublishSnapshot(i, g, o)
        PROVE  Same
    BY <2>1, <1>5 DEF Transition, BeginPage, PublishSnapshot
  <2>2. ASSUME NEW i \in Jobs, NEW g \in Gens, NEW o \in Owners, NEW k \in Pages,
               NEW attempt \in 1 .. MaxAttempts,
               \/ \E d \in Digests : CommitPage(i, g, o, k, attempt, d, processed[i][k[1]] + 1)
               \/ \E work \in {0, 1} : FailPage(i, g, o, k, attempt, processed[i][k[1]] + work)
        PROVE  Same
    BY <2>2, <1>5 DEF CommitPage, FailPage
  <2> QED
    BY <1>b, <1>2, <1>4, <2>1, <2>2 DEF WorkerStep, SourceOnly
<1>c. ASSUME ClientStep PROVE Same \/ DeleteJob(j)
  <2>1. ASSUME NEW i \in Jobs,
               \/ CreateJob(i) \/ CloseGate(i)
               \/ \E g \in Gens, c \in CommandIds, action \in Actions, to \in RowStates :
                    Control(i, g, c, action, to)
        PROVE  Same
    BY <2>1, <1>5 DEF CreateJob, CloseGate, Control
  <2> QED
    BY <1>c, <1>3, <1>4, <2>1 DEF ClientStep, SourceOnly
<1> QED
  BY <1>a, <1>b, <1>c, <1>5 DEF Next, storeVars

\* Pages appear with the identity of their source and go with their job.
LEMMA PagesMatchStep == TypeOK /\ PagesMatchDocument /\ [Next]_storeVars => PagesMatchDocument'
<1> SUFFICES ASSUME TypeOK, PagesMatchDocument, [Next]_storeVars,
                    NEW j \in Jobs, NEW k \in Pages
             PROVE  page'[j][k].state # "absent" <=>
                      source'[j][k[1]].sha # NONE /\ k[2] \in PagesOf[source'[j][k[1]].sha]
  BY DEF PagesMatchDocument
<1> DEFINE Good == page'[j][k].state # "absent" <=>
                     source'[j][k[1]].sha # NONE /\ k[2] \in PagesOf[source'[j][k[1]].sha]
<1>0. /\ page \in [Jobs -> [Pages -> PageRow]]
      /\ \A i \in Jobs : page[i] \in [Pages -> PageRow]
      /\ source \in [Jobs -> [Sources -> SourceRow]]
      /\ \A i \in Jobs : source[i] \in [Sources -> SourceRow]
  BY DEF TypeOK
<1>p. k[1] \in Sources
  BY DEF Pages
<1>c. page[j][k].state # "absent" <=>
        source[j][k[1]].sha # NONE /\ k[2] \in PagesOf[source[j][k[1]].sha]
  BY DEF PagesMatchDocument
<1>1. ASSUME page'[j][k].state = "absent" <=> page[j][k].state = "absent",
             source'[j][k[1]].sha = source[j][k[1]].sha
      PROVE  Good
  BY <1>1, <1>c
<1>2. ASSUME NEW g \in Gens, NEW o \in Owners, NEW d \in Digests, RegisterSource(j, g, o, k[1], d)
      PROVE  Good
  <2>1. source'[j][k[1]].sha = d /\ d # NONE
    BY <1>0, <1>p, <1>2, NoneAssumption DEF RegisterSource
  <2>2. page[j][k].state = "absent"
    BY <1>c, <1>2 DEF RegisterSource
  <2>3. page'[j][k] = IF k \in PageKeys(k[1], d)
          THEN [state |-> "pending", owner |-> NONE, gen |-> job[j].gen, attempt |-> 0]
          ELSE page[j][k]
    BY <1>0, <1>2, <2>2 DEF RegisterSource
  <2>4. k \in PageKeys(k[1], d) <=> k[2] \in PagesOf[d]
    BY DEF PageKeys
  <2> QED
    BY <2>1, <2>2, <2>3, <2>4
<1>3. ASSUME DeleteJob(j) PROVE Good
  <2>1. page'[j][k].state = "absent"
    BY <1>0, <1>3 DEF DeleteJob, NoPage
  <2>2. source'[j][k[1]].sha = NONE
    BY <1>0, <1>p, <1>3 DEF DeleteJob, NewSource
  <2> QED
    BY <2>1, <2>2
<1>4. CASE \E g \in Gens, o \in Owners, d \in Digests : RegisterSource(j, g, o, k[1], d)
  BY <1>2, <1>4
<1>5. CASE /\ source'[j][k[1]].sha = source[j][k[1]].sha
           /\ ~\E g \in Gens, o \in Owners, d \in Digests : RegisterSource(j, g, o, k[1], d)
           /\ ~DeleteJob(j)
  <2> DEFINE Same == page'[j][k].state = "absent" <=> page[j][k].state = "absent"
  <2>1. ASSUME NEW i \in Jobs, NEW g \in Gens, NEW o \in Owners, NEW s \in Sources,
               NEW d \in Digests, RegisterSource(i, g, o, s, d)
        PROVE  Same
    <3>1. ~(i = j /\ s = k[1])
      BY <1>5, <2>1
    <3>2. k \in PageKeys(s, d) => s = k[1]
      BY DEF PageKeys
    <3> QED
      BY <1>0, <2>1, <3>1, <3>2 DEF RegisterSource
  <2>2. ASSUME NEW i \in Jobs, DeleteJob(i) PROVE Same
    <3>1. i # j
      BY <1>5, <2>2
    <3>2. page'[j] = page[j]
      BY <1>0, <2>2, <3>1 DEF DeleteJob
    <3> QED
      BY <3>2
  <2>3. ASSUME NEW i \in Jobs, NEW s \in Sources, SourceOnly(i, s) PROVE Same
    BY <2>3, IdentityKept
  <2>4. ASSUME UNCHANGED page PROVE Same
    BY <2>4
  <2> HIDE DEF Same
  <2>5. ASSUME NEW i \in Jobs, NEW g \in Gens, NEW o \in Owners
        PROVE  /\ ActivateSupervisor(o) => Same
               /\ StartJob(i, g, o) => Same
               /\ \A cancelled \in BOOLEAN : FinishStop(i, g, o, cancelled) => Same
               /\ \A m \in Pages : BeginPage(i, g, o, m) => Same
               /\ \A m \in Pages, attempt \in 1 .. MaxAttempts, d \in Digests :
                    CommitPage(i, g, o, m, attempt, d, processed[i][m[1]] + 1) => Same
               /\ \A m \in Pages, attempt \in 1 .. MaxAttempts, work \in {0, 1} :
                    FailPage(i, g, o, m, attempt, processed[i][m[1]] + work) => Same
    BY PresenceKept, Zenon DEF Same
  <2>a. ASSUME HostStep PROVE Same
    <3>1. ASSUME NEW o \in Owners, ActivateSupervisor(o) PROVE Same
      <4>1. 0 \in Gens
        BY BoundsAssumption DEF Gens
      <4> QED
        BY <3>1, <4>1, <2>5
    <3> QED
      BY <2>a, <2>5, <3>1 DEF HostStep
  <2>b. ASSUME WorkerStep PROVE Same
    <3>1. ASSUME NEW i \in Jobs, NEW g \in Gens, NEW o \in Owners,
                 \/ \E move \in WorkerMoves : Transition(i, g, o, move[1], move[2])
                 \/ PublishSnapshot(i, g, o)
          PROVE  Same
      BY <3>1, <2>4 DEF Transition, PublishSnapshot
    <3> QED
      BY <2>b, <2>1, <2>3, <2>5, <3>1 DEF WorkerStep, SourceOnly
  <2>c. ASSUME ClientStep PROVE Same
    <3>1. ASSUME NEW i \in Jobs,
                 \/ CreateJob(i) \/ CloseGate(i)
                 \/ \E g \in Gens, c \in CommandIds, action \in Actions, to \in RowStates :
                      Control(i, g, c, action, to)
          PROVE  Same
      BY <3>1, <2>4 DEF CreateJob, CloseGate, Control
    <3> QED
      BY <2>c, <2>2, <2>3, <3>1 DEF ClientStep, SourceOnly
  <2>6. Same
    BY <2>a, <2>b, <2>c, <2>4 DEF Next, storeVars
  <2> QED
    BY <1>1, <1>5, <2>6 DEF Same
<1> QED
  BY <1>3, <1>4, <1>5, <1>p, IdentityStep

\* A verification is withdrawn by whatever changes the source or the generation.
LEMMA VerificationStep == TypeOK /\ VerificationIsCurrent /\ [Next]_storeVars => VerificationIsCurrent'
<1> SUFFICES ASSUME TypeOK, VerificationIsCurrent, [Next]_storeVars,
                    NEW j \in Jobs, NEW s \in Sources, source'[j][s].verified # NONE
             PROVE  /\ source'[j][s].verified = job'[j].gen
                    /\ source'[j][s].state = "verified"
                    /\ source'[j][s].sha # NONE
  BY DEF VerificationIsCurrent
<1> DEFINE Good ==
      /\ source'[j][s].verified = job'[j].gen
      /\ source'[j][s].state = "verified"
      /\ source'[j][s].sha # NONE
<1>0. /\ job \in [Jobs -> JobRow] /\ \A i \in Jobs : job[i] \in JobRow
      /\ source \in [Jobs -> [Sources -> SourceRow]]
      /\ \A i \in Jobs : source[i] \in [Sources -> SourceRow]
      /\ \A i \in Jobs, t \in Sources : source[i][t] \in SourceRow
  BY DEF TypeOK
<1>c. source[j][s].verified # NONE =>
        /\ source[j][s].verified = job[j].gen
        /\ source[j][s].state = "verified"
        /\ source[j][s].sha # NONE
  BY DEF VerificationIsCurrent
<1>1. ASSUME source'[j][s] = source[j][s], job'[j].gen = job[j].gen
      PROVE  Good
  BY <1>1, <1>c
<1>2. ASSUME NEW i \in Jobs, NEW t \in Sources, NEW st \in SourceStates, NEW v \in OptionalGen,
             source' = [source EXCEPT ![i][t].state = st, ![i][t].verified = v],
             UNCHANGED job,
             v # NONE => st = "verified" /\ v = job[i].gen /\ source[i][t].sha # NONE
      PROVE  Good
  <2>1. CASE i = j /\ t = s
    <3>1. source'[j][s] = [source[j][s] EXCEPT !.state = st, !.verified = v]
      BY <1>0, <1>2, <2>1
    <3> QED
      BY <1>0, <1>2, <2>1, <3>1 DEF SourceRow
  <2>2. CASE ~(i = j /\ t = s)
    <3>1. source'[j][s] = source[j][s]
      BY <1>0, <1>2, <2>2
    <3> QED
      BY <1>1, <1>2, <3>1
  <2> QED
    BY <2>1, <2>2
<1>3. NONE \in OptionalGen /\ \A g \in Gens : g \in OptionalGen
  BY BoundsAssumption DEF OptionalGen, Gens
<1>4. ASSUME NEW o \in Owners, ActivateSupervisor(o)
      PROVE  Good
  <2>1. job'[j].gen = job[j].gen
    BY <1>0, <1>4 DEF ActivateSupervisor, JobRow
  <2> QED
    BY <1>1, <1>4, <2>1 DEF ActivateSupervisor
<1>5. ASSUME NEW i \in Jobs, NEW g \in Gens, NEW o \in Owners, StartJob(i, g, o)
      PROVE  Good
  <2>1. source' = [source EXCEPT ![i] = [t \in Sources |-> [source[i][t] EXCEPT !.verified = NONE]]]
    BY <1>5 DEF StartJob, Unverified
  <2>2. CASE i = j
    <3>1. source'[j][s] = [source[j][s] EXCEPT !.verified = NONE]
      BY <1>0, <2>1, <2>2
    <3> QED
      BY <1>0, <3>1 DEF SourceRow
  <2>3. CASE i # j
    <3>1. source'[j] = source[j] /\ job'[j] = job[j]
      BY <1>0, <1>5, <2>1, <2>3 DEF StartJob
    <3> QED
      BY <1>1, <3>1
  <2> QED
    BY <2>2, <2>3
<1>6. ASSUME NEW i \in Jobs, NEW g \in Gens, NEW o \in Owners, NEW t \in Sources,
             NEW d \in Digests, RegisterSource(i, g, o, t, d)
      PROVE  Good
  <2>1. CASE i = j /\ t = s
    <3>1. source'[j][s] = [state |-> "registered", sha |-> d, verified |-> NONE]
      BY <1>0, <1>6, <2>1 DEF RegisterSource
    <3> QED
      BY <3>1
  <2>2. CASE ~(i = j /\ t = s)
    <3>1. source'[j][s] = source[j][s]
      BY <1>0, <1>6, <2>2 DEF RegisterSource
    <3> QED
      BY <1>1, <1>6, <3>1 DEF RegisterSource
  <2> QED
    BY <2>1, <2>2
<1>7. ASSUME NEW i \in Jobs, NEW t \in Sources, SourceOnly(i, t)
      PROVE  Good
  <2>1. ASSUME NEW g \in Gens, NEW o \in Owners, NEW d \in Digests,
               ReregisterSource(i, g, o, t, d)
        PROVE  Good
    BY <1>2, <1>3, <2>1 DEF ReregisterSource, SourceStates
  <2>2. ASSUME NEW g \in Gens, NEW o \in Owners, NEW d \in Digests, VerifySource(i, g, o, t, d)
        PROVE  Good
    <3>1. g = job[i].gen /\ source[i][t].sha # NONE
      BY <2>2, NoneAssumption DEF VerifySource, Owns
    <3>2. /\ source' = [source EXCEPT ![i][t].state = "verified", ![i][t].verified = g]
          /\ UNCHANGED job
      BY <2>2 DEF VerifySource
    <3>3. "verified" \in SourceStates
      BY DEF SourceStates
    <3> QED
      BY <1>2, <1>3, <3>1, <3>2, <3>3
  <2>3. ASSUME NEW g \in Gens, NEW o \in Owners, NEW outcome \in {"failed", "blocked"},
               FailSource(i, g, o, t, outcome)
        PROVE  Good
    BY <1>2, <1>3, <2>3 DEF FailSource, SourceStates
  <2>4. ASSUME NEW d \in Digests, RelocateSource(i, t, d)
        PROVE  Good
    BY <1>2, <1>3, <2>4 DEF RelocateSource, SourceStates
  <2> QED
    BY <1>7, <2>1, <2>2, <2>3, <2>4 DEF SourceOnly
<1>8. ASSUME NEW i \in Jobs, DeleteJob(i)
      PROVE  Good
  <2>1. CASE i = j
    <3>1. source'[j][s] = NewSource
      BY <1>0, <1>8, <2>1 DEF DeleteJob
    <3> QED
      BY <3>1 DEF NewSource
  <2>2. CASE i # j
    <3>1. source'[j] = source[j] /\ job'[j] = job[j]
      BY <1>0, <1>8, <2>2 DEF DeleteJob
    <3> QED
      BY <1>1, <3>1
  <2> QED
    BY <2>1, <2>2
<1>9. ASSUME UNCHANGED source, job'[j].gen = job[j].gen
      PROVE  Good
  BY <1>1, <1>9
<1>a. ASSUME HostStep PROVE Good
  <2>1. ASSUME NEW i \in Jobs, NEW g \in Gens, NEW o \in Owners, NEW cancelled \in BOOLEAN,
               FinishStop(i, g, o, cancelled)
        PROVE  Good
    BY <1>0, <1>9, <2>1 DEF FinishStop, JobRow
  <2> QED
    BY <1>a, <1>4, <1>5, <2>1 DEF HostStep
<1>b. ASSUME WorkerStep PROVE Good
  <2>1. ASSUME NEW i \in Jobs, NEW g \in Gens, NEW o \in Owners, NEW move \in WorkerMoves,
               Transition(i, g, o, move[1], move[2])
        PROVE  Good
    BY <1>0, <1>9, <2>1 DEF Transition, JobRow
  <2>2. ASSUME NEW i \in Jobs, NEW g \in Gens, NEW o \in Owners, PublishSnapshot(i, g, o)
        PROVE  Good
    BY <1>0, <1>9, <2>2 DEF PublishSnapshot, JobRow
  <2>3. ASSUME NEW i \in Jobs, NEW g \in Gens, NEW o \in Owners, NEW k \in Pages,
               BeginPage(i, g, o, k)
        PROVE  Good
    BY <1>9, <2>3 DEF BeginPage
  <2>4. ASSUME NEW i \in Jobs, NEW g \in Gens, NEW o \in Owners, NEW k \in Pages,
               NEW attempt \in 1 .. MaxAttempts, NEW d \in Digests,
               CommitPage(i, g, o, k, attempt, d, processed[i][k[1]] + 1)
        PROVE  Good
    BY <1>0, <1>9, <2>4 DEF CommitPage, JobRow
  <2>5. ASSUME NEW i \in Jobs, NEW g \in Gens, NEW o \in Owners, NEW k \in Pages,
               NEW attempt \in 1 .. MaxAttempts, NEW work \in {0, 1},
               FailPage(i, g, o, k, attempt, processed[i][k[1]] + work)
        PROVE  Good
    BY <1>9, <2>5 DEF FailPage
  <2> QED
    BY <1>b, <1>6, <1>7, <2>1, <2>2, <2>3, <2>4, <2>5 DEF WorkerStep, SourceOnly
<1>d. ASSUME ClientStep PROVE Good
  <2>1. ASSUME NEW i \in Jobs, CreateJob(i)
        PROVE  Good
    BY <1>0, <1>9, <2>1 DEF CreateJob, JobRow
  <2>2. ASSUME NEW i \in Jobs, CloseGate(i)
        PROVE  Good
    BY <1>0, <1>9, <2>2 DEF CloseGate, JobRow
  <2>3. ASSUME NEW i \in Jobs, NEW g \in Gens, NEW c \in CommandIds, NEW action \in Actions,
               NEW to \in RowStates, Control(i, g, c, action, to)
        PROVE  Good
    BY <1>0, <1>9, <2>3 DEF Control, JobRow
  <2> QED
    BY <1>d, <1>7, <1>8, <2>1, <2>2, <2>3 DEF ClientStep, SourceOnly
<1> QED
  BY <1>a, <1>b, <1>d, <1>9 DEF Next, storeVars

\* A publication copies a complete document, and nothing it copied changes later.
LEMMA PublishedStep ==
    TypeOK /\ PagesMatchDocument /\ PublishedIsComplete /\ [Next]_storeVars => PublishedIsComplete'
<1> SUFFICES ASSUME TypeOK, PagesMatchDocument, PublishedIsComplete, [Next]_storeVars,
                    NEW j \in Jobs
             PROVE  /\ job'[j].state \in PublishedStates <=> job'[j].rev # NONE
                    /\ job'[j].rev # NONE <=> snapshot'[j] # NONE
                    /\ snapshot'[j] # NONE =>
                        /\ snapshot'[j].gen = job'[j].gen /\ job'[j].rev = job'[j].gen
                        /\ \A k \in Pages :
                            /\ snapshot'[j].shas[k[1]] = source'[j][k[1]].sha
                            /\ k[2] \in PagesOf[source'[j][k[1]].sha] =>
                                 snapshot'[j].items[k] = source'[j][k[1]].sha
  BY DEF PublishedIsComplete
<1> DEFINE Good ==
      /\ job'[j].state \in PublishedStates <=> job'[j].rev # NONE
      /\ job'[j].rev # NONE <=> snapshot'[j] # NONE
      /\ snapshot'[j] # NONE =>
          /\ snapshot'[j].gen = job'[j].gen /\ job'[j].rev = job'[j].gen
          /\ \A k \in Pages :
              /\ snapshot'[j].shas[k[1]] = source'[j][k[1]].sha
              /\ k[2] \in PagesOf[source'[j][k[1]].sha] =>
                   snapshot'[j].items[k] = source'[j][k[1]].sha
<1>0. /\ job \in [Jobs -> JobRow] /\ \A i \in Jobs : job[i] \in JobRow
      /\ source \in [Jobs -> [Sources -> SourceRow]]
      /\ \A i \in Jobs : source[i] \in [Sources -> SourceRow]
      /\ snapshot \in [Jobs -> Snapshot \cup {NONE}]
      /\ result \in [Jobs -> [Pages -> OptionalDigest]]
  BY DEF TypeOK
<1>s. \A i \in Jobs, s \in Sources : source[i][s].sha \in OptionalDigest
  BY DEF TypeOK, SourceRow
<1>p. \A k \in Pages : k[1] \in Sources
  BY DEF Pages
<1>c. /\ job[j].state \in PublishedStates <=> job[j].rev # NONE
      /\ job[j].rev # NONE <=> snapshot[j] # NONE
      /\ snapshot[j] # NONE =>
          /\ snapshot[j].gen = job[j].gen /\ job[j].rev = job[j].gen
          /\ \A k \in Pages :
              /\ snapshot[j].shas[k[1]] = source[j][k[1]].sha
              /\ k[2] \in PagesOf[source[j][k[1]].sha] =>
                   snapshot[j].items[k] = source[j][k[1]].sha
  BY DEF PublishedIsComplete
\* The job is not published, before or after the step.
<1>u. ASSUME job[j].state \notin PublishedStates, job'[j].state \notin PublishedStates,
             job'[j].rev \in {job[j].rev, NONE}, snapshot'[j] = snapshot[j]
      PROVE  Good
  BY <1>c, <1>u
\* The step changes nothing the snapshot is compared with.
<1>k. ASSUME job'[j].state \in PublishedStates <=> job[j].state \in PublishedStates,
             job'[j].rev = job[j].rev, job'[j].gen = job[j].gen, snapshot'[j] = snapshot[j],
             \A s \in Sources : source'[j][s].sha = source[j][s].sha
      PROVE  Good
  BY <1>c, <1>p, <1>k
<1>e. ASSUME job'[j] = job[j], snapshot'[j] = snapshot[j], source'[j] = source[j]
      PROVE  Good
  BY <1>e, <1>k
<1>1. ASSUME NEW o \in Owners, ActivateSupervisor(o)
      PROVE  Good
  <2>1. CASE job'[j] = job[j]
    BY <1>1, <1>e, <2>1 DEF ActivateSupervisor
  <2>2. CASE job'[j] # job[j]
    <3>1. Active(j) /\ job'[j] = [job[j] EXCEPT !.state = "interrupted", !.owner = NONE]
      BY <1>1, <2>2 DEF ActivateSupervisor, Abandoned
    <3>2. job'[j].state = "interrupted" /\ job'[j].rev = job[j].rev
      BY <1>0, <3>1 DEF JobRow
    <3> QED
      BY <1>1, <1>u, <3>1, <3>2 DEF ActivateSupervisor, Active
  <2> QED
    BY <2>1, <2>2
<1>2. ASSUME NEW i \in Jobs, NEW g \in Gens, NEW o \in Owners, StartJob(i, g, o)
      PROVE  Good
  <2>1. CASE i = j
    <3>1. job'[j] = [state |-> "validating", gen |-> g + 1, owner |-> o, rev |-> NONE, deleting |-> FALSE]
      BY <1>0, <1>2, <2>1 DEF StartJob
    <3>2. job[j].state \in StartableStates /\ snapshot'[j] = snapshot[j]
      BY <1>2, <2>1 DEF StartJob, Startable
    <3> QED
      BY <1>u, <3>1, <3>2
  <2>2. CASE i # j
    BY <1>0, <1>2, <1>e, <2>2 DEF StartJob
  <2> QED
    BY <2>1, <2>2
<1>3. ASSUME NEW i \in Jobs, NEW g \in Gens, NEW o \in Owners, NEW cancelled \in BOOLEAN,
             FinishStop(i, g, o, cancelled)
      PROVE  Good
  <2>1. CASE i = j
    <3>1. job'[j].state \in {"cancelled", "interrupted"} /\ job'[j].rev = job[j].rev
      BY <1>0, <1>3, <2>1 DEF FinishStop, StopState, JobRow
    <3> QED
      BY <1>3, <1>u, <2>1, <3>1 DEF FinishStop
  <2>2. CASE i # j
    BY <1>0, <1>3, <1>e, <2>2 DEF FinishStop
  <2> QED
    BY <2>1, <2>2
<1>4. ASSUME NEW i \in Jobs, NEW g \in Gens, NEW o \in Owners, NEW s \in Sources,
             NEW d \in Digests, RegisterSource(i, g, o, s, d)
      PROVE  Good
  <2>1. CASE i = j
    BY <1>4, <1>u, <2>1 DEF RegisterSource
  <2>2. CASE i # j
    BY <1>0, <1>4, <1>e, <2>2 DEF RegisterSource
  <2> QED
    BY <2>1, <2>2
<1>5. ASSUME NEW i \in Jobs, NEW s \in Sources, SourceOnly(i, s)
      PROVE  Good
  BY <1>5, <1>k, IdentityKept
<1>6. ASSUME NEW i \in Jobs, NEW g \in Gens, NEW o \in Owners, NEW move \in WorkerMoves,
             Transition(i, g, o, move[1], move[2])
      PROVE  Good
  <2>1. CASE i = j
    <3>1. job'[j].state = move[2] /\ job[j].state = move[1] /\ job'[j].rev = job[j].rev
      BY <1>0, <1>6, <2>1 DEF Transition, JobRow
    <3>2. move[1] \notin PublishedStates /\ move[2] \notin PublishedStates
      BY DEF WorkerMoves
    <3> QED
      BY <1>6, <1>u, <3>1, <3>2 DEF Transition
  <2>2. CASE i # j
    BY <1>0, <1>6, <1>e, <2>2 DEF Transition
  <2> QED
    BY <2>1, <2>2
<1>7. ASSUME NEW i \in Jobs, NEW g \in Gens, NEW o \in Owners, NEW m \in Pages,
             NEW attempt \in 1 .. MaxAttempts, NEW d \in Digests,
             CommitPage(i, g, o, m, attempt, d, processed[i][m[1]] + 1)
      PROVE  Good
  <2>1. /\ job'[j].state \in PublishedStates <=> job[j].state \in PublishedStates
        /\ job'[j].rev = job[j].rev /\ job'[j].gen = job[j].gen
    BY <1>0, <1>7 DEF CommitPage, JobRow
  <2> QED
    BY <1>7, <1>k, <2>1 DEF CommitPage
<1>8. ASSUME NEW i \in Jobs, NEW g \in Gens, NEW o \in Owners, PublishSnapshot(i, g, o)
      PROVE  Good
  <2>1. CASE i = j
    <3> DEFINE snap == [gen |-> g, shas |-> [s \in Sources |-> source[j][s].sha], items |-> result[j]]
    <3>1. snapshot'[j] = snap /\ source' = source
      BY <1>0, <1>8, <2>1 DEF PublishSnapshot
    <3>2. /\ job'[j].state = "ready_for_review" /\ job'[j].rev = g
          /\ job'[j].gen = g
      BY <1>0, <1>8, <2>1 DEF PublishSnapshot, JobRow, Owns
    <3>3. g # NONE /\ snap # NONE
      <4>1. g \in Nat
        BY BoundsAssumption DEF Gens
      <4>2. snap \in Snapshot
        BY <1>0, <1>s, <4>1 DEF Snapshot
      <4> QED
        BY <4>1, <4>2, NoneAssumption, SnapshotAssumption
    <3>4. ASSUME NEW k \in Pages
          PROVE  /\ snap.shas[k[1]] = source[j][k[1]].sha
                 /\ k[2] \in PagesOf[source[j][k[1]].sha] => snap.items[k] = source[j][k[1]].sha
      <4>1. source[j][k[1]].sha # NONE
        BY <1>8, <1>p, <2>1 DEF PublishSnapshot
      <4>2. k[2] \in PagesOf[source[j][k[1]].sha] => page[j][k].state # "absent"
        BY <4>1 DEF PagesMatchDocument
      <4>3. page[j][k].state # "absent" => result[j][k] = source[j][k[1]].sha
        BY <1>8, <2>1 DEF PublishSnapshot, CompletePages
      <4> QED
        BY <1>p, <4>2, <4>3
    <3> QED
      BY <3>1, <3>2, <3>3, <3>4
  <2>2. CASE i # j
    BY <1>0, <1>8, <1>e, <2>2 DEF PublishSnapshot
  <2> QED
    BY <2>1, <2>2
<1>9. ASSUME NEW i \in Jobs, CreateJob(i)
      PROVE  Good
  <2>1. CASE i = j
    <3>1. job'[j].state = "queued" /\ job'[j].rev = job[j].rev
      BY <1>0, <1>9, <2>1 DEF CreateJob, JobRow
    <3> QED
      BY <1>9, <1>u, <2>1, <3>1 DEF CreateJob
  <2>2. CASE i # j
    BY <1>0, <1>9, <1>e, <2>2 DEF CreateJob
  <2> QED
    BY <2>1, <2>2
<1>10. ASSUME NEW i \in Jobs, NEW g \in Gens, NEW c \in CommandIds, NEW action \in Actions,
             NEW to \in RowStates, Control(i, g, c, action, to)
      PROVE  Good
  <2>1. <<job[i].state, to>> \in PauseMoves \cup CancelMoves \cup ArchiveMoves
    BY <1>10 DEF Control, MovesOf, Actions
  <2>2. to \in PublishedStates <=> job[i].state \in PublishedStates
    BY <2>1 DEF PauseMoves, CancelMoves, ArchiveMoves, Stays
  <2>3. /\ job'[j].state \in PublishedStates <=> job[j].state \in PublishedStates
        /\ job'[j].rev = job[j].rev /\ job'[j].gen = job[j].gen
    BY <1>0, <1>10, <2>2 DEF Control, JobRow
  <2> QED
    BY <1>10, <1>k, <2>3 DEF Control
<1>11. ASSUME NEW i \in Jobs, CloseGate(i)
      PROVE  Good
  <2>1. job'[j].state = job[j].state /\ job'[j].rev = job[j].rev /\ job'[j].gen = job[j].gen
    BY <1>0, <1>11 DEF CloseGate, JobRow
  <2> QED
    BY <1>11, <1>k, <2>1 DEF CloseGate
<1>12. ASSUME NEW i \in Jobs, DeleteJob(i)
      PROVE  Good
  <2>1. CASE i = j
    <3>1. job'[j] = [NoJob EXCEPT !.state = "deleted"] /\ snapshot'[j] = NONE
      BY <1>0, <1>12, <2>1 DEF DeleteJob
    <3> QED
      BY <3>1 DEF NoJob
  <2>2. CASE i # j
    BY <1>0, <1>12, <1>e, <2>2 DEF DeleteJob
  <2> QED
    BY <2>1, <2>2
<1>13. ASSUME UNCHANGED <<job, source, snapshot>>
      PROVE  Good
  BY <1>13, <1>e
<1>a. ASSUME HostStep PROVE Good
  BY <1>a, <1>1, <1>2, <1>3 DEF HostStep
<1>b. ASSUME WorkerStep PROVE Good
  <2>1. ASSUME NEW i \in Jobs, NEW g \in Gens, NEW o \in Owners, NEW k \in Pages,
               BeginPage(i, g, o, k)
        PROVE  Good
    BY <1>13, <2>1 DEF BeginPage
  <2>2. ASSUME NEW i \in Jobs, NEW g \in Gens, NEW o \in Owners, NEW k \in Pages,
               NEW attempt \in 1 .. MaxAttempts, NEW work \in {0, 1},
               FailPage(i, g, o, k, attempt, processed[i][k[1]] + work)
        PROVE  Good
    BY <1>13, <2>2 DEF FailPage
  <2> QED
    BY SMTT(30), <1>b, <1>4, <1>5, <1>6, <1>7, <1>8, <2>1, <2>2 DEF WorkerStep, SourceOnly
<1>d. ASSUME ClientStep PROVE Good
  BY <1>d, <1>5, <1>9, <1>10, <1>11, <1>12 DEF ClientStep, SourceOnly
<1> QED
  BY <1>a, <1>b, <1>d, <1>13 DEF Next, storeVars

\* An empty database is safe.
LEMMA SafetyInit == Init => Safety
  BY NoneAssumption DEF Init, Safety, SingleActiveJob, ActiveIsOwned, SettledIffResult,
     ClaimIsCurrent, PagesMatchDocument, PublishedIsComplete, VerificationIsCurrent, GatedIsIdle,
     NoJob, NewSource, NoPage, Active, Exists, Pages

\* Every safety property of the database holds in every reachable state, whatever
\* workers, hosts, clients and cleanups call, in any order and with stale arguments
\* (every transaction of batch_store.py).  With the types, each part is inductive by
\* itself but PublishedIsComplete: that the rows which exist have all succeeded means
\* that the whole document has only because of PagesMatchDocument.
THEOREM SafetyCorrect == Spec => []Safety
<1>1. TypeOK /\ Safety /\ [Next]_storeVars => Safety'
  BY SingleActiveStep, ActiveOwnedStep, SettledStep, ClaimStep, PagesMatchStep, PublishedStep,
     VerificationStep, GatedIdleStep DEF Safety
<1> QED
  BY TypeInit, TypeStep, SafetyInit, <1>1, PTL DEF Spec

\* At most one job executes, under the host that is the supervisor now, and never
\* behind the cleanup gate (start_job, activate_supervisor, execute_cleanup's gate).
THEOREM OneJobExecutes == Spec => []SingleActiveJob /\ []ActiveIsOwned /\ []GatedIsIdle
  BY SafetyCorrect, PTL DEF Safety

\* Page states, results, claims and source identities always agree with each other
\* (register_source, begin_page, commit_page, fail_page, finish_stop, start_job).
THEOREM TablesAgree ==
    Spec => []SettledIffResult /\ []ClaimIsCurrent /\ []PagesMatchDocument /\ []VerificationIsCurrent
  BY SafetyCorrect, PTL DEF Safety

\* What is published is the whole of every document, computed from the registered
\* bytes, in the job's last generation (publish_snapshot, _assert_complete_pages).
THEOREM PublicationIsComplete == Spec => []PublishedIsComplete
  BY SafetyCorrect, PTL DEF Safety

\* A result disappears only with its job: every transaction that clears
\* results finds none on the pages it clears.
LEMMA ResultStep ==
    ASSUME TypeOK, SettledIffResult, [Next]_storeVars, NEW j \in Jobs, NEW k \in Pages,
           result[j][k] # NONE
    PROVE  result'[j][k] = result[j][k] \/ DeleteJob(j)
<1> DEFINE Same == result'[j][k] = result[j][k]
<1>0. /\ result \in [Jobs -> [Pages -> OptionalDigest]]
      /\ \A i \in Jobs : result[i] \in [Pages -> OptionalDigest]
  BY DEF TypeOK
<1>c. page[j][k].state = "succeeded"
  BY DEF SettledIffResult
<1>1. ASSUME NEW i \in Jobs, NEW g \in Gens, NEW o \in Owners, StartJob(i, g, o)
      PROVE  Same
  <2>1. result' = [result EXCEPT ![i] = [m \in Pages |->
         IF page[i][m].state = "succeeded" THEN result[i][m] ELSE NONE]]
    BY <1>1 DEF StartJob
  <2> QED
    BY <1>0, <1>c, <2>1
<1>2. ASSUME NEW i \in Jobs, NEW g \in Gens, NEW o \in Owners, NEW m \in Pages,
             BeginPage(i, g, o, m)
      PROVE  Same
  BY <1>0, <1>2, <1>c DEF BeginPage, Claimable
<1>3. ASSUME NEW i \in Jobs, NEW g \in Gens, NEW o \in Owners, NEW m \in Pages,
             NEW attempt \in 1 .. MaxAttempts, NEW d \in Digests,
             CommitPage(i, g, o, m, attempt, d, processed[i][m[1]] + 1)
      PROVE  Same
  BY <1>0, <1>3, <1>c DEF CommitPage, HoldsClaim, ClaimedBy
<1>4. ASSUME NEW i \in Jobs, NEW g \in Gens, NEW o \in Owners, NEW m \in Pages,
             NEW attempt \in 1 .. MaxAttempts, NEW work \in {0, 1},
             FailPage(i, g, o, m, attempt, processed[i][m[1]] + work)
      PROVE  Same
  BY <1>0, <1>4, <1>c DEF FailPage, HoldsClaim, ClaimedBy
<1>5. ASSUME NEW i \in Jobs, DeleteJob(i)
      PROVE  Same \/ DeleteJob(j)
  <2>1. CASE i = j
    BY <1>5, <2>1
  <2>2. CASE i # j
    BY <1>0, <1>5, <2>2 DEF DeleteJob
  <2> QED
    BY <2>1, <2>2
<1>6. ASSUME UNCHANGED result PROVE Same
  BY <1>6
<1>a. ASSUME HostStep PROVE Same
  <2>1. ASSUME NEW o \in Owners, ActivateSupervisor(o) PROVE Same
    BY <2>1, <1>6 DEF ActivateSupervisor
  <2>2. ASSUME NEW i \in Jobs, NEW g \in Gens, NEW o \in Owners, NEW cancelled \in BOOLEAN,
               FinishStop(i, g, o, cancelled)
        PROVE  Same
    BY <2>2, <1>6 DEF FinishStop
  <2> QED
    BY <1>a, <1>1, <2>1, <2>2 DEF HostStep
<1>b. ASSUME WorkerStep PROVE Same
  <2>1. ASSUME NEW i \in Jobs, NEW g \in Gens, NEW o \in Owners,
               \/ \E move \in WorkerMoves : Transition(i, g, o, move[1], move[2])
               \/ PublishSnapshot(i, g, o)
        PROVE  Same
    BY <2>1, <1>6 DEF Transition, PublishSnapshot
  <2>2. ASSUME NEW i \in Jobs, NEW g \in Gens, NEW o \in Owners, NEW s \in Sources, NEW d \in Digests,
               RegisterSource(i, g, o, s, d)
        PROVE  Same
    BY <2>2, <1>6 DEF RegisterSource
  <2>3. ASSUME NEW i \in Jobs, NEW s \in Sources, SourceOnly(i, s) PROVE Same
    BY <2>3, IdentityKept
  <2> QED
    BY <1>b, <1>2, <1>3, <1>4, <2>1, <2>2, <2>3 DEF WorkerStep, SourceOnly
<1>d. ASSUME ClientStep PROVE Same \/ DeleteJob(j)
  <2>1. ASSUME NEW i \in Jobs,
               \/ CreateJob(i) \/ CloseGate(i)
               \/ \E g \in Gens, c \in CommandIds, action \in Actions, to \in RowStates :
                    Control(i, g, c, action, to)
        PROVE  Same
    BY <2>1, <1>6 DEF CreateJob, CloseGate, Control
  <2>2. ASSUME NEW i \in Jobs, NEW s \in Sources, SourceOnly(i, s) PROVE Same
    BY <2>2, IdentityKept
  <2> QED
    BY <1>d, <1>5, <2>1, <2>2 DEF ClientStep, SourceOnly
<1> QED
  BY <1>a, <1>b, <1>d, <1>6 DEF Next, storeVars

\* No step loses or replaces the result of a settled page, or the identity of a
\* registered source, of a job that still exists (begin_page and start_job, the two
\* transactions that clear results, only meet unsettled pages).
THEOREM CheckpointsAreKept == Spec => CheckpointKept
<1> DEFINE Kept == \A j \in Jobs : Exists(j)' =>
        /\ \A k \in Pages : result[j][k] # NONE => result'[j][k] = result[j][k]
        /\ \A s \in Sources : source[j][s].sha # NONE => source'[j][s].sha = source[j][s].sha
<1>1. ASSUME TypeOK, Safety, [Next]_storeVars PROVE Kept
  <2>1. SUFFICES ASSUME NEW j \in Jobs, Exists(j)'
        PROVE  /\ \A k \in Pages : result[j][k] # NONE => result'[j][k] = result[j][k]
               /\ \A s \in Sources : source[j][s].sha # NONE => source'[j][s].sha = source[j][s].sha
    OBVIOUS
  <2>2. ~DeleteJob(j)
    <3> SUFFICES ASSUME DeleteJob(j) PROVE FALSE
      OBVIOUS
    <3>1. job' = [job EXCEPT ![j] = [NoJob EXCEPT !.state = "deleted"]] /\ job \in [Jobs -> JobRow]
      BY <1>1 DEF DeleteJob, TypeOK
    <3>2. job'[j].state = "deleted"
      BY <3>1 DEF NoJob
    <3> QED
      BY <2>1, <3>2 DEF Exists
  <2>3. \A k \in Pages : result[j][k] # NONE => result'[j][k] = result[j][k]
    BY <1>1, <2>2, ResultStep DEF Safety
  <2>4. \A s \in Sources : source[j][s].sha # NONE => source'[j][s].sha = source[j][s].sha
    BY <1>1, <2>2, IdentityStep DEF RegisterSource
  <2> QED
    BY <2>3, <2>4
<1>2. TypeOK /\ Safety /\ [Next]_storeVars => [Kept]_storeVars
  BY <1>1
<1>3. Spec => [][Kept]_storeVars
  BY TypeCorrect, SafetyCorrect, <1>2, PTL DEF Spec
<1> QED
  BY <1>3 DEF CheckpointKept

\* The snapshot table is written by the publication and the deletion only.
LEMMA SnapshotStep ==
    ASSUME TypeOK, [Next]_storeVars, NEW j \in Jobs
    PROVE  \/ snapshot'[j] = snapshot[j]
           \/ \E g \in Gens, o \in Owners : PublishSnapshot(j, g, o)
           \/ DeleteJob(j)
<1> DEFINE Same == snapshot'[j] = snapshot[j]
<1>0. snapshot \in [Jobs -> Snapshot \cup {NONE}]
  BY DEF TypeOK
<1>1. ASSUME UNCHANGED snapshot PROVE Same
  BY <1>1
<1>a. ASSUME HostStep PROVE Same
  <2>1. ASSUME NEW o \in Owners, ActivateSupervisor(o) PROVE Same
    BY <2>1, <1>1 DEF ActivateSupervisor
  <2>2. ASSUME NEW i \in Jobs, NEW g \in Gens, NEW o \in Owners, NEW cancelled \in BOOLEAN,
               FinishStop(i, g, o, cancelled)
        PROVE  Same
    BY <2>2, <1>1 DEF FinishStop
  <2>3. ASSUME NEW i \in Jobs, NEW g \in Gens, NEW o \in Owners, StartJob(i, g, o)
        PROVE  Same
    BY <2>3, <1>1 DEF StartJob
  <2> QED
    BY <1>a, <2>1, <2>2, <2>3 DEF HostStep
<1>b. ASSUME WorkerStep PROVE Same \/ \E g \in Gens, o \in Owners : PublishSnapshot(j, g, o)
  <2>1. ASSUME NEW i \in Jobs, NEW g \in Gens, NEW o \in Owners,
               \/ \E move \in WorkerMoves : Transition(i, g, o, move[1], move[2])
               \/ \E k \in Pages : BeginPage(i, g, o, k)
        PROVE  Same
    BY <2>1, <1>1 DEF Transition, BeginPage
  <2>2. ASSUME NEW i \in Jobs, NEW g \in Gens, NEW o \in Owners, NEW s \in Sources, NEW d \in Digests,
               RegisterSource(i, g, o, s, d)
        PROVE  Same
    BY <2>2, <1>1 DEF RegisterSource
  <2>3. ASSUME NEW i \in Jobs, NEW s \in Sources, SourceOnly(i, s) PROVE Same
    BY <2>3, IdentityKept
  <2>4. ASSUME NEW i \in Jobs, NEW g \in Gens, NEW o \in Owners, NEW k \in Pages,
               NEW attempt \in 1 .. MaxAttempts,
               \/ \E d \in Digests : CommitPage(i, g, o, k, attempt, d, processed[i][k[1]] + 1)
               \/ \E work \in {0, 1} : FailPage(i, g, o, k, attempt, processed[i][k[1]] + work)
        PROVE  Same
    BY <2>4, <1>1 DEF CommitPage, FailPage
  <2>5. ASSUME NEW i \in Jobs, NEW g \in Gens, NEW o \in Owners, PublishSnapshot(i, g, o), i # j
        PROVE  Same
    BY <1>0, <2>5 DEF PublishSnapshot
  <2> QED
    BY <1>b, <2>1, <2>2, <2>3, <2>4, <2>5 DEF WorkerStep, SourceOnly
<1>d. ASSUME ClientStep PROVE Same \/ DeleteJob(j)
  <2>1. ASSUME NEW i \in Jobs,
               \/ CreateJob(i) \/ CloseGate(i)
               \/ \E g \in Gens, c \in CommandIds, action \in Actions, to \in RowStates :
                    Control(i, g, c, action, to)
        PROVE  Same
    BY <2>1, <1>1 DEF CreateJob, CloseGate, Control
  <2>2. ASSUME NEW i \in Jobs, NEW s \in Sources, SourceOnly(i, s) PROVE Same
    BY <2>2, IdentityKept
  <2>3. ASSUME NEW i \in Jobs, DeleteJob(i), i # j PROVE Same
    BY <1>0, <2>3 DEF DeleteJob
  <2> QED
    BY <1>d, <2>1, <2>2, <2>3 DEF ClientStep, SourceOnly
<1> QED
  BY <1>a, <1>b, <1>d, <1>1 DEF Next, storeVars

\* Where a job can go from a state: the table every step obeys.
Outcome(j) ==
    \/ job'[j] = job[j]
    \/ /\ Active(j) /\ supervisor' # supervisor
       /\ job'[j].state = "interrupted" /\ job'[j].gen = job[j].gen
       /\ job'[j].deleting = job[j].deleting
    \/ /\ Startable(j)
       /\ job'[j].state = "validating"
    \/ /\ job'[j].gen = job[j].gen /\ job'[j].deleting = job[j].deleting
       /\ \/ /\ job[j].state \in ExecutionStates
             /\ \/ job'[j].state = "cancelled"
                \/ job[j].state # "cancel_requested" /\ job'[j].state = "interrupted"
          \/ <<job[j].state, job'[j].state>> \in
               WorkerMoves \cup PauseMoves \cup CancelMoves \cup ArchiveMoves
                 \cup {<<"pause_requested", "paused">>, <<"absent", "queued">>}
          \/ job[j].state = "finalizing" /\ job'[j].state = "ready_for_review"
    \/ job'[j].state = job[j].state /\ job'[j].gen = job[j].gen /\ job'[j].deleting
    \/ DeleteJob(j)

LEMMA OutcomeStep ==
    ASSUME TypeOK, [Next]_storeVars, NEW j \in Jobs
    PROVE  Outcome(j)
<1>0. job \in [Jobs -> JobRow] /\ \A i \in Jobs : job[i] \in JobRow
  BY DEF TypeOK
<1>s. ASSUME job'[j] = job[j] PROVE Outcome(j)
  BY <1>s DEF Outcome
<1>1. ASSUME NEW o \in Owners, ActivateSupervisor(o)
      PROVE  Outcome(j)
  <2>1. CASE job'[j] = job[j]
    BY <1>s, <2>1
  <2>2. CASE job'[j] # job[j]
    <3>1. /\ Active(j) /\ supervisor' # supervisor
          /\ job'[j] = [job[j] EXCEPT !.state = "interrupted", !.owner = NONE]
      BY <1>1, <2>2 DEF ActivateSupervisor, Abandoned
    <3>2. /\ job'[j].state = "interrupted" /\ job'[j].gen = job[j].gen
          /\ job'[j].deleting = job[j].deleting
      BY <1>0, <3>1 DEF JobRow
    <3> QED
      BY <3>1, <3>2 DEF Outcome
  <2> QED
    BY <2>1, <2>2
<1>2. ASSUME NEW i \in Jobs, NEW g \in Gens, NEW o \in Owners, StartJob(i, g, o)
      PROVE  Outcome(j)
  <2>0. /\ Startable(i)
        /\ job' = [job EXCEPT ![i] =
             [state |-> "validating", gen |-> g + 1, owner |-> o, rev |-> NONE, deleting |-> FALSE]]
    BY <1>2 DEF StartJob
  <2>1. CASE i = j
    BY <1>0, <2>0, <2>1 DEF Outcome
  <2>2. CASE i # j
    BY <1>0, <1>s, <2>0, <2>2
  <2> QED
    BY <2>1, <2>2
<1>3. ASSUME NEW i \in Jobs, NEW to \in RowStates, NEW ow \in OptionalOwner,
             \/ job' = [job EXCEPT ![i].state = to]
             \/ job' = [job EXCEPT ![i].state = to, ![i].owner = ow]
             \/ \E rev \in Nat : job' = [job EXCEPT ![i].state = to, ![i].rev = rev]
      PROVE  \/ job'[j] = job[j]
             \/ /\ i = j
                /\ job'[j].state = to /\ job'[j].gen = job[j].gen
                /\ job'[j].deleting = job[j].deleting
  <2>1. CASE i = j
    BY <1>0, <1>3, <2>1 DEF JobRow
  <2>2. CASE i # j
    BY <1>0, <1>3, <2>2
  <2> QED
    BY <2>1, <2>2
<1>4. ASSUME NEW i \in Jobs, NEW g \in Gens, NEW o \in Owners, NEW cancelled \in BOOLEAN,
             FinishStop(i, g, o, cancelled)
      PROVE  Outcome(j)
  <2>1. PICK to \in {"cancelled", "interrupted"} :
          /\ job[i].state \in ExecutionStates
          /\ job[i].state = "cancel_requested" => to = "cancelled"
          /\ job' = [job EXCEPT ![i].state = to, ![i].owner = NONE]
    BY <1>4 DEF FinishStop, StopState
  <2>2. \/ job'[j] = job[j]
        \/ /\ i = j
           /\ job'[j].state = to /\ job'[j].gen = job[j].gen
           /\ job'[j].deleting = job[j].deleting
    BY <1>3, <2>1 DEF OptionalOwner
  <2> QED
    BY <2>1, <2>2 DEF Outcome
<1>5. ASSUME NEW i \in Jobs, NEW g \in Gens, NEW o \in Owners, NEW move \in WorkerMoves,
             Transition(i, g, o, move[1], move[2])
      PROVE  Outcome(j)
  <2>1. job[i].state = move[1] /\ job' = [job EXCEPT ![i].state = move[2]]
    BY <1>5 DEF Transition
  <2>2. <<move[1], move[2]>> \in WorkerMoves /\ move[2] \in RowStates
    BY <1>5 DEF Transition, WorkerMoves
  <2>3. \/ job'[j] = job[j]
        \/ /\ i = j
           /\ job'[j].state = move[2] /\ job'[j].gen = job[j].gen
           /\ job'[j].deleting = job[j].deleting
    BY <1>3, <2>1, <2>2 DEF OptionalOwner
  <2> QED
    BY <2>1, <2>2, <2>3 DEF Outcome
<1>6. ASSUME NEW i \in Jobs, NEW g \in Gens, NEW o \in Owners, NEW m \in Pages,
             NEW attempt \in 1 .. MaxAttempts, NEW d \in Digests,
             CommitPage(i, g, o, m, attempt, d, processed[i][m[1]] + 1)
      PROVE  Outcome(j)
  <2>1. job' = [job EXCEPT ![i].state = IF @ = "pause_requested" THEN "paused" ELSE @]
    BY <1>6 DEF CommitPage
  <2>2. CASE i = j /\ job[j].state = "pause_requested"
    <3>1. job' = [job EXCEPT ![i].state = "paused"]
      BY <1>0, <2>1, <2>2
    <3>2. job'[j].state = "paused" /\ job'[j].gen = job[j].gen /\ job'[j].deleting = job[j].deleting
      BY <1>0, <2>2, <3>1 DEF JobRow
    <3> QED
      BY <2>2, <3>2 DEF Outcome
  <2>3. CASE ~(i = j /\ job[j].state = "pause_requested")
    <3>1. job'[j] = job[j]
      BY <1>0, <2>1, <2>3 DEF JobRow
    <3> QED
      BY <1>s, <3>1
  <2> QED
    BY <2>2, <2>3
<1>7. ASSUME NEW i \in Jobs, NEW g \in Gens, NEW o \in Owners, PublishSnapshot(i, g, o)
      PROVE  Outcome(j)
  <2>1. /\ job[i].state = "finalizing"
        /\ g \in Nat
        /\ job' = [job EXCEPT ![i].state = "ready_for_review", ![i].rev = g]
    BY <1>7, BoundsAssumption DEF PublishSnapshot, Gens
  <2>2. \/ job'[j] = job[j]
        \/ /\ i = j
           /\ job'[j].state = "ready_for_review" /\ job'[j].gen = job[j].gen
           /\ job'[j].deleting = job[j].deleting
    BY <1>3, <2>1 DEF OptionalOwner
  <2> QED
    BY <2>1, <2>2 DEF Outcome
<1>8. ASSUME NEW i \in Jobs, CreateJob(i)
      PROVE  Outcome(j)
  <2>1. job[i].state = "absent" /\ job' = [job EXCEPT ![i].state = "queued"]
    BY <1>8 DEF CreateJob
  <2>2. \/ job'[j] = job[j]
        \/ /\ i = j
           /\ job'[j].state = "queued" /\ job'[j].gen = job[j].gen
           /\ job'[j].deleting = job[j].deleting
    BY <1>3, <2>1 DEF OptionalOwner
  <2> QED
    BY <2>1, <2>2 DEF Outcome
<1>9. ASSUME NEW i \in Jobs, NEW g \in Gens, NEW c \in CommandIds, NEW action \in Actions,
             NEW to \in RowStates, Control(i, g, c, action, to)
      PROVE  Outcome(j)
  <2>1. /\ <<job[i].state, to>> \in PauseMoves \cup CancelMoves \cup ArchiveMoves
        /\ job' = [job EXCEPT ![i].state = to]
    BY <1>9 DEF Control, MovesOf, Actions
  <2>2. \/ job'[j] = job[j]
        \/ /\ i = j
           /\ job'[j].state = to /\ job'[j].gen = job[j].gen
           /\ job'[j].deleting = job[j].deleting
    BY <1>3, <2>1 DEF OptionalOwner
  <2> QED
    BY <2>1, <2>2 DEF Outcome
<1>10. ASSUME NEW i \in Jobs, CloseGate(i)
      PROVE  Outcome(j)
  <2>1. job' = [job EXCEPT ![i].deleting = TRUE]
    BY <1>10 DEF CloseGate
  <2>2. CASE i = j
    <3>1. job'[j].state = job[j].state /\ job'[j].gen = job[j].gen /\ job'[j].deleting = TRUE
      BY <1>0, <2>1, <2>2 DEF JobRow
    <3> QED
      BY <3>1 DEF Outcome
  <2>3. CASE i # j
    BY <1>0, <1>s, <2>1, <2>3
  <2> QED
    BY <2>2, <2>3
<1>11. ASSUME NEW i \in Jobs, DeleteJob(i)
      PROVE  Outcome(j)
  <2>1. CASE i = j
    BY <1>11, <2>1 DEF Outcome
  <2>2. CASE i # j
    BY <1>0, <1>11, <1>s, <2>2 DEF DeleteJob
  <2> QED
    BY <2>1, <2>2
<1>12. ASSUME UNCHANGED job PROVE Outcome(j)
  BY <1>12, <1>s
<1>a. ASSUME HostStep PROVE Outcome(j)
  BY <1>a, <1>1, <1>2, <1>4 DEF HostStep
<1>b. ASSUME WorkerStep PROVE Outcome(j)
  BY <1>b, <1>5, <1>6, <1>7, <1>12, JobKept DEF WorkerStep
<1>d. ASSUME ClientStep PROVE Outcome(j)
  BY <1>d, <1>8, <1>9, <1>10, <1>11, <1>12 DEF ClientStep, RelocateSource
<1> QED
  BY <1>a, <1>b, <1>d, <1>12 DEF Next, storeVars

\* A job that is asked to cancel neither settles nor loses a result.
LEMMA QuietCancel ==
    ASSUME TypeOK, SettledIffResult, [Next]_storeVars, NEW j \in Jobs,
           job[j].state = "cancel_requested"
    PROVE  result'[j] = result[j]
<1> DEFINE Same == result'[j] = result[j]
<1>0. /\ result \in [Jobs -> [Pages -> OptionalDigest]]
      /\ \A i \in Jobs : result[i] \in [Pages -> OptionalDigest]
  BY DEF TypeOK
<1>1. ASSUME NEW i \in Jobs, NEW g \in Gens, NEW o \in Owners, StartJob(i, g, o)
      PROVE  Same
  <2>1. i # j
    BY <1>1 DEF StartJob, Startable
  <2> QED
    BY <1>0, <1>1, <2>1 DEF StartJob
<1>2. ASSUME NEW i \in Jobs, NEW g \in Gens, NEW o \in Owners, NEW m \in Pages,
             BeginPage(i, g, o, m)
      PROVE  Same
  <2>1. i # j
    BY <1>2 DEF BeginPage
  <2> QED
    BY <1>0, <1>2, <2>1 DEF BeginPage
<1>3. ASSUME NEW i \in Jobs, NEW g \in Gens, NEW o \in Owners, NEW m \in Pages,
             NEW attempt \in 1 .. MaxAttempts, NEW d \in Digests,
             CommitPage(i, g, o, m, attempt, d, processed[i][m[1]] + 1)
      PROVE  Same
  <2>1. i # j
    BY <1>3 DEF CommitPage
  <2> QED
    BY <1>0, <1>3, <2>1 DEF CommitPage
<1>4. ASSUME NEW i \in Jobs, NEW g \in Gens, NEW o \in Owners, NEW m \in Pages,
             NEW attempt \in 1 .. MaxAttempts, NEW work \in {0, 1},
             FailPage(i, g, o, m, attempt, processed[i][m[1]] + work)
      PROVE  Same
  <2>1. CASE i = j
    <3>1. page[j][m].state = "processing"
      BY <1>4, <2>1 DEF FailPage, HoldsClaim, ClaimedBy
    <3>2. result[j][m] = NONE
      BY <3>1 DEF SettledIffResult
    <3>3. result' = [result EXCEPT ![j][m] = NONE]
      BY <1>4, <2>1 DEF FailPage
    <3> QED
      BY <1>0, <3>2, <3>3
  <2>2. CASE i # j
    BY <1>0, <1>4, <2>2 DEF FailPage
  <2> QED
    BY <2>1, <2>2
<1>5. ASSUME NEW i \in Jobs, DeleteJob(i)
      PROVE  Same
  <2>1. i # j
    BY <1>5 DEF DeleteJob, Active
  <2> QED
    BY <1>0, <1>5, <2>1 DEF DeleteJob
<1>6. ASSUME UNCHANGED result PROVE Same
  BY <1>6
<1>a. ASSUME HostStep PROVE Same
  <2>1. ASSUME NEW o \in Owners, ActivateSupervisor(o) PROVE Same
    BY <2>1, <1>6 DEF ActivateSupervisor
  <2>2. ASSUME NEW i \in Jobs, NEW g \in Gens, NEW o \in Owners, NEW cancelled \in BOOLEAN,
               FinishStop(i, g, o, cancelled)
        PROVE  Same
    BY <2>2, <1>6 DEF FinishStop
  <2> QED
    BY <1>a, <1>1, <2>1, <2>2 DEF HostStep
<1>b. ASSUME WorkerStep PROVE Same
  <2>1. ASSUME NEW i \in Jobs, NEW g \in Gens, NEW o \in Owners,
               \/ \E move \in WorkerMoves : Transition(i, g, o, move[1], move[2])
               \/ PublishSnapshot(i, g, o)
        PROVE  Same
    BY <2>1, <1>6 DEF Transition, PublishSnapshot
  <2>2. ASSUME NEW i \in Jobs, NEW g \in Gens, NEW o \in Owners, NEW s \in Sources, NEW d \in Digests,
               RegisterSource(i, g, o, s, d)
        PROVE  Same
    BY <2>2, <1>6 DEF RegisterSource
  <2>3. ASSUME NEW i \in Jobs, NEW s \in Sources, SourceOnly(i, s) PROVE Same
    BY <2>3, IdentityKept
  <2> QED
    BY <1>b, <1>2, <1>3, <1>4, <2>1, <2>2, <2>3 DEF WorkerStep, SourceOnly
<1>d. ASSUME ClientStep PROVE Same
  <2>1. ASSUME NEW i \in Jobs,
               \/ CreateJob(i) \/ CloseGate(i)
               \/ \E g \in Gens, c \in CommandIds, action \in Actions, to \in RowStates :
                    Control(i, g, c, action, to)
        PROVE  Same
    BY <2>1, <1>6 DEF CreateJob, CloseGate, Control
  <2>2. ASSUME NEW i \in Jobs, NEW s \in Sources, SourceOnly(i, s) PROVE Same
    BY <2>2, IdentityKept
  <2> QED
    BY <1>d, <1>5, <2>1, <2>2 DEF ClientStep, SourceOnly
<1> QED
  BY <1>a, <1>b, <1>d, <1>6 DEF Next, storeVars

\* Once control has made a cancellation durable, no commit, publication, pause or stop
\* that races it changes its outcome (commit_page, publish_snapshot, finish_stop).
LEMMA CancelStep ==
    ASSUME TypeOK, Safety, [Next]_storeVars, NEW j \in Jobs
    PROVE  CancelStands(j)
<1> SUFFICES ASSUME job[j].state = "cancel_requested"
             PROVE  /\ \/ job'[j].state \in {"cancel_requested", "cancelled"}
                       \/ job'[j].state = "interrupted" /\ supervisor' # supervisor
                    /\ result'[j] = result[j]
                    /\ snapshot'[j] = snapshot[j]
  BY DEF CancelStands
<1>1. ~DeleteJob(j)
  BY DEF DeleteJob, Active
<1>2. \/ job'[j].state \in {"cancel_requested", "cancelled"}
      \/ job'[j].state = "interrupted" /\ supervisor' # supervisor
  BY <1>1, OutcomeStep DEF Outcome, Startable, WorkerMoves, PauseMoves, CancelMoves,
     ArchiveMoves, Stays
<1>3. snapshot'[j] = snapshot[j]
  BY <1>1, SnapshotStep DEF PublishSnapshot
<1>4. result'[j] = result[j]
  BY <1>1, QuietCancel DEF Safety
<1> QED
  BY <1>2, <1>3, <1>4

\* A published snapshot never changes and is never withdrawn except by the deletion of
\* its job (publish_snapshot, start_job, finish_stop, control).
THEOREM PublicationIsFrozen == Spec => PublishedIsFrozen
<1> DEFINE Frozen == \A j \in Jobs : snapshot[j] # NONE =>
        \/ job'[j].state = "deleted"
        \/ /\ snapshot'[j] = snapshot[j]
           /\ job'[j].state \in PublishedStates
<1>1. ASSUME TypeOK, Safety, [Next]_storeVars PROVE Frozen
  <2>1. SUFFICES ASSUME NEW j \in Jobs, snapshot[j] # NONE
        PROVE  \/ job'[j].state = "deleted"
               \/ /\ snapshot'[j] = snapshot[j]
                  /\ job'[j].state \in PublishedStates
    OBVIOUS
  <2>2. job[j].state \in PublishedStates
    BY <1>1, <2>1 DEF Safety, PublishedIsComplete
  <2>3. CASE DeleteJob(j)
    <3>1. job' = [job EXCEPT ![j] = [NoJob EXCEPT !.state = "deleted"]] /\ job \in [Jobs -> JobRow]
      BY <1>1, <2>3 DEF DeleteJob, TypeOK
    <3> QED
      BY <3>1 DEF NoJob
  <2>4. CASE ~DeleteJob(j)
    <3>1. job'[j].state \in PublishedStates
      BY <1>1, <2>2, <2>4, OutcomeStep DEF Outcome, Active, Startable, WorkerMoves, PauseMoves,
         CancelMoves, ArchiveMoves, Stays
    <3>2. snapshot'[j] = snapshot[j]
      BY <1>1, <2>2, <2>4, SnapshotStep DEF PublishSnapshot
    <3> QED
      BY <3>1, <3>2
  <2> QED
    BY <2>3, <2>4
<1>2. TypeOK /\ Safety /\ [Next]_storeVars => [Frozen]_storeVars
  BY <1>1
<1>3. Spec => [][Frozen]_storeVars
  BY TypeCorrect, SafetyCorrect, <1>2, PTL DEF Spec
<1> QED
  BY <1>3 DEF PublishedIsFrozen

\* A closed cleanup gate is never reopened, and a gated job is never restarted or
\* published (start_job, publish_snapshot and control all look at the gate).
LEMMA GateStep ==
    ASSUME TypeOK, Safety, [Next]_storeVars, NEW j \in Jobs
    PROVE  GateStands(j)
<1> SUFFICES ASSUME job[j].deleting, Exists(j)'
             PROVE  job'[j].deleting /\ job'[j].gen = job[j].gen /\ snapshot'[j] = snapshot[j]
  BY DEF GateStands
<1>1. ~DeleteJob(j)
  <2> SUFFICES ASSUME DeleteJob(j) PROVE FALSE
    OBVIOUS
  <2>1. job' = [job EXCEPT ![j] = [NoJob EXCEPT !.state = "deleted"]] /\ job \in [Jobs -> JobRow]
    BY DEF DeleteJob, TypeOK
  <2>2. job'[j].state = "deleted"
    BY <2>1 DEF NoJob
  <2> QED
    BY <2>2 DEF Exists
<1>2. ~Startable(j) /\ ~Active(j)
  BY DEF Startable, Safety, GatedIsIdle
<1>3. Outcome(j)
  BY OutcomeStep
<1>4. job'[j].deleting
  BY <1>1, <1>2, <1>3, Zenon DEF Outcome
<1>5. job'[j].gen = job[j].gen
  BY <1>1, <1>2, <1>3 DEF Outcome
<1>6. snapshot'[j] = snapshot[j]
  BY <1>1, SnapshotStep DEF PublishSnapshot
<1> QED
  BY <1>4, <1>5, <1>6

\* Neither a cancellation nor a closed cleanup gate is ever undone, for any
\* number of jobs, applications and restarts (control, commit_page,
\* publish_snapshot, finish_stop, start_job).
THEOREM StopsStayFinal == Spec => StopsAreFinal
<1>1. TypeOK /\ Safety /\ [Next]_storeVars => [\A j \in Jobs : CancelStands(j) /\ GateStands(j)]_storeVars
  BY CancelStep, GateStep
<1> QED
  BY TypeCorrect, SafetyCorrect, <1>1, PTL DEF Spec, StopsAreFinal

\* The commands of a job that are not cancellations.
OtherCommands(j) == {c \in commands[j] : c.action # "cancel"}

\* The command history is finite and within its limit, and leaves a row free.
HistoryBounded ==
    \A j \in Jobs :
        /\ IsFiniteSet(commands[j])
        /\ Cardinality(commands[j]) <= MaxCommands
        /\ Cardinality(OtherCommands(j)) < MaxCommands

\* Only a start, a command and a deletion write the history of a job.
LEMMA HistoryStep ==
    ASSUME [Next]_storeVars, TypeOK, NEW j \in Jobs
    PROVE  \/ commands'[j] = commands[j]
           \/ commands'[j] = {}
           \/ \E g \in Gens, c \in CommandIds, action \in Actions, to \in RowStates :
                /\ HasQuota(j, action)
                /\ Cardinality(commands[j]) < MaxCommands
                /\ commands'[j] = commands[j] \cup {[id |-> c, action |-> action, state |-> to]}
<1> DEFINE Goal ==
           \/ commands'[j] = commands[j]
           \/ commands'[j] = {}
           \/ \E g \in Gens, c \in CommandIds, action \in Actions, to \in RowStates :
                /\ HasQuota(j, action)
                /\ Cardinality(commands[j]) < MaxCommands
                /\ commands'[j] = commands[j] \cup {[id |-> c, action |-> action, state |-> to]}
<1>0. commands \in [Jobs -> SUBSET Command]
  BY DEF TypeOK
<1>1. UNCHANGED commands => Goal
  OBVIOUS
<1>2. ASSUME NEW i \in Jobs, NEW g \in Gens, NEW o \in Owners, StartJob(i, g, o)
      PROVE  Goal
  <2>1. commands' = [commands EXCEPT ![i] = {}]
    BY <1>2 DEF StartJob
  <2> QED
    BY <1>0, <2>1
<1>3. ASSUME NEW i \in Jobs, DeleteJob(i)
      PROVE  Goal
  <2>1. commands' = [commands EXCEPT ![i] = {}]
    BY <1>3 DEF DeleteJob
  <2> QED
    BY <1>0, <2>1
<1>4. ASSUME NEW i \in Jobs, NEW g \in Gens, NEW c \in CommandIds, NEW action \in Actions,
             NEW to \in RowStates, Control(i, g, c, action, to)
      PROVE  Goal
  <2> DEFINE row == [id |-> c, action |-> action, state |-> to]
  <2>1. HasQuota(i, action)
    BY <1>4 DEF Control
  <2>2. commands' = IF Cardinality(commands[i]) < MaxCommands
                    THEN [commands EXCEPT ![i] = @ \cup {row}] ELSE commands
    BY <1>4 DEF Control
  <2> HIDE DEF row
  <2>3. CASE Cardinality(commands[i]) < MaxCommands
    <3>1. commands' = [commands EXCEPT ![i] = commands[i] \cup {row}]
      BY <2>2, <2>3
    <3>2. CASE i = j
      <4>1. commands'[j] = commands[j] \cup {row}
        BY <1>0, <3>1, <3>2
      <4> QED
        BY <4>1, <2>1, <2>3, <3>2, Zenon DEF row
    <3>3. CASE i # j
      BY <1>0, <3>1, <3>3
    <3> QED
      BY <3>2, <3>3
  <2>4. CASE ~(Cardinality(commands[i]) < MaxCommands)
    BY <2>2, <2>4
  <2> QED
    BY <2>3, <2>4
<1>a. CASE HostStep
  <2>1. \A o \in Owners : ActivateSupervisor(o) => UNCHANGED commands
    BY DEF ActivateSupervisor
  <2>2. \A i \in Jobs, g \in Gens, o \in Owners, cancelled \in BOOLEAN :
          FinishStop(i, g, o, cancelled) => UNCHANGED commands
    BY DEF FinishStop
  <2> QED
    BY <1>a, <1>1, <1>2, <2>1, <2>2 DEF HostStep
<1>b. CASE WorkerStep
  <2>1. \A i \in Jobs, g \in Gens, o \in Owners, s \in Sources, d \in Digests :
          RegisterSource(i, g, o, s, d) \/ ReregisterSource(i, g, o, s, d)
            \/ VerifySource(i, g, o, s, d) => UNCHANGED commands
    BY DEF RegisterSource, ReregisterSource, VerifySource
  <2>2. \A i \in Jobs, g \in Gens, o \in Owners, s \in Sources, outcome \in {"failed", "blocked"} :
          FailSource(i, g, o, s, outcome) => UNCHANGED commands
    BY DEF FailSource
  <2>3. \A i \in Jobs, g \in Gens, o \in Owners :
          /\ \A move \in WorkerMoves : Transition(i, g, o, move[1], move[2]) => UNCHANGED commands
          /\ \A k \in Pages : BeginPage(i, g, o, k) => UNCHANGED commands
          /\ PublishSnapshot(i, g, o) => UNCHANGED commands
    BY DEF Transition, BeginPage, PublishSnapshot
  <2>4. \A i \in Jobs, g \in Gens, o \in Owners, k \in Pages, attempt \in 1 .. MaxAttempts :
          /\ \A d \in Digests :
               CommitPage(i, g, o, k, attempt, d, processed[i][k[1]] + 1) => UNCHANGED commands
          /\ \A work \in {0, 1} :
               FailPage(i, g, o, k, attempt, processed[i][k[1]] + work) => UNCHANGED commands
    BY DEF CommitPage, FailPage
  <2>5. UNCHANGED commands
    BY <1>b, <2>1, <2>2, <2>3, <2>4 DEF WorkerStep
  <2> QED
    BY <1>1, <2>5
<1>c. CASE ClientStep
  <2>1. \A i \in Jobs : CreateJob(i) \/ CloseGate(i) => UNCHANGED commands
    BY DEF CreateJob, CloseGate
  <2>2. \A i \in Jobs, s \in Sources, d \in Digests : RelocateSource(i, s, d) => UNCHANGED commands
    BY DEF RelocateSource
  <2> QED
    BY <1>c, <1>1, <1>3, <1>4, <2>1, <2>2 DEF ClientStep
<1>d. CASE UNCHANGED storeVars
  BY <1>d, <1>1 DEF storeVars
<1> QED
  BY <1>a, <1>b, <1>c, <1>d DEF Next

\* A command is added within the limit, and any but a cancellation below it.
LEMMA HistoryBoundedStep ==
    TypeOK /\ HistoryBounded /\ [Next]_storeVars => HistoryBounded'
<1> SUFFICES ASSUME TypeOK, HistoryBounded, [Next]_storeVars, NEW j \in Jobs
             PROVE  /\ IsFiniteSet(commands'[j])
                    /\ Cardinality(commands'[j]) <= MaxCommands
                    /\ Cardinality({x \in commands'[j] : x.action # "cancel"}) < MaxCommands
  BY DEF HistoryBounded, OtherCommands
<1> DEFINE others(S) == {x \in S : x.action # "cancel"}
<1>0. /\ IsFiniteSet(commands[j])
      /\ Cardinality(commands[j]) <= MaxCommands
      /\ Cardinality(others(commands[j])) < MaxCommands
  BY DEF HistoryBounded, OtherCommands
<1>1. MaxCommands \in Nat /\ MaxCommands > 0
  BY BoundsAssumption
<1>2. CASE commands'[j] = commands[j]
  BY <1>0, <1>2
<1>3. CASE commands'[j] = {}
  <2>1. others({}) = {}
    OBVIOUS
  <2> QED
    BY <1>1, <1>3, <2>1, FS_EmptySet
<1>4. ASSUME NEW g \in Gens, NEW c \in CommandIds, NEW action \in Actions, NEW to \in RowStates,
             HasQuota(j, action), Cardinality(commands[j]) < MaxCommands,
             commands'[j] = commands[j] \cup {[id |-> c, action |-> action, state |-> to]}
      PROVE  /\ IsFiniteSet(commands'[j])
             /\ Cardinality(commands'[j]) <= MaxCommands
             /\ Cardinality(others(commands'[j])) < MaxCommands
  <2> DEFINE row == [id |-> c, action |-> action, state |-> to]
  <2>0. row.action = action
    OBVIOUS
  <2>1. commands'[j] = commands[j] \cup {row}
    BY <1>4
  <2> HIDE DEF row
  <2>2. /\ IsFiniteSet(commands'[j])
        /\ Cardinality(commands'[j]) \in {Cardinality(commands[j]), Cardinality(commands[j]) + 1}
    BY <1>0, <2>1, FS_AddElement
  <2>3. Cardinality(commands[j]) \in Nat
    BY <1>0, FS_CardinalityType
  <2>4. Cardinality(commands'[j]) <= MaxCommands
    BY <1>1, <1>4, <2>2, <2>3
  <2>5. CASE action = "cancel"
    <3>1. others(commands'[j]) = others(commands[j])
      BY <2>0, <2>1, <2>5
    <3> QED
      BY <1>0, <2>2, <2>4, <3>1
  <2>6. CASE action # "cancel"
    <3>1. Cardinality(commands[j]) + 1 < MaxCommands
      BY <1>4, <2>6 DEF HasQuota
    <3>2. others(commands'[j]) \subseteq commands'[j]
      OBVIOUS
    <3>3. /\ IsFiniteSet(others(commands'[j]))
          /\ Cardinality(others(commands'[j])) <= Cardinality(commands'[j])
      BY <2>2, <3>2, FS_Subset
    <3>4. Cardinality(others(commands'[j])) \in Nat /\ Cardinality(commands'[j]) \in Nat
      BY <2>2, <3>3, FS_CardinalityType
    <3> QED
      BY <1>1, <2>2, <2>3, <2>4, <3>1, <3>3, <3>4
  <2> QED
    BY <2>5, <2>6
<1> QED
  BY <1>2, <1>3, <1>4, HistoryStep

\* The command history keeps within MAX_COMMANDS_PER_JOB, and pauses and archivings
\* never take the last row, whatever commands are sent or repeated (control).
THEOREM CancelSlotIsKept == Spec => []CancelSlotKept
<1>1. Init => HistoryBounded
  <2> SUFFICES ASSUME Init, NEW j \in Jobs
               PROVE  /\ IsFiniteSet(commands[j])
                      /\ Cardinality(commands[j]) <= MaxCommands
                      /\ Cardinality(OtherCommands(j)) < MaxCommands
    BY DEF HistoryBounded
  <2>1. commands[j] = {} /\ OtherCommands(j) = {}
    BY DEF Init, OtherCommands
  <2> QED
    BY <2>1, BoundsAssumption, FS_EmptySet
<1>2. HistoryBounded => CancelSlotKept
  BY DEF HistoryBounded, CancelSlotKept, OtherCommands
<1> QED
  BY <1>1, <1>2, HistoryBoundedStep, TypeCorrect, PTL DEF Spec

(***************************************************************************)
(* The page budget.                                                        *)
(***************************************************************************)
\* The claims a source may have been charged for: all but those still worked on.
Charged(rows, s) ==
    {c \in ClaimsOf(rows, s) : ~(rows[c[1]].state = "processing" /\ rows[c[1]].attempt = c[2])}

\* A page that is not there was never claimed, and one that is worked on was.
AttemptsSound(rows) ==
    \A k \in Pages :
        /\ rows[k].attempt <= MaxAttempts
        /\ rows[k].state = "absent" => rows[k].attempt = 0
        /\ rows[k].state = "processing" => rows[k].attempt > 0

\* The charge n of a source lies between its settled pages and its finished claims.
Accounted(rows, s, n) ==
    /\ IsFiniteSet(SettledOf(rows, s))
    /\ IsFiniteSet(ClaimsOf(rows, s))
    /\ Cardinality(SettledOf(rows, s)) <= n
    /\ n <= Cardinality(Charged(rows, s))

BudgetInv ==
    \A j \in Jobs :
        /\ AttemptsSound(page[j])
        /\ \A s \in Sources : Accounted(page[j], s, processed[j][s])

\* The ways a step may change the pages and the charges of job j: not in what
\* they account for, ...
KeepsAccount(j) ==
    /\ processed'[j] = processed[j]
    /\ \A k \in Pages :
        /\ page'[j][k].attempt = page[j][k].attempt
        /\ page'[j][k].state = "succeeded" <=> page[j][k].state = "succeeded"
        /\ page'[j][k].state = "processing" => page[j][k].state = "processing"
        /\ page'[j][k].state = "absent" => page[j][k].state = "absent"

\* ... by a claim of page k, ...
Claimed(j, k) ==
    /\ processed'[j] = processed[j]
    /\ page[j][k].state \in {"pending", "failed"}
    /\ page[j][k].attempt < MaxAttempts
    /\ \E o \in Owners, g \in Gens :
         page'[j] = [page[j] EXCEPT ![k] =
           [state |-> "processing", owner |-> o, gen |-> g, attempt |-> page[j][k].attempt + 1]]

\* ... by the report of page k under its claim, ...
Reported(j, k) ==
    \E st \in {"succeeded", "failed"}, work \in {0, 1} :
        /\ page[j][k].state = "processing"
        /\ st = "succeeded" => work = 1
        /\ page'[j] = [page[j] EXCEPT ![k].state = st, ![k].owner = NONE]
        /\ processed'[j] = [processed[j] EXCEPT ![k[1]] = processed[j][k[1]] + work]

\* ... or by the deletion of the job.
Forgotten(j) ==
    /\ page'[j] = [k \in Pages |-> NoPage]
    /\ processed'[j] = [s \in Sources |-> 0]

\* A page is claimed, reported or removed in no other way.
LEMMA AccountStep ==
    ASSUME [Next]_storeVars, TypeOK, NEW j \in Jobs, AttemptsSound(page[j])
    PROVE  \/ KeepsAccount(j)
           \/ \E k \in Pages : Claimed(j, k) \/ Reported(j, k)
           \/ Forgotten(j)
<1> DEFINE Goal == \/ KeepsAccount(j)
                   \/ \E k \in Pages : Claimed(j, k) \/ Reported(j, k)
                   \/ Forgotten(j)
<1>0. /\ page \in [Jobs -> [Pages -> PageRow]]
      /\ page[j] \in [Pages -> PageRow]
      /\ processed \in [Jobs -> [Sources -> Nat]]
      /\ processed[j] \in [Sources -> Nat]
  BY DEF TypeOK
<1>1. page'[j] = page[j] /\ processed'[j] = processed[j] => Goal
  BY DEF KeepsAccount
<1>2. ASSUME NEW o \in Owners, ActivateSupervisor(o) PROVE Goal
  <2>1. KeepsAccount(j)
    BY <1>0, <1>2 DEF ActivateSupervisor, KeepsAccount, PageRow
  <2> QED
    BY <2>1
<1>3. ASSUME NEW i \in Jobs, NEW g \in Gens, NEW o \in Owners, StartJob(i, g, o) PROVE Goal
  <2>1. CASE i # j
    BY <1>0, <1>1, <1>3, <2>1 DEF StartJob
  <2>2. CASE i = j
    <3>1. page'[j] = [k \in Pages |->
            IF page[j][k].state \in {"absent", "succeeded"} THEN page[j][k]
            ELSE [page[j][k] EXCEPT !.state = "pending", !.owner = NONE, !.gen = g + 1]]
      BY <1>0, <1>3, <2>2 DEF StartJob
    <3>2. processed' = processed
      BY <1>3 DEF StartJob
    <3>3. KeepsAccount(j)
      <4> SUFFICES ASSUME NEW k \in Pages
                   PROVE  /\ page'[j][k].attempt = page[j][k].attempt
                          /\ page'[j][k].state = "succeeded" <=> page[j][k].state = "succeeded"
                          /\ page'[j][k].state = "processing" => page[j][k].state = "processing"
                          /\ page'[j][k].state = "absent" => page[j][k].state = "absent"
        BY <3>2 DEF KeepsAccount
      <4>1. page[j][k] \in PageRow
        BY <1>0
      <4> QED
        BY <3>1, <4>1 DEF PageRow
    <3> QED
      BY <3>3
  <2> QED
    BY <2>1, <2>2
<1>4. ASSUME NEW i \in Jobs, NEW g \in Gens, NEW o \in Owners, NEW cancelled \in BOOLEAN,
             FinishStop(i, g, o, cancelled)
      PROVE  Goal
  <2>1. CASE i # j
    BY <1>0, <1>1, <1>4, <2>1 DEF FinishStop
  <2>2. CASE i = j
    <3>1. page'[j] = [k \in Pages |->
            IF ClaimedBy(j, g, o, k)
            THEN [page[j][k] EXCEPT !.state = "pending", !.owner = NONE]
            ELSE page[j][k]]
      BY <1>0, <1>4, <2>2 DEF FinishStop
    <3>2. processed' = processed
      BY <1>4 DEF FinishStop
    <3>3. KeepsAccount(j)
      <4> SUFFICES ASSUME NEW k \in Pages
                   PROVE  /\ page'[j][k].attempt = page[j][k].attempt
                          /\ page'[j][k].state = "succeeded" <=> page[j][k].state = "succeeded"
                          /\ page'[j][k].state = "processing" => page[j][k].state = "processing"
                          /\ page'[j][k].state = "absent" => page[j][k].state = "absent"
        BY <3>2 DEF KeepsAccount
      <4>1. page[j][k] \in PageRow
        BY <1>0
      <4> QED
        BY <3>1, <4>1 DEF PageRow, ClaimedBy
    <3> QED
      BY <3>3
  <2> QED
    BY <2>1, <2>2
<1>5. ASSUME NEW i \in Jobs, NEW g \in Gens, NEW o \in Owners, NEW s \in Sources,
             NEW d \in Digests, RegisterSource(i, g, o, s, d)
      PROVE  Goal
  <2>1. CASE i # j
    BY <1>0, <1>1, <1>5, <2>1 DEF RegisterSource
  <2>2. CASE i = j
    <3>1. page'[j] = [k \in Pages |->
            IF k \in PageKeys(s, d) /\ page[j][k].state = "absent"
            THEN [state |-> "pending", owner |-> NONE, gen |-> job[j].gen, attempt |-> 0]
            ELSE page[j][k]]
      BY <1>0, <1>5, <2>2 DEF RegisterSource
    <3>2. processed' = processed
      BY <1>5 DEF RegisterSource
    <3>3. \A k \in Pages : page[j][k].state = "absent" => page[j][k].attempt = 0
      BY DEF AttemptsSound
    <3>4. KeepsAccount(j)
      BY <1>0, <3>1, <3>2, <3>3 DEF KeepsAccount, PageRow
    <3> QED
      BY <3>4
  <2> QED
    BY <2>1, <2>2
<1>6. ASSUME NEW i \in Jobs, NEW g \in Gens, NEW o \in Owners, NEW k \in Pages,
             BeginPage(i, g, o, k)
      PROVE  Goal
  <2>1. CASE i # j
    BY <1>0, <1>1, <1>6, <2>1 DEF BeginPage
  <2>2. CASE i = j
    <3>1. page'[j] = [page[j] EXCEPT ![k] =
            [state |-> "processing", owner |-> o, gen |-> g, attempt |-> page[j][k].attempt + 1]]
      BY <1>0, <1>6, <2>2 DEF BeginPage
    <3>2. /\ processed' = processed
          /\ page[j][k].state \in {"pending", "failed"}
          /\ page[j][k].attempt < MaxAttempts
      BY <1>6, <2>2 DEF BeginPage, Claimable
    <3>3. Claimed(j, k)
      BY <3>1, <3>2 DEF Claimed
    <3> QED
      BY <3>3
  <2> QED
    BY <2>1, <2>2
<1>7. ASSUME NEW i \in Jobs, NEW g \in Gens, NEW o \in Owners, NEW k \in Pages,
             NEW attempt \in 1 .. MaxAttempts, NEW d \in Digests,
             CommitPage(i, g, o, k, attempt, d, processed[i][k[1]] + 1)
      PROVE  Goal
  <2>1. CASE i # j
    BY <1>0, <1>1, <1>7, <2>1 DEF CommitPage
  <2>2. CASE i = j
    <3>1. page'[j] = [page[j] EXCEPT ![k].state = "succeeded", ![k].owner = NONE]
      BY <1>0, <1>7, <2>2 DEF CommitPage
    <3>2. processed'[j] = [processed[j] EXCEPT ![k[1]] = processed[j][k[1]] + 1]
      BY <1>0, <1>7, <2>2 DEF CommitPage
    <3>3. page[j][k].state = "processing"
      BY <1>7, <2>2 DEF CommitPage, HoldsClaim, ClaimedBy
    <3>4. Reported(j, k)
      BY <3>1, <3>2, <3>3 DEF Reported
    <3> QED
      BY <3>4
  <2> QED
    BY <2>1, <2>2
<1>8. ASSUME NEW i \in Jobs, NEW g \in Gens, NEW o \in Owners, NEW k \in Pages,
             NEW attempt \in 1 .. MaxAttempts, NEW work \in {0, 1},
             FailPage(i, g, o, k, attempt, processed[i][k[1]] + work)
      PROVE  Goal
  <2>1. CASE i # j
    BY <1>0, <1>1, <1>8, <2>1 DEF FailPage
  <2>2. CASE i = j
    <3>1. page'[j] = [page[j] EXCEPT ![k].state = "failed", ![k].owner = NONE]
      BY <1>0, <1>8, <2>2 DEF FailPage
    <3>2. processed'[j] = [processed[j] EXCEPT ![k[1]] = processed[j][k[1]] + work]
      BY <1>0, <1>8, <2>2 DEF FailPage
    <3>3. page[j][k].state = "processing"
      BY <1>8, <2>2 DEF FailPage, HoldsClaim, ClaimedBy
    <3>4. Reported(j, k)
      BY <3>1, <3>2, <3>3 DEF Reported
    <3> QED
      BY <3>4
  <2> QED
    BY <2>1, <2>2
<1>9. ASSUME NEW i \in Jobs, DeleteJob(i) PROVE Goal
  <2>1. CASE i # j
    BY <1>0, <1>1, <1>9, <2>1 DEF DeleteJob
  <2>2. CASE i = j
    BY <1>0, <1>9, <2>2 DEF DeleteJob, Forgotten
  <2> QED
    BY <2>1, <2>2
<1>10. UNCHANGED <<page, processed>> => Goal
  BY <1>1
<1>a. CASE HostStep
  BY <1>a, <1>2, <1>3, <1>4 DEF HostStep
<1>b. CASE WorkerStep
  <2>1. ASSUME NEW i \in Jobs, NEW g \in Gens, NEW o \in Owners,
               \/ \E move \in WorkerMoves : Transition(i, g, o, move[1], move[2])
               \/ PublishSnapshot(i, g, o)
        PROVE  Goal
    BY <2>1, <1>10 DEF Transition, PublishSnapshot
  <2>2. ASSUME NEW i \in Jobs, NEW g \in Gens, NEW o \in Owners, NEW s \in Sources, NEW d \in Digests,
               ReregisterSource(i, g, o, s, d) \/ VerifySource(i, g, o, s, d)
        PROVE  Goal
    BY <2>2, <1>10 DEF ReregisterSource, VerifySource
  <2>3. ASSUME NEW i \in Jobs, NEW g \in Gens, NEW o \in Owners, NEW s \in Sources,
               NEW outcome \in {"failed", "blocked"}, FailSource(i, g, o, s, outcome)
        PROVE  Goal
    BY <2>3, <1>10 DEF FailSource
  <2> QED
    BY <1>b, <1>5, <1>6, <1>7, <1>8, <2>1, <2>2, <2>3 DEF WorkerStep
<1>c. CASE ClientStep
  <2>1. ASSUME NEW i \in Jobs,
               \/ CreateJob(i) \/ CloseGate(i)
               \/ \E g \in Gens, c \in CommandIds, action \in Actions, to \in RowStates :
                    Control(i, g, c, action, to)
        PROVE  Goal
    BY <2>1, <1>10 DEF CreateJob, CloseGate, Control
  <2>2. ASSUME NEW i \in Jobs, NEW s \in Sources, NEW d \in Digests, RelocateSource(i, s, d)
        PROVE  Goal
    BY <2>2, <1>10 DEF RelocateSource
  <2> QED
    BY <1>c, <1>9, <2>1, <2>2 DEF ClientStep
<1>d. CASE UNCHANGED storeVars
  BY <1>d, <1>10 DEF storeVars
<1> QED
  BY <1>a, <1>b, <1>c, <1>d DEF Next

\* Nothing the account rests on changes.
LEMMA AccountKept ==
    ASSUME TypeOK, TypeOK', BudgetInv, NEW j \in Jobs, KeepsAccount(j)
    PROVE  /\ AttemptsSound(page'[j])
           /\ \A s \in Sources : Accounted(page'[j], s, processed'[j][s])
<1>0. /\ page[j] \in [Pages -> PageRow]
      /\ page'[j] \in [Pages -> PageRow]
  BY DEF TypeOK
<1>1. AttemptsSound(page'[j])
  BY DEF BudgetInv, AttemptsSound, KeepsAccount
<1>2. ASSUME NEW s \in Sources
      PROVE  Accounted(page'[j], s, processed'[j][s])
  <2>1. Accounted(page[j], s, processed[j][s])
    BY DEF BudgetInv
  <2>2. SettledOf(page'[j], s) = SettledOf(page[j], s)
    BY DEF SettledOf, KeepsAccount
  <2>3. ClaimsOf(page'[j], s) = ClaimsOf(page[j], s)
    BY DEF ClaimsOf, KeepsAccount
  <2>4. Charged(page[j], s) \subseteq Charged(page'[j], s)
    <3> SUFFICES ASSUME NEW c \in Charged(page[j], s)
                 PROVE  c \in Charged(page'[j], s)
      OBVIOUS
    <3>1. c \in ClaimsOf(page'[j], s) /\ c[1] \in Pages
      BY <2>3 DEF Charged, ClaimsOf
    <3> QED
      BY <3>1 DEF Charged, KeepsAccount
  <2>5. Charged(page'[j], s) \subseteq ClaimsOf(page[j], s)
    BY <2>3 DEF Charged
  <2>6. IsFiniteSet(Charged(page'[j], s))
    BY <2>1, <2>5, FS_Subset DEF Accounted
  <2>7. Cardinality(Charged(page[j], s)) <= Cardinality(Charged(page'[j], s))
    BY <2>4, <2>6, FS_Subset
  <2>8. /\ Cardinality(Charged(page[j], s)) \in Nat
        /\ Cardinality(Charged(page'[j], s)) \in Nat
    BY <2>4, <2>6, FS_Subset, FS_CardinalityType
  <2>9. processed'[j][s] = processed[j][s] /\ processed[j][s] \in Nat
    BY DEF KeepsAccount, TypeOK
  <2> QED
    BY <2>1, <2>2, <2>3, <2>7, <2>8, <2>9 DEF Accounted
<1> QED
  BY <1>1, <1>2

\* A claim adds to the claims, not to what has been charged or settled.
LEMMA AccountClaimed ==
    ASSUME TypeOK, BudgetInv, NEW j \in Jobs, NEW k \in Pages, Claimed(j, k)
    PROVE  /\ AttemptsSound(page'[j])
           /\ \A s \in Sources : Accounted(page'[j], s, processed'[j][s])
<1>0. /\ page[j] \in [Pages -> PageRow]
      /\ page[j][k].attempt \in Nat
      /\ page[j][k].attempt < MaxAttempts
      /\ MaxAttempts \in Nat
  BY BoundsAssumption DEF TypeOK, PageRow, Claimed
<1> DEFINE a == page[j][k].attempt + 1
<1>1. a \in 1 .. MaxAttempts
  BY <1>0
<1>2. PICK o \in Owners, g \in Gens :
        page'[j] = [page[j] EXCEPT ![k] =
          [state |-> "processing", owner |-> o, gen |-> g, attempt |-> a]]
  BY DEF Claimed
<1>3. /\ \A x \in Pages \ {k} : page'[j][x] = page[j][x]
      /\ page'[j][k].state = "processing"
      /\ page'[j][k].attempt = a
      /\ page[j][k].state \in {"pending", "failed"}
  BY <1>0, <1>2 DEF Claimed
<1>4. AttemptsSound(page[j])
  BY DEF BudgetInv
<1>5. AttemptsSound(page'[j])
  BY <1>1, <1>3, <1>4 DEF AttemptsSound
<1>6. ASSUME NEW s \in Sources
      PROVE  Accounted(page'[j], s, processed'[j][s])
  <2>1. Accounted(page[j], s, processed[j][s])
    BY DEF BudgetInv
  <2>2. SettledOf(page'[j], s) = SettledOf(page[j], s)
    BY <1>3 DEF SettledOf
  <2>3. ClaimsOf(page'[j], s) = ClaimsOf(page[j], s) \cup (IF k[1] = s THEN {<<k, a>>} ELSE {})
    <3>1. ASSUME NEW x \in Pages, NEW n \in 1 .. MaxAttempts
          PROVE  <<x, n>> \in ClaimsOf(page'[j], s)
                   <=> <<x, n>> \in ClaimsOf(page[j], s) \/ (x = k /\ k[1] = s /\ n = a)
      <4>1. CASE x = k
        BY <1>0, <1>3, <4>1 DEF ClaimsOf
      <4>2. CASE x # k
        BY <1>3, <4>2 DEF ClaimsOf
      <4> QED
        BY <4>1, <4>2
    <3>2. /\ ClaimsOf(page'[j], s) \subseteq Pages \X (1 .. MaxAttempts)
          /\ ClaimsOf(page[j], s) \subseteq Pages \X (1 .. MaxAttempts)
          /\ <<k, a>> \in Pages \X (1 .. MaxAttempts)
      BY <1>1 DEF ClaimsOf
    <3> HIDE DEF a
    <3>3. ASSUME NEW c \in Pages \X (1 .. MaxAttempts)
          PROVE  c \in ClaimsOf(page'[j], s)
                   <=> c \in ClaimsOf(page[j], s) \/ (c = <<k, a>> /\ k[1] = s)
      <4>1. PICK x \in Pages, n \in 1 .. MaxAttempts : c = <<x, n>>
        OBVIOUS
      <4> QED
        BY <3>1, <4>1
    <3> QED
      BY <3>2, <3>3
  <2>4. IsFiniteSet(ClaimsOf(page'[j], s))
    <3>1. CASE k[1] = s
      <4>1. ClaimsOf(page'[j], s) = ClaimsOf(page[j], s) \cup {<<k, a>>}
        BY <2>3, <3>1
      <4> QED
        BY <2>1, <4>1, FS_AddElement DEF Accounted
    <3>2. CASE k[1] # s
      BY <2>1, <2>3, <3>2 DEF Accounted
    <3> QED
      BY <3>1, <3>2
  <2>5. Charged(page[j], s) = Charged(page'[j], s)
    <3>1. ASSUME NEW x \in Pages, NEW n \in 1 .. MaxAttempts
          PROVE  <<x, n>> \in Charged(page'[j], s) <=> <<x, n>> \in Charged(page[j], s)
      <4>1. CASE x = k
        BY <1>0, <1>3, <4>1 DEF ClaimsOf, Charged
      <4>2. CASE x # k
        BY <1>3, <4>2 DEF ClaimsOf, Charged
      <4> QED
        BY <4>1, <4>2
    <3>2. /\ Charged(page'[j], s) \subseteq Pages \X (1 .. MaxAttempts)
          /\ Charged(page[j], s) \subseteq Pages \X (1 .. MaxAttempts)
      BY DEF Charged, ClaimsOf
    <3>3. ASSUME NEW c \in Pages \X (1 .. MaxAttempts)
          PROVE  c \in Charged(page'[j], s) <=> c \in Charged(page[j], s)
      <4>1. PICK x \in Pages, n \in 1 .. MaxAttempts : c = <<x, n>>
        OBVIOUS
      <4> QED
        BY <3>1, <4>1
    <3> QED
      BY <3>2, <3>3
  <2>6. processed'[j][s] = processed[j][s]
    BY DEF Claimed
  <2> QED
    BY <2>1, <2>2, <2>4, <2>5, <2>6 DEF Accounted
<1> QED
  BY <1>5, <1>6

\* A report ends one claim, which is then charged at most once.
LEMMA AccountReported ==
    ASSUME TypeOK, BudgetInv, NEW j \in Jobs, NEW k \in Pages, Reported(j, k)
    PROVE  /\ AttemptsSound(page'[j])
           /\ \A s \in Sources : Accounted(page'[j], s, processed'[j][s])
<1>0. /\ page[j] \in [Pages -> PageRow]
      /\ page[j][k] \in PageRow
      /\ page[j][k].attempt \in Nat
      /\ MaxAttempts \in Nat
      /\ processed[j] \in [Sources -> Nat]
  BY BoundsAssumption DEF TypeOK, PageRow
<1>1. PICK st \in {"succeeded", "failed"}, work \in {0, 1} :
        /\ page[j][k].state = "processing"
        /\ st = "succeeded" => work = 1
        /\ page'[j] = [page[j] EXCEPT ![k].state = st, ![k].owner = NONE]
        /\ processed'[j] = [processed[j] EXCEPT ![k[1]] = processed[j][k[1]] + work]
  BY DEF Reported
<1> DEFINE a == page[j][k].attempt
<1>2. /\ \A x \in Pages \ {k} : page'[j][x] = page[j][x]
      /\ \A x \in Pages : page'[j][x].attempt = page[j][x].attempt
      /\ page'[j][k].state = st
  BY <1>0, <1>1 DEF PageRow
<1>3. AttemptsSound(page[j])
  BY DEF BudgetInv
<1>4. AttemptsSound(page'[j])
  BY <1>1, <1>2, <1>3 DEF AttemptsSound
<1>5. a \in 1 .. MaxAttempts
  BY <1>0, <1>1, <1>3 DEF AttemptsSound
<1>6. ASSUME NEW s \in Sources
      PROVE  Accounted(page'[j], s, processed'[j][s])
  <2>1. Accounted(page[j], s, processed[j][s])
    BY DEF BudgetInv
  <2>2. ClaimsOf(page'[j], s) = ClaimsOf(page[j], s)
    BY <1>2 DEF ClaimsOf
  <2>3. Charged(page[j], s) \subseteq ClaimsOf(page[j], s)
    BY DEF Charged
  <2>4. IsFiniteSet(Charged(page[j], s))
    BY <2>1, <2>3, FS_Subset DEF Accounted
  <2>5. CASE k[1] # s
    <3>1. SettledOf(page'[j], s) = SettledOf(page[j], s)
      BY <1>2, <2>5 DEF SettledOf
    <3>2. Charged(page'[j], s) = Charged(page[j], s)
      BY <1>2, <2>2, <2>5 DEF Charged, ClaimsOf
    <3>3. processed'[j][s] = processed[j][s]
      BY <1>0, <1>1, <2>5
    <3> QED
      BY <2>1, <2>2, <3>1, <3>2, <3>3 DEF Accounted
  <2>6. CASE k[1] = s
    <3>1. <<k, a>> \in ClaimsOf(page[j], s)
      BY <1>0, <1>5, <2>6 DEF ClaimsOf
    <3>2. <<k, a>> \notin Charged(page[j], s)
      BY <1>1 DEF Charged
    <3>3. Charged(page'[j], s) = Charged(page[j], s) \cup {<<k, a>>}
      <4>1. ASSUME NEW c \in ClaimsOf(page[j], s)
            PROVE  c \in Charged(page'[j], s) <=> c \in Charged(page[j], s) \/ c = <<k, a>>
        <5>1. PICK x \in Pages, n \in 1 .. MaxAttempts : c = <<x, n>>
          BY DEF ClaimsOf
        <5>2. CASE x = k
          BY <1>1, <1>2, <2>2, <5>1, <5>2 DEF Charged
        <5>3. CASE x # k
          BY <1>2, <2>2, <5>1, <5>3 DEF Charged
        <5> QED
          BY <5>2, <5>3
      <4>2. Charged(page'[j], s) \subseteq ClaimsOf(page[j], s)
        BY <2>2 DEF Charged
      <4> QED
        BY <2>3, <3>1, <4>1, <4>2
    <3>4. Cardinality(Charged(page'[j], s)) = Cardinality(Charged(page[j], s)) + 1
      BY <2>4, <3>2, <3>3, FS_AddElement
    <3>5. Cardinality(Charged(page[j], s)) \in Nat
      BY <2>4, FS_CardinalityType
    <3>6. /\ processed'[j][s] = processed[j][s] + work
          /\ processed[j][s] \in Nat
      BY <1>0, <1>1, <2>6
    <3>7. k \notin SettledOf(page[j], s)
      BY <1>1 DEF SettledOf
    <3>8. Cardinality(SettledOf(page[j], s)) \in Nat
      BY <2>1, FS_CardinalityType DEF Accounted
    <3>9. CASE st = "succeeded"
      <4>1. SettledOf(page'[j], s) = SettledOf(page[j], s) \cup {k}
        BY <1>2, <2>6, <3>9 DEF SettledOf
      <4>2. /\ IsFiniteSet(SettledOf(page'[j], s))
            /\ Cardinality(SettledOf(page'[j], s)) = Cardinality(SettledOf(page[j], s)) + 1
        BY <2>1, <3>7, <4>1, FS_AddElement DEF Accounted
      <4> QED
        BY <1>1, <2>1, <2>2, <3>4, <3>5, <3>6, <3>8, <3>9, <4>2 DEF Accounted
    <3>10. CASE st = "failed"
      <4>1. SettledOf(page'[j], s) = SettledOf(page[j], s)
        BY <1>1, <1>2, <3>10 DEF SettledOf
      <4> QED
        BY <2>1, <2>2, <3>4, <3>5, <3>6, <3>8, <4>1 DEF Accounted
    <3> QED
      BY <3>9, <3>10
  <2> QED
    BY <2>5, <2>6
<1> QED
  BY <1>4, <1>6

\* A deleted job has no pages, no claims and no charges.
LEMMA AccountEmpty ==
    ASSUME NEW rows, rows = [k \in Pages |-> NoPage], NEW s \in Sources
    PROVE  AttemptsSound(rows) /\ Accounted(rows, s, 0)
<1>1. ClaimsOf(rows, s) = {}
  BY DEF ClaimsOf, NoPage
<1>2. SettledOf(rows, s) = {}
  BY DEF SettledOf, NoPage
<1>3. Charged(rows, s) = {}
  BY <1>1 DEF Charged
<1>4. AttemptsSound(rows)
  BY BoundsAssumption DEF AttemptsSound, NoPage
<1> QED
  BY <1>1, <1>2, <1>3, <1>4, FS_EmptySet DEF Accounted

LEMMA BudgetStep == TypeOK /\ TypeOK' /\ BudgetInv /\ [Next]_storeVars => BudgetInv'
<1> SUFFICES ASSUME TypeOK, TypeOK', BudgetInv, [Next]_storeVars, NEW j \in Jobs
             PROVE  /\ AttemptsSound(page'[j])
                    /\ \A s \in Sources : Accounted(page'[j], s, processed'[j][s])
  BY DEF BudgetInv
<1>1. AttemptsSound(page[j])
  BY DEF BudgetInv
<1>2. CASE KeepsAccount(j)
  BY <1>2, AccountKept
<1>3. CASE \E k \in Pages : Claimed(j, k) \/ Reported(j, k)
  BY <1>3, AccountClaimed, AccountReported
<1>4. CASE Forgotten(j)
  <2>1. AttemptsSound(page'[j])
    BY <1>4, BoundsAssumption DEF Forgotten, AttemptsSound, NoPage
  <2>2. ASSUME NEW s \in Sources
        PROVE  Accounted(page'[j], s, processed'[j][s])
    <3>1. page'[j] = [k \in Pages |-> NoPage] /\ processed'[j][s] = 0
      BY <1>4 DEF Forgotten
    <3> QED
      BY <3>1, AccountEmpty
  <2> QED
    BY <2>1, <2>2
<1> QED
  BY <1>1, <1>2, <1>3, <1>4, AccountStep

\* Whatever claims are lost to crashes and takeovers and whatever reports are late, a
\* source is charged for every page it settled and for no claim twice (commit_page,
\* fail_page, start_job).
THEOREM BudgetIsKept == Spec => []BudgetMatchesWork
<1>1. Init => BudgetInv
  <2> SUFFICES ASSUME Init, NEW j \in Jobs
               PROVE  /\ AttemptsSound(page[j])
                      /\ \A s \in Sources : Accounted(page[j], s, processed[j][s])
    BY DEF BudgetInv
  <2>1. page[j] = [k \in Pages |-> NoPage] /\ \A s \in Sources : processed[j][s] = 0
    BY DEF Init
  <2>2. AttemptsSound(page[j])
    BY <2>1, BoundsAssumption DEF AttemptsSound, NoPage
  <2> QED
    BY <2>1, <2>2, AccountEmpty
<1>2. TypeOK /\ BudgetInv => BudgetMatchesWork
  <2> SUFFICES ASSUME TypeOK, BudgetInv, NEW j \in Jobs, NEW s \in Sources
               PROVE  /\ Cardinality(SettledOf(page[j], s)) <= processed[j][s]
                      /\ processed[j][s] <= Cardinality(ClaimsOf(page[j], s))
    BY DEF BudgetMatchesWork
  <2>1. Accounted(page[j], s, processed[j][s])
    BY DEF BudgetInv
  <2>2. Charged(page[j], s) \subseteq ClaimsOf(page[j], s)
    BY DEF Charged
  <2>3. /\ IsFiniteSet(Charged(page[j], s))
        /\ Cardinality(Charged(page[j], s)) <= Cardinality(ClaimsOf(page[j], s))
    BY <2>1, <2>2, FS_Subset DEF Accounted
  <2>4. Cardinality(Charged(page[j], s)) \in Nat /\ Cardinality(ClaimsOf(page[j], s)) \in Nat
    BY <2>1, <2>3, FS_CardinalityType DEF Accounted
  <2>5. processed[j][s] \in Nat
    BY DEF TypeOK
  <2> QED
    BY <2>1, <2>3, <2>4, <2>5 DEF Accounted
<1> QED
  BY <1>1, <1>2, BudgetStep, TypeCorrect, PTL DEF Spec
=============================================================================
