--------------------------- MODULE BatchRunProofs ---------------------------
(***************************************************************************)
(* Proofs about one desktop application running batches (BatchRun), for    *)
(* any number of jobs, sources, pages and applications: every step is a    *)
(* transaction of the database (BatchStore) or leaves it alone, a worker   *)
(* owns its run until it has stopped, the slot never loses sight of a run, *)
(* a job at rest stays as it is, and a settlement respects the winner.     *)
(***************************************************************************)
EXTENDS BatchRun, BatchStoreProofs, WellFoundedInduction

USE DEF RowStates, JobStates, ActiveStates, ExecutionStates, StartableStates, PublishedStates

(***************************************************************************)
(* The inductive invariant                                                 *)
(***************************************************************************)
\* A process that does not exist yet, or no longer.
Quiet(o) == proc[o].stage \in {"none", "exited"}

\* Stages past the first checkpoint: the process works on its run.
OwningStages == LeasedStages \ ({"begin", "recheck"} \cup EndStages)
Working(o) ==
    proc[o].stage \in OwningStages \/ (proc[o].stage = "begin" /\ proc[o].seen = "validating")

\* Stages with a source at hand.
SourceStages == {"claiming", "source_failed"} \cup PageStages

\* What a job may have come to while a page of it is computed, and while its
\* host is settling it.
ClaimStates == {"running", "pause_requested", "cancel_requested"}
SettledStates == ActiveStates \cup {"paused", "cancelled"}

\* The lease names the one process that writes, which owns the run it works
\* on and the page it computes.
ProcessOK(o) ==
    /\ proc[o].stage # "none" => proc[o].job \in Jobs
    /\ proc[o].stage \in SourceStages => proc[o].todo # {}
    /\ proc[o].seen # NONE => proc[o].stage \in CheckedStages
    /\ proc[o].stage \in LeasedStages <=> lease = o
    /\ Working(o) => Owns(proc[o].job, proc[o].gen, o) /\ ~job[proc[o].job].deleting
    /\ proc[o].stage \in PageStages =>
         /\ proc[o].page \in Pages /\ proc[o].attempt \in 1 .. MaxAttempts
         /\ HoldsClaim(proc[o].job, proc[o].gen, o, proc[o].page, proc[o].attempt)
         /\ job[proc[o].job].state \in ClaimStates

\* Generations are counted from one, by starts; a job never started is unread.
JobOK(j) ==
    /\ job[j].gen \in Gens
    /\ job[j].owner # NONE => Exists(j)
    /\ job[j].gen = 0 => job[j].owner = NONE /\ \A s \in Sources : source[j][s].sha = NONE
    /\ job[j].state = "validating" => \A k \in Pages : page[j][k].state # "processing"

\* An application serves once it has taken over.  Before, it has no worker,
\* and when its answer was lost there is nothing left to take over.
HostOK ==
    /\ host.initialized => host.owner # NONE /\ supervisor = host.owner
    /\ host.owner # NONE /\ ~host.initialized =>
         /\ proc[host.owner].stage = "none"
         /\ supervisor = host.owner => \A j \in Jobs : ~Active(j)

\* The slot says whether a process may be about, and a settlement holds the
\* lease of a run that is active or that the user has ended in between.
SlotOK ==
    /\ lease = "host" <=> SlotIn("stopping")
    /\ slot = NONE /\ host.owner # NONE => Quiet(host.owner)
    /\ slot # NONE =>
         /\ host.initialized
         /\ slot.gen # 0
         /\ slot.stage \in {"starting", "started", "watched"} => ~slot.stopped
         /\ slot.stage = "stopping" => slot.stopped
         /\ slot.stage = "watched" => proc[host.owner].stage # "none"
         /\ slot.stage \in {"starting", "started"} \/ slot.stopped => Quiet(host.owner)
    /\ SlotIn("stopping") =>
         /\ ~job[slot.job].deleting
         /\ job[slot.job].state \in SettledStates
         /\ Active(slot.job) \/ \A k \in Pages : page[slot.job][k].state # "processing"

RunInv ==
    /\ RunTypeOK
    /\ Safety
    /\ \A o \in Owners : ProcessOK(o)
    /\ \A j \in Jobs : JobOK(j)
    /\ HostOK
    /\ SlotOK
    /\ NoForgottenRun

(***************************************************************************)
(* First picks an element: sources and pages are numbered.                 *)
(***************************************************************************)
Below == {p \in Nat \X Nat : p[1] < p[2]}

LEMMA BelowWellFounded == IsWellFoundedOn(Below, Nat)
<1>1. IsWellFoundedOn(OpToRel(<, Nat), Nat)
  BY NatLessThanWellFounded
<1>2. OpToRel(<, Nat) = Below
  BY DEF OpToRel, Below
<1> QED
  BY <1>1, <1>2

LEMMA FirstIn ==
    ASSUME NEW S, S \subseteq Nat, S # {}
    PROVE  First(S) \in S
<1>1. PICK x \in S : \A y \in S : ~(<<y, x>> \in Below)
  BY BelowWellFounded, WFMin
<1>2. ASSUME NEW y \in S PROVE x <= y
  <2>1. x \in Nat /\ y \in Nat
    OBVIOUS
  <2>2. ~(<<y, x>> \in Below)
    BY <1>1
  <2>3. ~(y < x)
    BY <2>1, <2>2, SMT DEF Below
  <2> QED
    BY <2>1, <2>3
<1> QED
  BY <1>2 DEF First

(***************************************************************************)
(* The stages, told apart.                                                 *)
(***************************************************************************)
LEMMA StageFacts ==
    /\ OwningStages \subseteq LeasedStages /\ PageStages \subseteq OwningStages
    /\ SourceStages \subseteq OwningStages /\ PageStages \subseteq SourceStages
    /\ "begin" \in LeasedStages \ OwningStages /\ "recheck" \in LeasedStages \ OwningStages
    /\ EndStages \subseteq LeasedStages /\ EndStages \cap OwningStages = {}
    /\ "none" \notin LeasedStages /\ "spawned" \notin LeasedStages /\ "exited" \notin LeasedStages
    /\ "begin" \notin SourceStages
  BY DEF OwningStages, LeasedStages, PageStages, SourceStages, CheckedStages, EndStages

(***************************************************************************)
(* The process variable under the updates the steps make.                  *)
(***************************************************************************)
LEMMA BecomesAt ==
    ASSUME proc \in [Owners -> Proc], NEW o \in Owners, NEW new, Becomes(o, new)
    PROVE  /\ proc'[o] = new
           /\ \A q \in Owners \ {o} : proc'[q] = proc[q]
           /\ new \in Proc => proc' \in [Owners -> Proc]
  BY DEF Becomes

LEMMA LeavesAt ==
    ASSUME proc \in [Owners -> Proc], NEW o \in Owners, NEW stage \in Stages, Leaves(o, stage)
    PROVE  /\ proc' \in [Owners -> Proc]
           /\ proc'[o].stage = stage /\ proc'[o].job = proc[o].job /\ proc'[o].gen = proc[o].gen
           /\ proc'[o].seen = NONE
           /\ \A q \in Owners \ {o} : proc'[q] = proc[q]
<1> DEFINE new == [NoProc EXCEPT !.stage = stage, !.job = proc[o].job, !.gen = proc[o].gen]
<1>1. proc[o] \in Proc
  OBVIOUS
<1>2. /\ new.stage = stage /\ new.job = proc[o].job /\ new.gen = proc[o].gen
      /\ new.seen = NONE
  BY DEF NoProc
<1>3. new \in Proc
  <2>1. proc[o].job \in Jobs \cup {NONE} /\ proc[o].gen \in Nat
    BY <1>1 DEF Proc
  <2> QED
    BY <2>1 DEF Proc, NoProc
<1>4. Becomes(o, new)
  BY DEF Leaves
<1> QED
  BY <1>2, <1>3, <1>4, BecomesAt

LEMMA GoesToAt ==
    ASSUME proc \in [Owners -> Proc], NEW o \in Owners, NEW stage \in Stages, GoesTo(o, stage)
    PROVE  /\ proc' \in [Owners -> Proc]
           /\ proc'[o] = [proc[o] EXCEPT !.stage = stage, !.seen = NONE]
           /\ \A q \in Owners \ {o} : proc'[q] = proc[q]
<1>1. [proc[o] EXCEPT !.stage = stage, !.seen = NONE] \in Proc
  BY ZenonT(40) DEF Proc
<1> QED
  BY <1>1, BecomesAt DEF GoesTo

(***************************************************************************)
(* What a step of a process is, seen from outside: the process alone moves *)
(* on, and only one that holds the lease writes.                           *)
(***************************************************************************)
Frame(o) ==
    /\ UNCHANGED <<host, slot, supervisor>>
    /\ proc' \in [Owners -> Proc]
    /\ \A q \in Owners \ {o} : proc'[q] = proc[q]
    /\ proc[o].stage \notin {"none", "exited"}
    /\ proc'[o].stage \notin {"none", "spawned"}
    /\ proc'[o].job = proc[o].job /\ proc'[o].gen = proc[o].gen
    /\ \/ /\ proc[o].stage = "spawned" /\ lease = NONE
          /\ proc'[o].stage = "begin" /\ proc'[o].seen = NONE
          /\ lease' = o /\ UNCHANGED storeVars
       \/ /\ proc[o].stage \in LeasedStages /\ proc'[o].stage \in LeasedStages
          /\ lease' = lease
       \/ /\ proc'[o].stage = "exited" /\ proc'[o].seen = NONE /\ UNCHANGED storeVars
          /\ \/ proc[o].stage = "spawned" /\ lease' = lease
             \/ lease' = Released(o)

LEMMA FrameMoves ==
    ASSUME proc \in [Owners -> Proc], NEW o \in Owners, NEW new \in Proc, Becomes(o, new),
           proc[o].stage \in LeasedStages, new.stage \in LeasedStages,
           new.job = proc[o].job, new.gen = proc[o].gen,
           UNCHANGED <<host, slot, lease, supervisor>>
    PROVE  Frame(o)
  BY BecomesAt, StageFacts DEF Frame

LEMMA FrameLeaves ==
    ASSUME proc \in [Owners -> Proc], NEW o \in Owners, NEW stage \in LeasedStages, Leaves(o, stage),
           proc[o].stage \in LeasedStages,
           UNCHANGED <<host, slot, lease, supervisor>>
    PROVE  Frame(o)
<1>1. stage \in Stages
  BY DEF Stages
<1> QED
  BY <1>1, LeavesAt, StageFacts DEF Frame

LEMMA FrameGoes ==
    ASSUME proc \in [Owners -> Proc], NEW o \in Owners, NEW stage \in LeasedStages, GoesTo(o, stage),
           proc[o].stage \in LeasedStages,
           UNCHANGED <<host, slot, lease, supervisor>>
    PROVE  Frame(o)
<1>1. stage \in Stages /\ proc[o] \in Proc
  BY DEF Stages
<1>2. /\ [proc[o] EXCEPT !.stage = stage, !.seen = NONE] \in Proc
      /\ [proc[o] EXCEPT !.stage = stage, !.seen = NONE].stage = stage
      /\ [proc[o] EXCEPT !.stage = stage, !.seen = NONE].job = proc[o].job
      /\ [proc[o] EXCEPT !.stage = stage, !.seen = NONE].gen = proc[o].gen
  BY <1>1 DEF Proc
<1> QED
  BY <1>2, FrameMoves DEF GoesTo

LEMMA FrameConflict ==
    ASSUME proc \in [Owners -> Proc], NEW o \in Owners, RaisesConflict(o),
           proc[o].stage \in LeasedStages,
           UNCHANGED <<host, slot, lease, supervisor>>
    PROVE  Frame(o)
<1>1. "failed" \in LeasedStages /\ "recheck" \in LeasedStages
  BY DEF LeasedStages, EndStages, CheckedStages
<1> QED
  BY <1>1, FrameLeaves DEF RaisesConflict

LEMMA ProcessFrame ==
    ASSUME RunTypeOK, NEW o \in Owners, ProcessOK(o), \A j \in Jobs : JobOK(j),
           ProcessStep(o) \/ Die(o)
    PROVE  Frame(o)
<1>0. proc \in [Owners -> Proc] /\ proc[o] \in Proc
  BY DEF RunTypeOK
<1>s. /\ CheckedStages \subseteq LeasedStages /\ PageStages \subseteq LeasedStages
      /\ "finished" \in LeasedStages /\ "failed" \in LeasedStages /\ "blocking" \in LeasedStages
      /\ "refused" \in LeasedStages /\ "validating" \in LeasedStages
      /\ "start_running" \in LeasedStages /\ "computing" \in LeasedStages
      /\ "source_failed" \in LeasedStages /\ "claiming" \in LeasedStages
      /\ "page" \in LeasedStages /\ "verifying" \in LeasedStages /\ "begin" \in LeasedStages
  BY DEF LeasedStages, CheckedStages, PageStages, EndStages
<1>l. proc[o].seen # NONE => proc[o].stage \in LeasedStages
  BY <1>s DEF ProcessOK
<1>a. Alone => UNCHANGED <<host, slot, lease, supervisor>>
  BY DEF Alone, storeVars
<1>1. CASE TakeLease(o)
  <2>1. CASE lease = NONE
    <3>1. lease' = o /\ GoesTo(o, "begin") /\ UNCHANGED <<storeVars, host, slot>> /\ proc[o].stage = "spawned"
      BY <1>1, <2>1 DEF TakeLease, LeaseIsFree
    <3>2. "begin" \in Stages
      BY <1>s DEF Stages
    <3>3. proc'[o] = [proc[o] EXCEPT !.stage = "begin", !.seen = NONE]
      BY <1>0, <3>1, <3>2, GoesToAt
    <3>4. /\ proc'[o].stage = "begin" /\ proc'[o].seen = NONE
          /\ proc'[o].job = proc[o].job /\ proc'[o].gen = proc[o].gen
      BY <1>0, <3>3 DEF Proc
    <3> QED
      BY <1>0, <2>1, <3>1, <3>2, <3>4, GoesToAt DEF Frame, storeVars
  <2>2. CASE lease # NONE
    <3>1. lease' = lease /\ Leaves(o, "exited") /\ UNCHANGED <<storeVars, host, slot>> /\ proc[o].stage = "spawned"
      BY <1>1, <2>2 DEF TakeLease, LeaseIsFree
    <3>2. "exited" \in Stages
      BY DEF Stages
    <3> QED
      BY <1>0, <3>1, <3>2, LeavesAt DEF Frame, storeVars
  <2> QED
    BY <2>1, <2>2
<1>2. CASE Checkpoint(o)
  <2>0. proc[o].stage \in LeasedStages /\ UNCHANGED <<host, slot, lease, supervisor>>
    BY <1>2, <1>s, <1>a DEF Checkpoint
  <2>1. CASE Becomes(o, [proc[o] EXCEPT !.seen = Row(o).state])
    <3> DEFINE new == [proc[o] EXCEPT !.seen = Row(o).state]
    <3>1. CASE Disowned(o)
      BY <1>0, <1>2, <1>s, <2>0, <3>1, FrameConflict DEF Checkpoint
    <3>2. CASE ~Disowned(o)
      <4>1. Row(o).owner # NONE /\ proc[o].job \in Jobs
        BY <2>0, <3>2, NoneAssumption, StageFacts DEF Disowned, ProcessOK
      <4>2. Row(o).state \in RowStates
        BY <4>1 DEF Row, JobOK, Exists
      <4>3. new \in Proc /\ new.stage = proc[o].stage /\ new.job = proc[o].job /\ new.gen = proc[o].gen
        BY <1>0, <4>2 DEF Proc
      <4> QED
        BY <1>0, <2>0, <2>1, <4>3, FrameMoves
    <3> QED
      BY <3>1, <3>2
  <2> QED
    BY <1>0, <1>2, <1>s, <2>0, <2>1, FrameLeaves, FrameConflict DEF Checkpoint
<1>p. proc[o].stage \in PageStages => proc[o].stage \in LeasedStages
  BY <1>s
<1>w. \A stage : At(o, stage) => proc[o].seen # NONE /\ proc[o].stage = stage
  BY DEF At
<1>n. ASSUME NextPage(o), proc[o].stage \in PageStages, UNCHANGED <<host, slot, lease, supervisor>>
      PROVE  Frame(o)
  <2> DEFINE new == [proc[o] EXCEPT !.stage = "claiming", !.pending = @ \ {proc[o].page[2]},
                               !.page = NONE, !.attempt = 0]
  <2>1. new \in Proc /\ new.stage = "claiming" /\ new.job = proc[o].job /\ new.gen = proc[o].gen
    BY <1>0, <1>s DEF Proc, Stages
  <2> QED
    BY <1>0, <1>s, <1>p, <1>n, <2>1, FrameMoves DEF NextPage
<1>3. CASE SettlePause(o)
  <2>1. Leaves(o, "finished") /\ UNCHANGED <<host, slot, lease, supervisor>>
    BY <1>3 DEF SettlePause, Transition
  <2>2. proc[o].seen # NONE
    BY <1>3, HostAssumption DEF SettlePause
  <2> QED
    BY <1>0, <1>s, <1>l, <2>1, <2>2, FrameLeaves
<1>4. CASE LoseRace(o)
  <2>1. RaisesConflict(o) /\ Alone /\ (proc[o].stage \in PageStages \/ proc[o].seen # NONE)
    BY <1>4 DEF LoseRace, Writing
  <2> QED
    BY <1>0, <1>a, <1>l, <1>p, <2>1, FrameConflict
<1>5. CASE ExceedQuota(o)
  <2>1. Alone /\ (GoesTo(o, "refused") \/ Leaves(o, "blocking"))
    BY <1>5 DEF ExceedQuota
  <2>2. proc[o].stage \in LeasedStages
    BY <1>5, <1>s, <1>l, <1>w DEF ExceedQuota
  <2> QED
    BY <1>0, <1>a, <1>s, <2>1, <2>2, FrameLeaves, FrameGoes
<1>6. CASE BeginRun(o)
  <2>1. Alone /\ proc[o].stage \in LeasedStages
    BY <1>6, <1>l, <1>w DEF BeginRun
  <2>2. CASE Becomes(o, [proc[o] EXCEPT !.stage = "validating", !.seen = NONE, !.todo = Sources])
    <3> DEFINE new == [proc[o] EXCEPT !.stage = "validating", !.seen = NONE, !.todo = Sources]
    <3>1. new \in Proc /\ new.stage = "validating" /\ new.job = proc[o].job /\ new.gen = proc[o].gen
      BY <1>0, <1>s DEF Proc, Stages
    <3> QED
      BY <1>0, <1>a, <1>s, <2>1, <2>2, <3>1, FrameMoves
  <2> QED
    BY <1>0, <1>6, <1>a, <1>s, <2>1, <2>2, FrameLeaves, FrameConflict DEF BeginRun
<1>7. CASE ValidateSource(o)
  <2> DEFINE s == First(proc[o].todo)
             new == [proc[o] EXCEPT !.seen = NONE, !.todo = @ \ {s}, !.valid = @ \cup {s}]
  <2>1. Becomes(o, new) /\ UNCHANGED <<host, slot, lease>> /\ At(o, "validating") /\ proc[o].todo # {}
    BY <1>7 DEF ValidateSource
  <2>2. supervisor' = supervisor
    BY <1>7 DEF ValidateSource, RegisterSource, ReregisterSource
  <2>3. s \in Sources
    BY <1>0, <2>1, FirstIn, OrderAssumption DEF Proc
  <2>4. new \in Proc /\ new.stage = proc[o].stage /\ new.job = proc[o].job /\ new.gen = proc[o].gen
    BY <1>0, <2>3 DEF Proc
  <2> QED
    BY <1>0, <1>l, <1>w, <2>1, <2>2, <2>4, FrameMoves
<1>8. CASE RejectSource(o)
  <2> DEFINE s == First(proc[o].todo)
  <2>1. PICK changed \in BOOLEAN :
          Becomes(o, [proc[o] EXCEPT !.seen = NONE, !.todo = @ \ {s},
             !.failure = CASE @ # "none" -> @ [] changed -> "changed" [] OTHER -> "failed"])
    BY <1>8 DEF RejectSource
  <2>2. UNCHANGED <<host, slot, lease>> /\ At(o, "validating") /\ supervisor' = supervisor
    BY <1>8 DEF RejectSource, FailSource
  <2> DEFINE fail == CASE proc[o].failure # "none" -> proc[o].failure
                       [] changed -> "changed" [] OTHER -> "failed"
             new == [proc[o] EXCEPT !.seen = NONE, !.todo = @ \ {s}, !.failure = fail]
  <2>3. fail \in {"none", "failed", "changed"}
    BY <1>0 DEF Proc
  <2>4. new \in Proc /\ new.stage = proc[o].stage /\ new.job = proc[o].job /\ new.gen = proc[o].gen
    BY <1>0, <2>3 DEF Proc
  <2>5. Becomes(o, new)
    BY <2>1
  <2> QED
    BY <1>0, <1>l, <1>w, <2>2, <2>4, <2>5, FrameMoves
<1>9. CASE EndValidation(o)
  <2>1. Alone /\ proc[o].stage = "validating" /\ (Leaves(o, "blocking") \/ GoesTo(o, "start_running"))
    BY <1>9 DEF EndValidation
  <2> QED
    BY <1>0, <1>a, <1>s, <2>1, FrameLeaves, FrameGoes
<1>10. CASE StartRunning(o)
  <2> DEFINE new == [proc[o] EXCEPT !.stage = "computing", !.seen = NONE, !.todo = Sources]
  <2>1. Becomes(o, new) /\ UNCHANGED <<host, slot, lease, supervisor>> /\ At(o, "start_running")
    BY <1>10 DEF StartRunning, Transition
  <2>2. new \in Proc /\ new.stage = "computing" /\ new.job = proc[o].job /\ new.gen = proc[o].gen
    BY <1>0, <1>s DEF Proc, Stages
  <2> QED
    BY <1>0, <1>s, <1>l, <1>w, <2>1, <2>2, FrameMoves
<1>11. CASE OpenSource(o)
  <2> DEFINE s == First(proc[o].todo)
             pending == {p \in PageNos : page[proc[o].job][<<s, p>>].state \in {"pending", "failed"}}
             new1 == [proc[o] EXCEPT !.seen = NONE, !.todo = @ \ {s}]
             new2 == [proc[o] EXCEPT !.stage = "claiming", !.seen = NONE, !.pending = pending]
  <2>1. /\ Alone /\ At(o, "computing")
        /\ Becomes(o, new1) \/ Becomes(o, new2) \/ GoesTo(o, "source_failed")
    BY <1>11 DEF OpenSource
  <2>2. proc[o].stage \in LeasedStages
    BY <1>l, <1>w, <2>1
  <2>3. new1 \in Proc /\ new1.stage = proc[o].stage /\ new1.job = proc[o].job /\ new1.gen = proc[o].gen
    BY <1>0 DEF Proc
  <2>4. pending \in SUBSET PageNos
    OBVIOUS
  <2>5. new2 \in Proc /\ new2.stage = "claiming" /\ new2.job = proc[o].job /\ new2.gen = proc[o].gen
    <3> HIDE DEF pending
    <3> QED
      BY <1>0, <1>s, <2>4 DEF Proc, Stages
  <2> HIDE DEF new1, new2
  <2> QED
    BY <1>0, <1>a, <1>s, <2>1, <2>2, <2>3, <2>5, FrameMoves, FrameGoes
<1>12. CASE SkipSource(o)
  <2> DEFINE s == First(proc[o].todo)
             new == [proc[o] EXCEPT !.stage = "computing", !.seen = NONE,
                                         !.todo = @ \ {s}, !.pending = {}]
  <2>1. /\ UNCHANGED <<host, slot, lease, supervisor>> /\ At(o, "source_failed")
        /\ Becomes(o, new) \/ Leaves(o, "blocking")
    BY <1>12 DEF SkipSource, FailSource
  <2>2. proc[o].stage \in LeasedStages
    BY <1>l, <1>w, <2>1
  <2>3. new \in Proc /\ new.stage = "computing" /\ new.job = proc[o].job /\ new.gen = proc[o].gen
    BY <1>0, <1>s DEF Proc, Stages
  <2> QED
    BY <1>0, <1>s, <2>1, <2>2, <2>3, FrameMoves, FrameLeaves
<1>13. CASE ClaimPage(o)
  <2> DEFINE k == <<First(proc[o].todo), First(proc[o].pending)>>
             new == [proc[o] EXCEPT !.stage = "page", !.seen = NONE, !.page = k,
                                    !.attempt = page[proc[o].job][k].attempt + 1]
  <2>1. /\ UNCHANGED <<host, slot, lease, supervisor>> /\ At(o, "claiming") /\ proc[o].pending # {}
        /\ Becomes(o, new)
    BY <1>13 DEF ClaimPage, BeginPage
  <2>2. proc[o].stage \in LeasedStages /\ proc[o].todo # {} /\ proc[o].job \in Jobs
    BY <1>l, <1>w, <2>1, StageFacts DEF SourceStages, ProcessOK
  <2>3. k \in Pages
    BY <1>0, <2>1, <2>2, FirstIn, OrderAssumption DEF Proc, Pages
  <2>4. page[proc[o].job][k].attempt + 1 \in Nat
    <3> HIDE DEF k
    <3> QED
      BY <2>2, <2>3 DEF RunTypeOK, TypeOK, PageRow
  <2>5. new \in Proc /\ new.stage = "page" /\ new.job = proc[o].job /\ new.gen = proc[o].gen
    <3> DEFINE n == page[proc[o].job][k].attempt + 1
    <3> HIDE DEF k, n
    <3>1. [proc[o] EXCEPT !.stage = "page", !.seen = NONE, !.page = k, !.attempt = n] \in Proc
      BY <1>0, <1>s, <2>3, <2>4 DEF Proc, Stages, n
    <3> QED
      BY <1>0, <3>1 DEF Proc, n
  <2> HIDE DEF new
  <2> QED
    BY <1>0, <1>s, <2>1, <2>2, <2>5, FrameMoves
<1>14. CASE CloseSource(o)
  <2> DEFINE new == [proc[o] EXCEPT !.stage = "computing", !.todo = @ \ {First(@)}]
  <2>1. Alone /\ proc[o].stage = "claiming" /\ Becomes(o, new)
    BY <1>14 DEF CloseSource
  <2>2. new \in Proc /\ new.stage = "computing" /\ new.job = proc[o].job /\ new.gen = proc[o].gen
    BY <1>0, <1>s DEF Proc, Stages
  <2> QED
    BY <1>0, <1>a, <1>s, <2>1, <2>2, FrameMoves
<1>15. CASE SavePage(o)
  <2>1. NextPage(o) /\ proc[o].stage = "page" /\ UNCHANGED <<host, slot, lease, supervisor>>
    BY <1>15 DEF SavePage, CommitPage
  <2> QED
    BY <1>n, <2>1 DEF PageStages
<1>16. CASE GiveUpPage(o)
  <2>1. /\ NextPage(o) \/ Leaves(o, "blocking")
        /\ proc[o].stage \in PageStages /\ UNCHANGED <<host, slot, lease, supervisor>>
    BY <1>16 DEF GiveUpPage, FailPage
  <2> QED
    BY <1>0, <1>n, <1>p, <1>s, <2>1, FrameLeaves
<1>17. CASE StorageError(o)
  <2>1. Alone /\ GoesTo(o, "source_failed") /\ (proc[o].stage = "page" \/ At(o, "claiming"))
    BY <1>17 DEF StorageError
  <2> QED
    BY <1>0, <1>a, <1>l, <1>s, <1>w, <2>1, FrameGoes
<1>18. CASE Conclude(o)
  <2> DEFINE new == [proc[o] EXCEPT !.stage = "verifying", !.seen = NONE, !.todo = Sources]
  <2>1. /\ UNCHANGED <<host, slot, lease, supervisor>> /\ At(o, "computing")
        /\ Becomes(o, new) \/ Leaves(o, "finished")
    BY <1>18 DEF Conclude, Transition
  <2>2. new \in Proc /\ new.stage = "verifying" /\ new.job = proc[o].job /\ new.gen = proc[o].gen
    BY <1>0, <1>s DEF Proc, Stages
  <2>3. proc[o].stage \in LeasedStages
    BY <1>l, <1>w, <2>1
  <2> QED
    BY <1>0, <1>s, <2>1, <2>2, <2>3, FrameMoves, FrameLeaves
<1>19. CASE VerifyNext(o)
  <2> DEFINE new == [proc[o] EXCEPT !.seen = NONE, !.todo = @ \ {First(proc[o].todo)}]
  <2>1. UNCHANGED <<host, slot, lease, supervisor>> /\ At(o, "verifying") /\ Becomes(o, new)
    BY <1>19 DEF VerifyNext, VerifySource
  <2>2. new \in Proc /\ new.stage = proc[o].stage /\ new.job = proc[o].job /\ new.gen = proc[o].gen
    BY <1>0 DEF Proc
  <2> QED
    BY <1>0, <1>l, <1>w, <2>1, <2>2, FrameMoves
<1>20. CASE VerifyFails(o) \/ Publish(o) \/ BlockJob(o)
  <2>1. /\ UNCHANGED <<host, slot, lease, supervisor>>
        /\ Leaves(o, "blocking") \/ Leaves(o, "finished")
        /\ proc[o].seen # NONE
    BY <1>20, <1>w DEF VerifyFails, Publish, BlockJob, FailSource, PublishSnapshot, Transition
  <2> QED
    BY <1>0, <1>l, <1>s, <2>1, FrameLeaves
<1>21. CASE Exit(o) \/ Die(o)
  <2>1. /\ Leaves(o, "exited") /\ UNCHANGED <<storeVars, host, slot>> /\ lease' = Released(o)
        /\ proc[o].stage \notin {"none", "exited"}
    BY <1>21 DEF Exit, Die, EndStages
  <2>2. "exited" \in Stages
    BY DEF Stages
  <2> QED
    BY <1>0, <2>1, <2>2, LeavesAt DEF Frame, storeVars
<1> QED
  BY <1>1, <1>2, <1>3, <1>4, <1>5, <1>6, <1>7, <1>8, <1>9, <1>10, <1>11, <1>12, <1>13, <1>14,
     <1>15, <1>16, <1>17, <1>18, <1>19, <1>20, <1>21 DEF ProcessStep
(***************************************************************************)
(* What a process may find itself doing after a step: it works on the run  *)
(* it worked on, or that its first checkpoint has just found validating,   *)
(* and a page it computes is the one it computed or has just claimed.      *)
(***************************************************************************)
Local(o) ==
    /\ proc'[o].stage \in SourceStages => proc'[o].todo # {}
    /\ proc'[o].seen # NONE => proc'[o].stage \in CheckedStages
    /\ Working(o)' =>
         \/ Working(o)
         \/ UNCHANGED storeVars /\ ~Disowned(o) /\ Row(o).state = "validating" /\ proc[o].job \in Jobs
    /\ proc'[o].stage \in PageStages =>
         \/ /\ proc[o].stage \in PageStages /\ UNCHANGED storeVars
            /\ proc'[o].page = proc[o].page /\ proc'[o].attempt = proc[o].attempt
         \/ \E k \in Pages :
              /\ BeginPage(proc[o].job, proc[o].gen, o, k)
              /\ proc'[o].page = k /\ proc'[o].attempt = page[proc[o].job][k].attempt + 1

LEMMA LocalLeaves ==
    ASSUME proc \in [Owners -> Proc], NEW o \in Owners,
           NEW stage \in {"finished", "failed", "recheck", "exited", "blocking"}, Leaves(o, stage),
           stage = "blocking" => Working(o)
    PROVE  Local(o)
<1>1. stage \in Stages /\ stage \notin SourceStages /\ stage \notin PageStages
  BY DEF Stages, LeasedStages, EndStages, CheckedStages, SourceStages, PageStages
<1>2. proc'[o].stage = stage /\ proc'[o].seen = NONE
  BY <1>1, LeavesAt
<1>3. Working(o)' => Working(o)
  <2>1. stage # "blocking" => stage \notin OwningStages
    BY DEF OwningStages, LeasedStages, EndStages, CheckedStages, PageStages
  <2>2. "blocking" # "begin" /\ stage # "begin"
    OBVIOUS
  <2> QED
    BY <1>2, <2>1, <2>2 DEF Working
<1> QED
  BY <1>1, <1>2, <1>3 DEF Local

LEMMA LocalConflict ==
    ASSUME proc \in [Owners -> Proc], NEW o \in Owners, RaisesConflict(o)
    PROVE  Local(o)
  BY LocalLeaves DEF RaisesConflict

\* A process that moves on from work to work, with no page in hand.
LEMMA LocalMoves ==
    ASSUME proc \in [Owners -> Proc], NEW o \in Owners, NEW new, Becomes(o, new),
           Working(o), new.stage \notin PageStages,
           new.stage \in SourceStages => new.todo # {},
           new.seen # NONE => new.stage \in CheckedStages
    PROVE  Local(o)
  BY BecomesAt DEF Local

LEMMA LocalGoes ==
    ASSUME proc \in [Owners -> Proc], NEW o \in Owners, NEW stage \in Stages, GoesTo(o, stage),
           Working(o), stage \notin PageStages,
           stage \in SourceStages => proc[o].todo # {}
    PROVE  Local(o)
<1> DEFINE new == [proc[o] EXCEPT !.stage = stage, !.seen = NONE]
<1>1. new.stage = stage /\ new.seen = NONE /\ new.todo = proc[o].todo
  BY DEF Proc
<1>2. Becomes(o, new)
  BY DEF GoesTo
<1> HIDE DEF new
<1> QED
  BY <1>1, <1>2, LocalMoves

LEMMA ProcessLocal ==
    ASSUME RunTypeOK, NEW o \in Owners, ProcessOK(o), ProcessStep(o) \/ Die(o)
    PROVE  Local(o)
<1>0. proc \in [Owners -> Proc] /\ proc[o] \in Proc
  BY DEF RunTypeOK
<1>w. \A stage \in OwningStages : At(o, stage) =>
        proc[o].seen # NONE /\ proc[o].stage = stage /\ Working(o)
  BY DEF At, Working
<1>s. /\ {"validating", "start_running", "computing", "source_failed", "claiming", "verifying",
          "blocking", "page", "refused"} \subseteq OwningStages
      /\ OwningStages \subseteq Stages
  BY DEF OwningStages, LeasedStages, CheckedStages, PageStages, EndStages, Stages
<1>c. /\ {"validating", "start_running", "computing", "source_failed", "claiming", "verifying",
          "blocking"} \cap PageStages = {}
      /\ {"validating", "start_running", "computing", "verifying", "blocking", "begin"}
            \cap SourceStages = {}
      /\ "source_failed" \in SourceStages /\ "claiming" \in SourceStages
      /\ "page" \in SourceStages /\ "refused" \in SourceStages
  BY DEF PageStages, SourceStages
<1>t. proc[o].stage \in SourceStages => proc[o].todo # {}
  BY DEF ProcessOK
<1>p. proc[o].stage \in PageStages => Working(o) /\ proc[o].seen = NONE /\ proc[o].todo # {}
  BY StageFacts DEF ProcessOK, Working, PageStages, CheckedStages
<1>n. ASSUME NextPage(o), proc[o].stage \in PageStages
      PROVE  Local(o)
  <2> DEFINE new == [proc[o] EXCEPT !.stage = "claiming", !.pending = @ \ {proc[o].page[2]},
                               !.page = NONE, !.attempt = 0]
  <2>1. new.stage = "claiming" /\ new.seen = NONE /\ new.todo # {}
    BY <1>0, <1>n, <1>p DEF Proc
  <2>2. Becomes(o, new)
    BY <1>n DEF NextPage
  <2> HIDE DEF new
  <2> QED
    BY <1>0, <1>c, <1>n, <1>p, <2>1, <2>2, LocalMoves
<1>1. CASE TakeLease(o)
  <2>1. CASE GoesTo(o, "begin")
    <3>1. "begin" \in Stages /\ "begin" \notin SourceStages /\ "begin" \notin PageStages
      BY DEF Stages, LeasedStages, CheckedStages, SourceStages, PageStages
    <3>a. proc'[o] = [proc[o] EXCEPT !.stage = "begin", !.seen = NONE]
      BY <1>0, <2>1, <3>1, GoesToAt
    <3>2. proc'[o].stage = "begin" /\ proc'[o].seen = NONE
      BY <1>0, <3>a DEF Proc
    <3>3. ~Working(o)'
      BY <3>2, StageFacts, HostAssumption DEF Working
    <3> QED
      BY <3>1, <3>2, <3>3 DEF Local
  <2> QED
    BY <1>0, <1>1, <2>1, LocalLeaves DEF TakeLease
<1>2. CASE Checkpoint(o)
  <2>1. CASE Becomes(o, [proc[o] EXCEPT !.seen = Row(o).state]) /\ ~Disowned(o)
    <3> DEFINE new == [proc[o] EXCEPT !.seen = Row(o).state]
    <3>1. /\ new.stage = proc[o].stage /\ new.seen = Row(o).state /\ new.todo = proc[o].todo
      BY <1>0 DEF Proc
    <3>2. proc'[o] = new
      BY <1>0, <2>1, BecomesAt
    <3> HIDE DEF new
    <3>3. proc[o].stage \in CheckedStages /\ UNCHANGED storeVars /\ proc[o].job \in Jobs
      BY <1>2, StageFacts DEF Checkpoint, Alone, LeasedStages, ProcessOK
    <3>4. proc[o].stage \notin PageStages
      BY <3>3 DEF PageStages, CheckedStages
    <3>5. Working(o)' => Working(o) \/ Row(o).state = "validating"
      BY <3>1, <3>2 DEF Working
    <3> QED
      BY <1>t, <2>1, <3>1, <3>2, <3>3, <3>4, <3>5 DEF Local
  <2>2. CASE Leaves(o, "finished") \/ Leaves(o, "failed") \/ RaisesConflict(o)
    BY <1>0, <2>2, LocalLeaves, LocalConflict
  <2> QED
    BY <1>2, <2>1, <2>2 DEF Checkpoint
<1>3. CASE SettlePause(o)
  BY <1>0, <1>3, LocalLeaves DEF SettlePause
<1>4. CASE LoseRace(o)
  BY <1>0, <1>4, LocalConflict DEF LoseRace
<1>5. CASE ExceedQuota(o)
  <2>1. CASE proc[o].stage = "page" /\ GoesTo(o, "refused") /\ Alone
    <3>1. proc'[o] = [proc[o] EXCEPT !.stage = "refused", !.seen = NONE]
      BY <1>0, <1>s, <2>1, GoesToAt
    <3>2. /\ proc'[o].stage = "refused" /\ proc'[o].seen = NONE /\ proc'[o].todo = proc[o].todo
          /\ proc'[o].page = proc[o].page /\ proc'[o].attempt = proc[o].attempt
      BY <1>0, <3>1 DEF Proc
    <3>3. proc[o].stage \in PageStages
      BY <2>1 DEF PageStages
    <3> QED
      BY <1>p, <2>1, <3>2, <3>3 DEF Local, Alone
  <2>2. CASE Leaves(o, "blocking") /\ \E stage \in {"validating", "claiming", "verifying"} : At(o, stage)
    BY <1>0, <1>s, <1>w, <2>2, LocalLeaves
  <2> QED
    BY <1>5, <2>1, <2>2 DEF ExceedQuota
<1>6. CASE BeginRun(o)
  <2>1. CASE RaisesConflict(o)
    BY <1>0, <2>1, LocalConflict
  <2>2. CASE proc[o].seen = "validating" /\ proc[o].stage = "begin" /\ Leaves(o, "blocking")
    BY <1>0, <2>2, LocalLeaves DEF Working
  <2>3. CASE /\ proc[o].seen = "validating" /\ proc[o].stage = "begin"
             /\ Becomes(o, [proc[o] EXCEPT !.stage = "validating", !.seen = NONE, !.todo = Sources])
    <3> DEFINE new == [proc[o] EXCEPT !.stage = "validating", !.seen = NONE, !.todo = Sources]
    <3>1. new.stage = "validating" /\ new.seen = NONE
      BY <1>0 DEF Proc
    <3>2. Working(o)
      BY <2>3 DEF Working
    <3> HIDE DEF new
    <3>3. Becomes(o, new)
      BY <2>3 DEF new
    <3> QED
      BY <1>0, <1>c, <3>1, <3>2, <3>3, LocalMoves
  <2> QED
    BY <1>6, <2>1, <2>2, <2>3 DEF BeginRun, At
<1>7. CASE ValidateSource(o)
  <2> DEFINE s == First(proc[o].todo)
             new == [proc[o] EXCEPT !.seen = NONE, !.todo = @ \ {s}, !.valid = @ \cup {s}]
  <2>1. Becomes(o, new) /\ proc[o].stage = "validating" /\ Working(o)
    BY <1>7, <1>s, <1>w DEF ValidateSource
  <2>2. new.stage = "validating" /\ new.seen = NONE
    BY <1>0, <2>1 DEF Proc
  <2> HIDE DEF new
  <2> QED
    BY <1>0, <1>c, <2>1, <2>2, LocalMoves
<1>8. CASE RejectSource(o)
  <2> DEFINE s == First(proc[o].todo)
  <2>1. PICK changed \in BOOLEAN :
          Becomes(o, [proc[o] EXCEPT !.seen = NONE, !.todo = @ \ {s},
             !.failure = CASE @ # "none" -> @ [] changed -> "changed" [] OTHER -> "failed"])
    BY <1>8 DEF RejectSource
  <2> DEFINE fail == CASE proc[o].failure # "none" -> proc[o].failure
                       [] changed -> "changed" [] OTHER -> "failed"
             new == [proc[o] EXCEPT !.seen = NONE, !.todo = @ \ {s}, !.failure = fail]
  <2>2. Becomes(o, new) /\ proc[o].stage = "validating" /\ Working(o)
    BY <1>8, <1>s, <1>w, <2>1 DEF RejectSource
  <2> HIDE DEF fail
  <2>3. new.stage = "validating" /\ new.seen = NONE
    BY <1>0, <2>2 DEF Proc
  <2> HIDE DEF new
  <2> QED
    BY <1>0, <1>c, <2>2, <2>3, LocalMoves
<1>9. CASE EndValidation(o)
  <2>1. proc[o].stage = "validating" /\ (Leaves(o, "blocking") \/ GoesTo(o, "start_running"))
    BY <1>9 DEF EndValidation
  <2>2. Working(o)
    BY <1>s, <2>1 DEF Working
  <2> QED
    BY <1>0, <1>c, <1>s, <2>1, <2>2, LocalLeaves, LocalGoes
<1>10. CASE StartRunning(o)
  <2> DEFINE new == [proc[o] EXCEPT !.stage = "computing", !.seen = NONE, !.todo = Sources]
  <2>1. Becomes(o, new) /\ Working(o)
    BY <1>10, <1>s, <1>w DEF StartRunning
  <2>2. new.stage = "computing" /\ new.seen = NONE
    BY <1>0 DEF Proc
  <2> HIDE DEF new
  <2> QED
    BY <1>0, <1>c, <2>1, <2>2, LocalMoves
<1>11. CASE OpenSource(o)
  <2> DEFINE s == First(proc[o].todo)
             pending == {p \in PageNos : page[proc[o].job][<<s, p>>].state \in {"pending", "failed"}}
             new1 == [proc[o] EXCEPT !.seen = NONE, !.todo = @ \ {s}]
             new2 == [proc[o] EXCEPT !.stage = "claiming", !.seen = NONE, !.pending = pending]
  <2>1. /\ Working(o) /\ proc[o].stage = "computing" /\ proc[o].todo # {}
        /\ Becomes(o, new1) \/ Becomes(o, new2) \/ GoesTo(o, "source_failed")
    BY <1>11, <1>s, <1>w DEF OpenSource
  <2>2. /\ new1.stage = "computing" /\ new1.seen = NONE
    BY <1>0, <2>1 DEF Proc
  <2>3. new2.stage = "claiming" /\ new2.seen = NONE /\ new2.todo = proc[o].todo
    <3> HIDE DEF pending
    <3> QED
      BY <1>0 DEF Proc
  <2> HIDE DEF new1, new2
  <2> QED
    BY <1>0, <1>c, <1>s, <2>1, <2>2, <2>3, LocalMoves, LocalGoes
<1>12. CASE SkipSource(o)
  <2> DEFINE new == [proc[o] EXCEPT !.stage = "computing", !.seen = NONE,
                                    !.todo = @ \ {First(proc[o].todo)}, !.pending = {}]
  <2>1. Working(o) /\ (Becomes(o, new) \/ Leaves(o, "blocking"))
    BY <1>12, <1>s, <1>w DEF SkipSource
  <2>2. new.stage = "computing" /\ new.seen = NONE
    BY <1>0 DEF Proc
  <2> HIDE DEF new
  <2> QED
    BY <1>0, <1>c, <2>1, <2>2, LocalMoves, LocalLeaves
<1>13. CASE ClaimPage(o)
  <2> DEFINE k == <<First(proc[o].todo), First(proc[o].pending)>>
             n == page[proc[o].job][k].attempt + 1
             new == [proc[o] EXCEPT !.stage = "page", !.seen = NONE, !.page = k, !.attempt = n]
  <2>1. /\ BeginPage(proc[o].job, proc[o].gen, o, k) /\ Becomes(o, new)
        /\ proc[o].pending # {} /\ proc[o].stage = "claiming" /\ Working(o)
    BY <1>13, <1>s, <1>w DEF ClaimPage
  <2>2. proc[o].todo # {}
    BY <1>c, <1>t, <2>1
  <2>3. k \in Pages
    BY <1>0, <2>1, <2>2, FirstIn, OrderAssumption DEF Proc, Pages
  <2> HIDE DEF k
  <2>4. /\ new.stage = "page" /\ new.seen = NONE /\ new.todo = proc[o].todo
        /\ new.page = k /\ new.attempt = n
    <3> HIDE DEF n
    <3> QED
      BY <1>0 DEF Proc
  <2>5. proc'[o] = new
    BY <1>0, <2>1, BecomesAt
  <2>6. "page" \in PageStages
    BY DEF PageStages
  <2> HIDE DEF new
  <2>7. proc'[o].stage = "page" /\ proc'[o].todo # {} /\ proc'[o].seen = NONE
        /\ proc'[o].page = k /\ proc'[o].attempt = page[proc[o].job][k].attempt + 1
    BY <2>2, <2>4, <2>5
  <2> QED
    BY <2>1, <2>3, <2>7 DEF Local
<1>14. CASE CloseSource(o)
  <2> DEFINE new == [proc[o] EXCEPT !.stage = "computing", !.todo = @ \ {First(@)}]
  <2>1. proc[o].stage = "claiming" /\ proc[o].seen = NONE /\ Becomes(o, new)
    BY <1>14 DEF CloseSource
  <2>2. new.stage = "computing" /\ new.seen = NONE
    BY <1>0, <2>1 DEF Proc
  <2>3. Working(o)
    BY <1>s, <2>1 DEF Working
  <2> HIDE DEF new
  <2> QED
    BY <1>0, <1>c, <2>1, <2>2, <2>3, LocalMoves
<1>15. CASE SavePage(o)
  BY <1>15, <1>n DEF SavePage, PageStages
<1>16. CASE GiveUpPage(o)
  <2>1. proc[o].stage \in PageStages /\ (NextPage(o) \/ Leaves(o, "blocking"))
    BY <1>16 DEF GiveUpPage
  <2> QED
    BY <1>0, <1>n, <1>p, <2>1, LocalLeaves
<1>17. CASE StorageError(o)
  <2>1. GoesTo(o, "source_failed") /\ (proc[o].stage = "page" \/ At(o, "claiming"))
    BY <1>17 DEF StorageError
  <2>2. Working(o) /\ proc[o].todo # {}
    BY <1>c, <1>p, <1>s, <1>t, <1>w, <2>1 DEF PageStages
  <2> QED
    BY <1>0, <1>c, <1>s, <2>1, <2>2, LocalGoes
<1>18. CASE Conclude(o)
  <2> DEFINE new == [proc[o] EXCEPT !.stage = "verifying", !.seen = NONE, !.todo = Sources]
  <2>1. Working(o) /\ (Becomes(o, new) \/ Leaves(o, "finished"))
    BY <1>18, <1>s, <1>w DEF Conclude
  <2>2. new.stage = "verifying" /\ new.seen = NONE
    BY <1>0 DEF Proc
  <2> HIDE DEF new
  <2> QED
    BY <1>0, <1>c, <2>1, <2>2, LocalMoves, LocalLeaves
<1>19. CASE VerifyNext(o)
  <2> DEFINE new == [proc[o] EXCEPT !.seen = NONE, !.todo = @ \ {First(proc[o].todo)}]
  <2>1. Working(o) /\ proc[o].stage = "verifying" /\ Becomes(o, new)
    BY <1>19, <1>s, <1>w DEF VerifyNext
  <2>2. new.stage = "verifying" /\ new.seen = NONE
    BY <1>0, <2>1 DEF Proc
  <2> HIDE DEF new
  <2> QED
    BY <1>0, <1>c, <2>1, <2>2, LocalMoves
<1>20. CASE VerifyFails(o) \/ Publish(o) \/ BlockJob(o)
  <2>1. Working(o) /\ (Leaves(o, "blocking") \/ Leaves(o, "finished"))
    BY <1>20, <1>s, <1>w DEF VerifyFails, Publish, BlockJob
  <2> QED
    BY <1>0, <2>1, LocalLeaves
<1>21. CASE Exit(o) \/ Die(o)
  BY <1>0, <1>21, LocalLeaves DEF Exit, Die
<1> QED
  BY <1>1, <1>2, <1>3, <1>4, <1>5, <1>6, <1>7, <1>8, <1>9, <1>10, <1>11, <1>12, <1>13, <1>14,
     <1>15, <1>16, <1>17, <1>18, <1>19, <1>20, <1>21 DEF ProcessStep
(***************************************************************************)
(* What a process writes: one transaction, of the run it owns.             *)
(***************************************************************************)
Writes(o) ==
    LET j == proc[o].job
        g == proc[o].gen
    IN
    /\ proc[o].stage \in LeasedStages /\ j \in Jobs /\ g \in Gens
    /\ Working(o) \/ job[j].state = "pause_requested"
    /\ \/ \E s \in Sources, d \in Digests :
            \/ RegisterSource(j, g, o, s, d)
            \/ ReregisterSource(j, g, o, s, d)
            \/ VerifySource(j, g, o, s, d)
       \/ \E s \in Sources, outcome \in {"failed", "blocked"} : FailSource(j, g, o, s, outcome)
       \/ \E move \in WorkerMoves : Transition(j, g, o, move[1], move[2])
       \/ \E k \in Pages : BeginPage(j, g, o, k)
       \/ /\ proc[o].stage \in PageStages
          /\ \E d \in Digests :
               CommitPage(j, g, o, proc[o].page, proc[o].attempt, d, processed[j][proc[o].page[1]] + 1)
       \/ /\ proc[o].stage \in PageStages
          /\ \E work \in {0, 1} :
               FailPage(j, g, o, proc[o].page, proc[o].attempt, processed[j][proc[o].page[1]] + work)
       \/ PublishSnapshot(j, g, o)

LEMMA ProcessWrites ==
    ASSUME RunTypeOK, NEW o \in Owners, ProcessOK(o), \A j \in Jobs : JobOK(j),
           ProcessStep(o) \/ Die(o)
    PROVE  UNCHANGED storeVars \/ Writes(o)
<1> DEFINE j == proc[o].job
           g == proc[o].gen
           s == First(proc[o].todo)
<1>0. proc \in [Owners -> Proc] /\ proc[o] \in Proc
  BY DEF RunTypeOK
<1>w. \A stage \in OwningStages : At(o, stage) => proc[o].stage = stage /\ Working(o)
  BY DEF At, Working
<1>o. {"validating", "start_running", "computing", "source_failed", "claiming", "verifying",
       "blocking", "page", "refused"} \subseteq OwningStages
  BY DEF OwningStages, LeasedStages, CheckedStages, PageStages, EndStages
<1>l. Working(o) => proc[o].stage \in LeasedStages /\ j \in Jobs /\ g \in Gens
  <2>1. Working(o) => proc[o].stage \in LeasedStages /\ j \in Jobs
    BY StageFacts DEF Working, ProcessOK
  <2>2. Working(o) => job[j].gen = g
    BY DEF ProcessOK, Owns
  <2> QED
    BY <2>1, <2>2 DEF JobOK
<1>t. proc[o].todo # {} => s \in Sources
  BY <1>0, FirstIn, OrderAssumption DEF Proc
<1>p. proc[o].stage \in PageStages => Working(o)
  BY StageFacts DEF Working
<1>1. CASE \/ TakeLease(o) \/ Checkpoint(o) \/ LoseRace(o) \/ ExceedQuota(o) \/ BeginRun(o)
           \/ EndValidation(o) \/ OpenSource(o) \/ CloseSource(o) \/ StorageError(o)
           \/ Exit(o) \/ Die(o)
  BY <1>1 DEF Alone, TakeLease, Checkpoint, LoseRace, ExceedQuota, BeginRun, EndValidation,
     OpenSource, CloseSource, StorageError, Exit, Die
<1>2. CASE SettlePause(o)
  <2>1. Transition(j, g, o, "pause_requested", "paused") /\ proc[o].seen = "pause_requested"
    BY <1>2 DEF SettlePause
  <2>2. proc[o].stage \in LeasedStages /\ j \in Jobs
    BY <2>1, HostAssumption, StageFacts DEF ProcessOK, LeasedStages
  <2>3. job[j].gen = g /\ job[j].state = "pause_requested"
    BY <2>1 DEF Transition, Owns
  <2>4. g \in Gens
    BY <2>2, <2>3 DEF JobOK
  <2>5. <<"pause_requested", "paused">> \in WorkerMoves
    BY DEF WorkerMoves
  <2>6. \E move \in WorkerMoves : Transition(j, g, o, move[1], move[2])
    BY <2>1, <2>5
  <2> QED
    BY <2>2, <2>3, <2>4, <2>6 DEF Writes
<1>3. CASE ValidateSource(o)
  <2>1. /\ Working(o) /\ proc[o].todo # {}
        /\ \E d \in Digests : RegisterSource(j, g, o, s, d) \/ ReregisterSource(j, g, o, s, d)
    BY <1>3, <1>o, <1>w DEF ValidateSource
  <2> QED
    BY <1>l, <1>t, <2>1 DEF Writes
<1>4. CASE RejectSource(o) \/ VerifyFails(o)
  <2>1. /\ Working(o) /\ proc[o].todo # {}
        /\ \E outcome \in {"failed", "blocked"} : FailSource(j, g, o, s, outcome)
    BY <1>4, <1>o, <1>w DEF RejectSource, VerifyFails
  <2> QED
    BY <1>l, <1>t, <2>1 DEF Writes
<1>5. CASE SkipSource(o)
  <2>1. /\ Working(o) /\ proc[o].stage = "source_failed"
        /\ \E outcome \in {"failed", "blocked"} : FailSource(j, g, o, s, outcome)
    BY <1>5, <1>o, <1>w DEF SkipSource
  <2>2. proc[o].todo # {}
    BY <2>1 DEF ProcessOK, SourceStages
  <2> QED
    BY <1>l, <1>t, <2>1, <2>2 DEF Writes
<1>6. CASE StartRunning(o) \/ BlockJob(o) \/ Conclude(o)
  <2>1. Working(o) /\ \E from, to : Transition(j, g, o, from, to)
    BY <1>6, <1>o, <1>w DEF StartRunning, BlockJob, Conclude
  <2>2. PICK from, to : Transition(j, g, o, from, to)
    BY <2>1
  <2>3. <<from, to>> \in WorkerMoves
    BY <2>2 DEF Transition
  <2>4. \E move \in WorkerMoves : Transition(j, g, o, move[1], move[2])
    BY <2>2, <2>3
  <2> QED
    BY <1>l, <2>1, <2>4 DEF Writes
<1>7. CASE ClaimPage(o)
  <2> DEFINE k == <<First(proc[o].todo), First(proc[o].pending)>>
  <2>1. /\ Working(o) /\ proc[o].pending # {} /\ proc[o].stage = "claiming"
        /\ BeginPage(j, g, o, k)
    BY <1>7, <1>o, <1>w DEF ClaimPage
  <2>2. proc[o].todo # {}
    BY <2>1 DEF ProcessOK, SourceStages
  <2>3. k \in Pages
    BY <1>0, <2>1, <2>2, FirstIn, OrderAssumption DEF Proc, Pages
  <2> HIDE DEF k
  <2> QED
    BY <1>l, <2>1, <2>3 DEF Writes
<1>8. CASE SavePage(o)
  <2>1. /\ proc[o].stage \in PageStages
        /\ \E d \in Digests : CommitPage(j, g, o, proc[o].page, proc[o].attempt, d,
                                processed[j][proc[o].page[1]] + 1)
    BY <1>8 DEF SavePage, Budget, PageStages
  <2> QED
    BY <1>l, <1>p, <2>1 DEF Writes
<1>9. CASE GiveUpPage(o)
  <2>1. /\ proc[o].stage \in PageStages
        /\ \E work \in {0, 1} : FailPage(j, g, o, proc[o].page, proc[o].attempt,
                                 processed[j][proc[o].page[1]] + work)
    BY <1>9 DEF GiveUpPage, Budget
  <2> QED
    BY <1>l, <1>p, <2>1 DEF Writes
<1>10. CASE VerifyNext(o)
  <2>1. /\ Working(o) /\ proc[o].todo # {}
        /\ \E d \in Digests : VerifySource(j, g, o, s, d)
    BY <1>10, <1>o, <1>w DEF VerifyNext
  <2> QED
    BY <1>l, <1>t, <2>1 DEF Writes
<1>11. CASE Publish(o)
  <2>1. Working(o) /\ PublishSnapshot(j, g, o)
    BY <1>11, <1>o, <1>w DEF Publish
  <2> QED
    BY <1>l, <2>1 DEF Writes
<1> QED
  BY <1>1, <1>2, <1>3, <1>4, <1>5, <1>6, <1>7, <1>8, <1>9, <1>10, <1>11 DEF ProcessStep

(***************************************************************************)
(* Every step of a run is a transaction of the database, or none.          *)
(***************************************************************************)
LEMMA WritesAreStore ==
    ASSUME NEW o \in Owners, ProcessOK(o), Writes(o)
    PROVE  WorkerStep
<1>1. proc[o].job \in Jobs /\ proc[o].gen \in Gens
  BY DEF Writes
<1>2. proc[o].stage \in PageStages => proc[o].page \in Pages /\ proc[o].attempt \in 1 .. MaxAttempts
  BY DEF ProcessOK
<1> QED
  BY <1>1, <1>2 DEF Writes, WorkerStep

LEMMA HostStores ==
    ASSUME RunTypeOK, \A j \in Jobs : JobOK(j), HostOK, SlotOK, HostNext
    PROVE  [Next]_storeVars
<1>0. /\ job \in [Jobs -> JobRow] /\ host.owner \in Owners \cup {NONE}
      /\ slot \in ActiveSlot \cup {NONE}
  BY DEF RunTypeOK, TypeOK, OptionalOwner
<1>1. ASSUME Initialize PROVE HostStep
  BY <1>0, <1>1 DEF Initialize, HostStep
<1>2. ASSUME StartCommits PROVE HostStep
  <2>1. slot \in ActiveSlot /\ host.owner \in Owners /\ slot.gen # 0
    BY <1>0, <1>2 DEF StartCommits, SlotIn, SlotOK, HostOK
  <2>2. StartJob(slot.job, slot.gen - 1, host.owner) /\ slot.gen - 1 < MaxGeneration
    BY <1>2 DEF StartCommits, StartJob
  <2>3. slot.job \in Jobs /\ slot.gen - 1 \in Gens
    BY <2>1, <2>2, BoundsAssumption DEF ActiveSlot, Gens
  <2> QED
    BY <2>1, <2>2, <2>3 DEF HostStep
<1>3. ASSUME SettleStop PROVE HostStep
  <2>1. slot \in ActiveSlot /\ host.owner \in Owners
    BY <1>0, <1>3 DEF SettleStop, SlotIn, SlotOK, HostOK
  <2>2. FinishStop(slot.job, slot.gen, host.owner, slot.cancelled)
    BY <1>3 DEF SettleStop
  <2>3. slot.job \in Jobs /\ slot.cancelled \in BOOLEAN
    BY <2>1 DEF ActiveSlot
  <2>4. slot.gen \in Gens
    BY <2>2, <2>3 DEF FinishStop, Owns, JobOK
  <2> QED
    BY <2>1, <2>2, <2>3, <2>4 DEF HostStep
<1>4. ASSUME Request PROVE [Next]_storeVars
  <2>1. \A j \in Jobs : job[j].gen \in Gens
    BY DEF JobOK
  <2> QED
    BY <1>4, <2>1 DEF Request, ClientStep, Next
<1>5. ASSUME Cleanup PROVE ClientStep
  BY <1>5 DEF Cleanup, ClientStep
<1> QED
  BY <1>1, <1>2, <1>3, <1>4, <1>5 DEF HostNext, Next, OpenApplication, CloseApplication,
     ReserveSlot, StartRefused, StartLost, Spawn, ObserveExit, Kill, KillUnconfirmed, SettleRead,
     SettleFails

LEMMA RunIsStore == RunInv /\ [RunNext]_vars => [Next]_storeVars
<1> SUFFICES ASSUME RunInv, RunNext PROVE [Next]_storeVars
  BY DEF vars, storeVars
<1>0. /\ RunTypeOK /\ HostOK /\ SlotOK
      /\ \A j \in Jobs : JobOK(j)
      /\ \A o \in Owners : ProcessOK(o)
  BY DEF RunInv
<1>1. ASSUME NEW o \in Owners, ProcessStep(o) \/ Die(o) PROVE [Next]_storeVars
  BY <1>0, <1>1, ProcessWrites, WritesAreStore DEF Next
<1>2. ASSUME HostNext PROVE [Next]_storeVars
  BY <1>0, <1>2, HostStores
<1> QED
  BY <1>1, <1>2 DEF RunNext
(***************************************************************************)
(* What the transactions do to the rows of a job.                          *)
(***************************************************************************)
Untouched(j) ==
    /\ job'[j] = job[j] /\ source'[j] = source[j] /\ page'[j] = page[j]
    /\ result'[j] = result[j] /\ snapshot'[j] = snapshot[j]

Kept(j) ==
    job'[j].gen = job[j].gen /\ job'[j].owner = job[j].owner /\ job'[j].deleting = job[j].deleting

WriteMoves == WorkerMoves \cup {<<"finalizing", "ready_for_review">>}

Written(j) ==
    /\ Kept(j)
    /\ job'[j].state = job[j].state \/ <<job[j].state, job'[j].state>> \in WriteMoves
    /\ \A k \in Pages :
         \/ page'[j][k] = page[j][k]
         \/ page[j][k].state = "absent" /\ page'[j][k].state = "pending"
         \/ job[j].state = "running" /\ job'[j].state = "running"
         \/ job[j].state \in ClaimStates /\ page'[j][k].state # "processing"
    /\ result'[j] = result[j] \/ job[j].state \in ClaimStates
    /\ snapshot'[j] = snapshot[j] \/ job[j].state = "finalizing"

LEMMA WriteRows ==
    ASSUME RunTypeOK, NEW o \in Owners, ProcessOK(o), Writes(o)
    PROVE  /\ supervisor' = supervisor
           /\ Owns(proc[o].job, proc[o].gen, o)
           /\ \A j \in Jobs \ {proc[o].job} : Untouched(j)
           /\ Written(proc[o].job)
<1> DEFINE i == proc[o].job
           g == proc[o].gen
<1>0. /\ job \in [Jobs -> JobRow] /\ job[i] \in JobRow
      /\ source \in [Jobs -> [Sources -> SourceRow]]
      /\ page \in [Jobs -> [Pages -> PageRow]]
      /\ page[i] \in [Pages -> PageRow]
      /\ result \in [Jobs -> [Pages -> OptionalDigest]]
      /\ snapshot \in [Jobs -> Snapshot \cup {NONE}]
      /\ i \in Jobs /\ g \in Gens
  BY DEF RunTypeOK, TypeOK, Writes
<1> DEFINE Goal == /\ supervisor' = supervisor
                   /\ Owns(i, g, o)
                   /\ \A j \in Jobs \ {i} : Untouched(j)
                   /\ Written(i)
<1>1. ASSUME NEW s \in Sources, NEW d \in Digests, RegisterSource(i, g, o, s, d)
      PROVE  Goal
  <2>1. /\ UNCHANGED <<supervisor, job, result, snapshot>> /\ Owns(i, g, o)
        /\ \E row : source' = [source EXCEPT ![i] = row]
    <3>1. source' = [source EXCEPT ![i] = [source[i] EXCEPT ![s] =
            [state |-> "registered", sha |-> d, verified |-> NONE]]]
      BY <1>0, <1>1 DEF RegisterSource
    <3> QED
      BY <1>1, <3>1 DEF RegisterSource
  <2>2. page' = [page EXCEPT ![i] = [k \in Pages |->
         IF k \in PageKeys(s, d) /\ page[i][k].state = "absent"
         THEN [state |-> "pending", owner |-> NONE, gen |-> job[i].gen, attempt |-> 0]
         ELSE page[i][k]]]
    BY <1>1 DEF RegisterSource
  <2>3. \A j \in Jobs \ {i} : page'[j] = page[j] /\ source'[j] = source[j]
    BY <1>0, <2>1, <2>2
  <2>4. \A k \in Pages :
          page'[i][k] = page[i][k] \/ (page[i][k].state = "absent" /\ page'[i][k].state = "pending")
    BY <1>0, <2>2
  <2> QED
    BY <2>1, <2>3, <2>4 DEF Untouched, Written, Kept
<1>2. ASSUME NEW s \in Sources,
             \/ \E d \in Digests : ReregisterSource(i, g, o, s, d) \/ VerifySource(i, g, o, s, d)
             \/ \E outcome \in {"failed", "blocked"} : FailSource(i, g, o, s, outcome)
      PROVE  Goal
  <2>1. /\ UNCHANGED <<supervisor, job, page, result, snapshot>> /\ Owns(i, g, o)
        /\ \E st, v : source' = [source EXCEPT ![i][s].state = st, ![i][s].verified = v]
    BY <1>2 DEF ReregisterSource, VerifySource, FailSource
  <2>2. \A j \in Jobs \ {i} : source'[j] = source[j]
    BY <1>0, <2>1
  <2> QED
    BY <2>1, <2>2 DEF Untouched, Written, Kept
<1>3. ASSUME NEW move \in WorkerMoves, Transition(i, g, o, move[1], move[2])
      PROVE  Goal
  <2>1. /\ UNCHANGED <<supervisor, source, page, result, snapshot>> /\ Owns(i, g, o)
        /\ job[i].state = move[1] /\ <<move[1], move[2]>> \in WorkerMoves
        /\ job' = [job EXCEPT ![i].state = move[2]]
    BY <1>3 DEF Transition
  <2>2. \A j \in Jobs \ {i} : job'[j] = job[j]
    BY <1>0, <2>1
  <2>3. Kept(i) /\ job'[i].state = move[2]
    BY <1>0, <2>1 DEF Kept, JobRow
  <2> QED
    BY <2>1, <2>2, <2>3 DEF Untouched, Written, WriteMoves
<1>4. ASSUME NEW k \in Pages, BeginPage(i, g, o, k)
      PROVE  Goal
  <2>1. /\ UNCHANGED <<supervisor, job, source, snapshot>> /\ Owns(i, g, o)
        /\ job[i].state = "running"
        /\ \E row : page' = [page EXCEPT ![i][k] = row]
        /\ \E row : result' = [result EXCEPT ![i][k] = row]
    BY <1>4 DEF BeginPage
  <2>2. \A j \in Jobs \ {i} : page'[j] = page[j] /\ result'[j] = result[j]
    BY <1>0, <2>1
  <2>3. "running" \in ClaimStates
    BY DEF ClaimStates
  <2> QED
    BY <2>1, <2>2, <2>3 DEF Untouched, Written, Kept
<1>c. ASSUME proc[o].stage \in PageStages
      PROVE  job[i].state \in ClaimStates /\ proc[o].page \in Pages
  BY <1>c DEF ProcessOK
<1>5. ASSUME proc[o].stage \in PageStages, NEW d \in Digests,
             CommitPage(i, g, o, proc[o].page, proc[o].attempt, d, processed[i][proc[o].page[1]] + 1)
      PROVE  Goal
  <2> DEFINE k == proc[o].page
  <2>1. /\ UNCHANGED <<supervisor, source, snapshot>> /\ Owns(i, g, o)
        /\ job[i].state # "cancel_requested"
        /\ page' = [page EXCEPT ![i][k].state = "succeeded", ![i][k].owner = NONE]
        /\ result' = [result EXCEPT ![i][k] = d]
        /\ job' = [job EXCEPT ![i].state = IF @ = "pause_requested" THEN "paused" ELSE @]
    BY <1>5 DEF CommitPage
  <2>2. \A j \in Jobs \ {i} : page'[j] = page[j] /\ result'[j] = result[j] /\ job'[j] = job[j]
    BY <1>0, <2>1
  <2>3. k \in Pages /\ job[i].state \in ClaimStates
    BY <1>5, <1>c
  <2>4. page'[i][k].state # "processing"
    BY <1>0, <2>1, <2>3 DEF PageRow
  <2>5. \A m \in Pages \ {k} : page'[i][m] = page[i][m]
    BY <1>0, <2>1, <2>3
  <2>6. Kept(i) /\ (job'[i].state = job[i].state
                      \/ <<job[i].state, job'[i].state>> = <<"pause_requested", "paused">>)
    BY <1>0, <2>1 DEF Kept, JobRow
  <2>7. <<"pause_requested", "paused">> \in WriteMoves
    BY DEF WriteMoves, WorkerMoves
  <2> HIDE DEF k
  <2> QED
    BY <2>1, <2>2, <2>3, <2>4, <2>5, <2>6, <2>7 DEF Untouched, Written
<1>6. ASSUME proc[o].stage \in PageStages, NEW work \in {0, 1},
             FailPage(i, g, o, proc[o].page, proc[o].attempt, processed[i][proc[o].page[1]] + work)
      PROVE  Goal
  <2> DEFINE k == proc[o].page
  <2>1. /\ UNCHANGED <<supervisor, job, source, snapshot>> /\ Owns(i, g, o)
        /\ page' = [page EXCEPT ![i][k].state = "failed", ![i][k].owner = NONE]
        /\ result' = [result EXCEPT ![i][k] = NONE]
    BY <1>6 DEF FailPage
  <2>2. \A j \in Jobs \ {i} : page'[j] = page[j] /\ result'[j] = result[j]
    BY <1>0, <2>1
  <2>3. k \in Pages /\ job[i].state \in ClaimStates
    BY <1>6, <1>c
  <2>4. page'[i][k].state # "processing"
    BY <1>0, <2>1, <2>3 DEF PageRow
  <2>5. \A m \in Pages \ {k} : page'[i][m] = page[i][m]
    BY <1>0, <2>1, <2>3
  <2> HIDE DEF k
  <2> QED
    BY <2>1, <2>2, <2>3, <2>4, <2>5 DEF Untouched, Written, Kept
<1>7. ASSUME PublishSnapshot(i, g, o)
      PROVE  Goal
  <2>1. /\ UNCHANGED <<supervisor, source, page, result>> /\ Owns(i, g, o)
        /\ job[i].state = "finalizing"
        /\ \E snap : snapshot' = [snapshot EXCEPT ![i] = snap]
        /\ job' = [job EXCEPT ![i].state = "ready_for_review", ![i].rev = g]
    BY <1>7 DEF PublishSnapshot
  <2>2. \A j \in Jobs \ {i} : snapshot'[j] = snapshot[j] /\ job'[j] = job[j]
    BY <1>0, <2>1
  <2>3. Kept(i) /\ job'[i].state = "ready_for_review"
    BY <1>0, <2>1 DEF Kept, JobRow
  <2> QED
    BY <2>1, <2>2, <2>3 DEF Untouched, Written, WriteMoves
<1> HIDE DEF Goal
<1> QED
  <2>1. Goal
    BY <1>1, <1>2, <1>3, <1>4, <1>5, <1>6, <1>7 DEF Writes
  <2> QED
    BY <2>1 DEF Goal

\* A request of a user changes the states of jobs along the tables of moves
\* and points sources at other files; it takes nobody's run away, and leaves
\* a job behind the gate alone.
RequestMoves ==
    PauseMoves \cup CancelMoves \cup ArchiveMoves \cup {<<"absent", "queued">>}

LEMMA RequestRows ==
    ASSUME RunTypeOK, GatedIsIdle, Request, NEW j \in Jobs
    PROVE  /\ UNCHANGED <<supervisor, page, result, snapshot, host, slot, proc, lease>>
           /\ Kept(j)
           /\ job'[j] = job[j] \/ <<job[j].state, job'[j].state>> \in RequestMoves
           /\ job'[j].state = job[j].state => job'[j] = job[j]
           /\ \A s \in Sources : source'[j][s].sha = source[j][s].sha
           /\ job[j].deleting => job'[j] = job[j] /\ source'[j] = source[j]
<1>0. /\ job \in [Jobs -> JobRow] /\ \A i \in Jobs : job[i] \in JobRow
      /\ source \in [Jobs -> [Sources -> SourceRow]]
      /\ TypeOK
  BY DEF RunTypeOK, TypeOK
<1>1. UNCHANGED <<host, slot, proc, lease>>
  BY DEF Request
<1> DEFINE Goal == /\ UNCHANGED <<supervisor, page, result, snapshot>>
                   /\ Kept(j)
                   /\ job'[j] = job[j] \/ <<job[j].state, job'[j].state>> \in RequestMoves
                   /\ job'[j].state = job[j].state => job'[j] = job[j]
                   /\ \A s \in Sources : source'[j][s].sha = source[j][s].sha
                   /\ job[j].deleting => job'[j] = job[j] /\ source'[j] = source[j]
<1>2. ASSUME NEW i \in Jobs, CreateJob(i)
      PROVE  Goal
  <2>1. /\ UNCHANGED <<supervisor, source, page, result, snapshot>>
        /\ job[i].state = "absent" /\ job' = [job EXCEPT ![i].state = "queued"]
    BY <1>2 DEF CreateJob
  <2>2. job[i].deleting = FALSE
    BY <1>0, <2>1 DEF GatedIsIdle, Exists, JobRow
  <2>3. CASE i = j
    <3>1. /\ job'[j].gen = job[j].gen /\ job'[j].owner = job[j].owner
          /\ job'[j].deleting = job[j].deleting /\ job'[j].state = "queued"
      BY <1>0, <2>1, <2>3 DEF JobRow
    <3> QED
      BY <2>1, <2>2, <2>3, <3>1 DEF Kept, RequestMoves
  <2>4. CASE i # j
    BY <1>0, <2>1, <2>4 DEF Kept
  <2> QED
    BY <2>3, <2>4
<1>3. ASSUME NEW i \in Jobs, NEW c \in CommandIds, NEW action \in Actions, NEW to \in RowStates,
             Control(i, job[i].gen, c, action, to)
      PROVE  Goal
  <2>1. /\ UNCHANGED <<supervisor, source, page, result, snapshot>>
        /\ ~job[i].deleting /\ job' = [job EXCEPT ![i].state = to]
        /\ <<job[i].state, to>> \in MovesOf(action)
    BY <1>3 DEF Control
  <2>2. <<job[i].state, to>> \in RequestMoves
    BY <2>1 DEF MovesOf, Actions, RequestMoves
  <2>3. CASE i = j
    <3>1. /\ job'[j].gen = job[j].gen /\ job'[j].owner = job[j].owner
          /\ job'[j].deleting = job[j].deleting /\ job'[j].state = to
          /\ job[j].state = to => job'[j] = job[j]
      BY <1>0, <2>1, <2>3 DEF JobRow
    <3> QED
      BY <2>1, <2>2, <2>3, <3>1 DEF Kept
  <2>4. CASE i # j
    BY <1>0, <2>1, <2>4 DEF Kept
  <2> QED
    BY <2>3, <2>4
<1>4. ASSUME NEW i \in Jobs, NEW t \in Sources, NEW d \in Digests, RelocateSource(i, t, d)
      PROVE  Goal
  <2>1. UNCHANGED <<supervisor, job, page, result, snapshot>>
    BY <1>4 DEF RelocateSource
  <2>2. \A s \in Sources : source'[j][s].sha = source[j][s].sha
    BY <1>0, <1>4, IdentityKept DEF SourceOnly
  <2>3. job[j].deleting => source'[j] = source[j]
    BY <1>0, <1>4 DEF RelocateSource
  <2> QED
    BY <2>1, <2>2, <2>3 DEF Kept
<1> HIDE DEF Goal
<1>5. Goal
  BY <1>2, <1>3, <1>4 DEF Request
<1> QED
  BY <1>1, <1>5 DEF Goal
\* A takeover stops every active run, and touches nothing else.
LEMMA TakeoverRows ==
    ASSUME RunTypeOK, ActiveIsOwned, NEW o \in Owners, ActivateSupervisor(o), NEW j \in Jobs
    PROVE  /\ supervisor' = o /\ UNCHANGED <<source, result, snapshot>>
           /\ supervisor = o => job' = job /\ page' = page
           /\ supervisor # o => ~Active(j)'
           /\ \/ job'[j] = job[j] /\ page'[j] = page[j]
              \/ /\ Active(j) /\ job'[j].state = "interrupted" /\ job'[j].owner = NONE
                 /\ job'[j].gen = job[j].gen /\ job'[j].deleting = job[j].deleting
<1>0. /\ job \in [Jobs -> JobRow] /\ job[j] \in JobRow
      /\ page \in [Jobs -> [Pages -> PageRow]] /\ page[j] \in [Pages -> PageRow]
  BY DEF RunTypeOK, TypeOK
<1> DEFINE reclaimed == IF supervisor \in {NONE, o} THEN {} ELSE {i \in Jobs : Abandoned(i)}
<1>1. /\ supervisor' = o /\ UNCHANGED <<source, result, snapshot>>
      /\ page' = [i \in Jobs |-> [k \in Pages |->
           IF i \in reclaimed /\ page[i][k].state = "processing"
           THEN [page[i][k] EXCEPT !.state = "pending", !.owner = NONE]
           ELSE page[i][k]]]
      /\ job' = [i \in Jobs |->
           IF i \in reclaimed THEN [job[i] EXCEPT !.state = "interrupted", !.owner = NONE]
           ELSE job[i]]
  BY DEF ActivateSupervisor
<1>2. j \notin reclaimed => job'[j] = job[j] /\ page'[j] = page[j]
  <2>1. SUFFICES ASSUME j \notin reclaimed PROVE job'[j] = job[j] /\ page'[j] = page[j]
    OBVIOUS
  <2>2. page'[j] = [k \in Pages |-> page[j][k]]
    BY <1>1, <2>1
  <2> QED
    BY <1>0, <1>1, <2>1, <2>2
<1>3. j \in reclaimed =>
        /\ Active(j) /\ job'[j].state = "interrupted" /\ job'[j].owner = NONE
        /\ job'[j].gen = job[j].gen /\ job'[j].deleting = job[j].deleting
  BY <1>0, <1>1 DEF Abandoned, JobRow
<1>4. supervisor = o => job' = job /\ page' = page
  <2>1. SUFFICES ASSUME supervisor = o PROVE job' = job /\ page' = page
    OBVIOUS
  <2>2. reclaimed = {}
    BY <2>1
  <2>3. job' = [i \in Jobs |-> job[i]] /\ page' = [i \in Jobs |-> [k \in Pages |-> page[i][k]]]
    BY <1>1, <2>2
  <2>4. job = [i \in Jobs |-> job[i]] /\ page = [i \in Jobs |-> [k \in Pages |-> page[i][k]]]
    BY <1>0
  <2> QED
    BY <2>3, <2>4
<1>5. supervisor # o => ~Active(j)'
  <2>1. SUFFICES ASSUME supervisor # o, Active(j)' PROVE FALSE
    OBVIOUS
  <2>2. j \notin reclaimed
    BY <1>3, <2>1 DEF Active
  <2>3. Active(j)
    BY <1>2, <2>1, <2>2 DEF Active
  <2>4. job[j].owner = supervisor /\ supervisor # NONE
    BY <2>3 DEF ActiveIsOwned
  <2> QED
    BY <2>1, <2>2, <2>3, <2>4 DEF Abandoned
<1> HIDE DEF reclaimed
<1> QED
  BY <1>1, <1>2, <1>3, <1>4, <1>5

LEMMA StartRows ==
    ASSUME RunTypeOK, NEW i \in Jobs, NEW g \in Gens, NEW o \in Owners, StartJob(i, g, o)
    PROVE  /\ supervisor = o /\ supervisor' = supervisor /\ g < MaxGeneration
           /\ Startable(i) /\ OthersRest(i) /\ job[i].gen = g
           /\ snapshot' = snapshot
           /\ job'[i] = [state |-> "validating", gen |-> g + 1, owner |-> o, rev |-> NONE,
                         deleting |-> FALSE]
           /\ \A k \in Pages : page'[i][k].state # "processing"
           /\ \A j \in Jobs \ {i} : Untouched(j)
<1>0. /\ job \in [Jobs -> JobRow] /\ source \in [Jobs -> [Sources -> SourceRow]]
      /\ page \in [Jobs -> [Pages -> PageRow]] /\ \A k \in Pages : page[i][k] \in PageRow
      /\ result \in [Jobs -> [Pages -> OptionalDigest]]
  BY DEF RunTypeOK, TypeOK
<1>1. /\ supervisor = o /\ supervisor' = supervisor /\ g < MaxGeneration
      /\ Startable(i) /\ OthersRest(i) /\ job[i].gen = g /\ snapshot' = snapshot
  BY DEF StartJob
<1>2. job' = [job EXCEPT ![i] = [state |-> "validating", gen |-> g + 1, owner |-> o, rev |-> NONE,
                                 deleting |-> FALSE]]
  BY DEF StartJob
<1>3. /\ \E row : page' = [page EXCEPT ![i] = row]
      /\ \E row : source' = [source EXCEPT ![i] = row]
      /\ \E row : result' = [result EXCEPT ![i] = row]
  BY DEF StartJob
<1>4. \A j \in Jobs \ {i} : Untouched(j)
  BY <1>0, <1>1, <1>2, <1>3 DEF Untouched
<1>5. \A k \in Pages : page'[i][k].state # "processing"
  <2>1. page' = [page EXCEPT ![i] = [k \in Pages |->
         IF page[i][k].state \in {"absent", "succeeded"} THEN page[i][k]
         ELSE [page[i][k] EXCEPT !.state = "pending", !.owner = NONE, !.gen = g + 1]]]
    BY DEF StartJob
  <2>2. ASSUME NEW k \in Pages PROVE page'[i][k].state # "processing"
    <3>1. page'[i][k] = IF page[i][k].state \in {"absent", "succeeded"} THEN page[i][k]
                        ELSE [page[i][k] EXCEPT !.state = "pending", !.owner = NONE, !.gen = g + 1]
      BY <1>0, <2>1
    <3> QED
      BY <1>0, <3>1 DEF PageRow
  <2> QED
    BY <2>2
<1> QED
  BY <1>0, <1>1, <1>2, <1>4, <1>5

LEMMA StopRows ==
    ASSUME RunTypeOK, NEW i \in Jobs, NEW g, NEW o \in Owners, NEW cancelled,
           FinishStop(i, g, o, cancelled)
    PROVE  /\ UNCHANGED <<supervisor, source, result, snapshot>>
           /\ Owns(i, g, o) /\ job[i].state \in ExecutionStates
           /\ job'[i].gen = job[i].gen /\ job'[i].deleting = job[i].deleting
           /\ job'[i].owner = NONE /\ job'[i].state \in {"cancelled", "interrupted"}
           /\ job[i].state = "cancel_requested" => job'[i].state = "cancelled"
           /\ (\A k \in Pages : page[i][k].state # "processing") => page'[i] = page[i]
           /\ \A j \in Jobs \ {i} : Untouched(j)
<1>0. /\ job \in [Jobs -> JobRow] /\ job[i] \in JobRow
      /\ page \in [Jobs -> [Pages -> PageRow]] /\ page[i] \in [Pages -> PageRow]
  BY DEF RunTypeOK, TypeOK
<1>1. /\ UNCHANGED <<supervisor, source, result, snapshot>>
      /\ Owns(i, g, o) /\ job[i].state \in ExecutionStates
      /\ job' = [job EXCEPT ![i].state = StopState(i, cancelled), ![i].owner = NONE]
      /\ page' = [page EXCEPT ![i] = [k \in Pages |->
           IF ClaimedBy(i, g, o, k)
           THEN [page[i][k] EXCEPT !.state = "pending", !.owner = NONE]
           ELSE page[i][k]]]
  BY DEF FinishStop
<1>2. /\ StopState(i, cancelled) \in {"cancelled", "interrupted"}
      /\ job[i].state = "cancel_requested" => StopState(i, cancelled) = "cancelled"
  BY DEF StopState
<1>3. /\ job'[i].gen = job[i].gen /\ job'[i].deleting = job[i].deleting
      /\ job'[i].owner = NONE /\ job'[i].state = StopState(i, cancelled)
  BY <1>0, <1>1 DEF JobRow
<1>4. (\A k \in Pages : page[i][k].state # "processing") => page'[i] = page[i]
  <2>1. SUFFICES ASSUME \A k \in Pages : page[i][k].state # "processing" PROVE page'[i] = page[i]
    OBVIOUS
  <2>2. page'[i] = [k \in Pages |-> page[i][k]]
    BY <1>0, <1>1, <2>1 DEF ClaimedBy
  <2> QED
    BY <1>0, <2>2
<1>5. \A j \in Jobs \ {i} : Untouched(j)
  BY <1>0, <1>1 DEF Untouched
<1> QED
  BY <1>1, <1>2, <1>3, <1>4, <1>5

LEMMA CleanupRows ==
    ASSUME RunTypeOK, Cleanup
    PROVE  /\ slot = NONE /\ lease = NONE
           /\ UNCHANGED <<supervisor, host, slot, proc, lease>>
           /\ \E i \in Jobs :
                /\ ~Active(i)
                /\ \A j \in Jobs \ {i} : Untouched(j)
                /\ \/ /\ Exists(i) /\ ~job[i].deleting /\ UNCHANGED <<source, page, result, snapshot>>
                      /\ job'[i] = [job[i] EXCEPT !.deleting = TRUE]
                   \/ /\ job'[i] = [NoJob EXCEPT !.state = "deleted"] /\ job[i].deleting
                      /\ \A s \in Sources : source'[i][s].sha = NONE
                      /\ snapshot'[i] = NONE
                      /\ \A k \in Pages : page'[i][k] = NoPage /\ result'[i][k] = NONE
                      /\ result'[i] = [k \in Pages |-> NONE]
<1>0. /\ job \in [Jobs -> JobRow] /\ source \in [Jobs -> [Sources -> SourceRow]]
      /\ page \in [Jobs -> [Pages -> PageRow]]
      /\ result \in [Jobs -> [Pages -> OptionalDigest]]
      /\ snapshot \in [Jobs -> Snapshot \cup {NONE}]
  BY DEF RunTypeOK, TypeOK
<1>1. /\ slot = NONE /\ lease = NONE /\ UNCHANGED <<host, slot, proc, lease>>
      /\ \E i \in Jobs : CloseGate(i) \/ DeleteJob(i)
  BY DEF Cleanup, LeaseIsFree
<1>2. ASSUME NEW i \in Jobs, CloseGate(i)
      PROVE  /\ supervisor' = supervisor /\ ~Active(i)
             /\ \A j \in Jobs \ {i} : Untouched(j)
             /\ Exists(i) /\ ~job[i].deleting /\ UNCHANGED <<source, page, result, snapshot>>
             /\ job'[i] = [job[i] EXCEPT !.deleting = TRUE]
  BY <1>0, <1>2 DEF CloseGate, Untouched
<1>3. ASSUME NEW i \in Jobs, DeleteJob(i)
      PROVE  /\ supervisor' = supervisor /\ ~Active(i)
             /\ \A j \in Jobs \ {i} : Untouched(j)
             /\ job'[i] = [NoJob EXCEPT !.state = "deleted"] /\ job[i].deleting
             /\ \A s \in Sources : source'[i][s].sha = NONE
             /\ snapshot'[i] = NONE
             /\ \A k \in Pages : page'[i][k] = NoPage /\ result'[i][k] = NONE
             /\ result'[i] = [k \in Pages |-> NONE]
  <2>1. /\ supervisor' = supervisor /\ ~Active(i) /\ job[i].deleting
        /\ job' = [job EXCEPT ![i] = [NoJob EXCEPT !.state = "deleted"]]
        /\ source' = [source EXCEPT ![i] = [s \in Sources |-> NewSource]]
        /\ page' = [page EXCEPT ![i] = [k \in Pages |-> NoPage]]
        /\ result' = [result EXCEPT ![i] = [k \in Pages |-> NONE]]
        /\ snapshot' = [snapshot EXCEPT ![i] = NONE]
    BY <1>3 DEF DeleteJob
  <2>2. \A j \in Jobs \ {i} : Untouched(j)
    BY <1>0, <2>1 DEF Untouched
  <2>3. NewSource.sha = NONE
    BY DEF NewSource
  <2>4. /\ job'[i] = [NoJob EXCEPT !.state = "deleted"]
        /\ source'[i] = [s \in Sources |-> NewSource] /\ page'[i] = [k \in Pages |-> NoPage]
        /\ result'[i] = [k \in Pages |-> NONE] /\ snapshot'[i] = NONE
    BY <1>0, <2>1
  <2> QED
    BY <2>1, <2>2, <2>3, <2>4
<1> QED
  BY <1>1, <1>2, <1>3

(***************************************************************************)
(* The invariant is preserved: the rows of the jobs.                       *)
(***************************************************************************)
\* Steps that leave the database alone.
HostOnly ==
    \/ \E o \in Owners : OpenApplication(o)
    \/ CloseApplication \/ \E j \in Jobs, g \in Gens : ReserveSlot(j, g)
    \/ StartRefused \/ StartLost \/ Spawn \/ ObserveExit \/ Kill \/ KillUnconfirmed
    \/ SettleRead \/ SettleFails

LEMMA HostOnlyStore == HostOnly => UNCHANGED storeVars
  BY DEF HostOnly, OpenApplication, CloseApplication, ReserveSlot, StartRefused, StartLost, Spawn,
     ObserveExit, Kill, KillUnconfirmed, SettleRead, SettleFails

LEMMA HostKinds ==
    HostNext => HostOnly \/ Initialize \/ StartCommits \/ SettleStop \/ Request \/ Cleanup
  BY DEF HostNext, HostOnly

\* The transactions a host asks for are its own.
LEMMA HostCalls ==
    ASSUME RunInv
    PROVE  /\ Initialize => host.owner \in Owners /\ ActivateSupervisor(host.owner)
           /\ StartCommits =>
                /\ slot.job \in Jobs /\ slot.gen - 1 \in Gens /\ slot.gen - 1 + 1 = slot.gen
                /\ host.owner \in Owners
                /\ StartJob(slot.job, slot.gen - 1, host.owner)
           /\ SettleStop =>
                /\ slot.job \in Jobs /\ slot.cancelled \in BOOLEAN /\ host.owner \in Owners
                /\ FinishStop(slot.job, slot.gen, host.owner, slot.cancelled)
<1>0. /\ host.owner \in Owners \cup {NONE} /\ slot \in ActiveSlot \cup {NONE}
      /\ HostOK /\ SlotOK
  BY DEF RunInv, RunTypeOK, OptionalOwner
<1>1. Initialize => host.owner \in Owners /\ ActivateSupervisor(host.owner)
  BY <1>0 DEF Initialize
<1>2. ASSUME SlotIn("starting") \/ SlotIn("stopping")
      PROVE  slot \in ActiveSlot /\ host.owner \in Owners /\ slot.gen # 0
  BY <1>0, <1>2 DEF SlotIn, SlotOK, HostOK
<1>3. ASSUME StartCommits
      PROVE  /\ slot.job \in Jobs /\ slot.gen - 1 \in Gens /\ slot.gen - 1 + 1 = slot.gen
             /\ host.owner \in Owners
             /\ StartJob(slot.job, slot.gen - 1, host.owner)
  <2>1. /\ slot \in ActiveSlot /\ host.owner \in Owners /\ slot.gen # 0
        /\ StartJob(slot.job, slot.gen - 1, host.owner)
    BY <1>2, <1>3 DEF StartCommits
  <2>2. slot.gen - 1 < MaxGeneration
    BY <2>1 DEF StartJob
  <2> QED
    BY <2>1, <2>2, BoundsAssumption DEF ActiveSlot, Gens
<1>4. ASSUME SettleStop
      PROVE  /\ slot.job \in Jobs /\ slot.cancelled \in BOOLEAN /\ host.owner \in Owners
             /\ FinishStop(slot.job, slot.gen, host.owner, slot.cancelled)
  BY <1>2, <1>4 DEF SettleStop, ActiveSlot
<1> QED
  BY <1>1, <1>3, <1>4

\* What a step does to the database, by who takes it.
LEMMA StepKinds ==
    ASSUME RunInv, RunNext
    PROVE  \/ UNCHANGED storeVars
           \/ \E o \in Owners : (ProcessStep(o) \/ Die(o)) /\ Writes(o)
           \/ Initialize \/ StartCommits \/ SettleStop \/ Request \/ Cleanup
<1>1. ASSUME NEW o \in Owners, ProcessStep(o) \/ Die(o)
      PROVE  UNCHANGED storeVars \/ Writes(o)
  BY <1>1, ProcessWrites DEF RunInv
<1>2. HostNext => \/ UNCHANGED storeVars
                  \/ Initialize \/ StartCommits \/ SettleStop \/ Request \/ Cleanup
  BY HostKinds, HostOnlyStore
<1> QED
  BY <1>1, <1>2 DEF RunNext

LEMMA JobStep ==
    ASSUME RunInv, RunNext, NEW j \in Jobs
    PROVE  JobOK(j)'
<1>0. /\ RunTypeOK /\ TypeOK /\ GatedIsIdle /\ ActiveIsOwned
      /\ JobOK(j) /\ \A o \in Owners : ProcessOK(o)
      /\ job \in [Jobs -> JobRow] /\ job[j] \in JobRow
  BY DEF RunInv, RunTypeOK, TypeOK, Safety
<1>u. ASSUME Untouched(j) PROVE JobOK(j)'
  BY <1>0, <1>u DEF Untouched, JobOK, Exists
<1>1. CASE UNCHANGED storeVars
  BY <1>u, <1>1 DEF storeVars, Untouched
<1>2. ASSUME NEW o \in Owners, Writes(o) PROVE JobOK(j)'
  <2>1. /\ Owns(proc[o].job, proc[o].gen, o)
        /\ \A i \in Jobs \ {proc[o].job} : Untouched(i)
        /\ Written(proc[o].job)
    BY <1>0, <1>2, WriteRows
  <2>2. CASE j = proc[o].job
    <3>1. Kept(j) /\ job[j].owner # NONE
      BY <2>1, <2>2, NoneAssumption DEF Written, Owns
    <3>2. job[j].gen # 0 /\ Exists(j)
      BY <1>0, <3>1 DEF JobOK
    <3>3. Exists(j)' /\ (job'[j].state = "validating" => job[j].state = "validating")
      BY <2>1, <2>2, <3>2 DEF Written, WriteMoves, WorkerMoves, Exists
    <3>4. job'[j].state = "validating" => \A k \in Pages : page'[j][k].state # "processing"
      BY <1>0, <2>1, <2>2, <3>3 DEF Written, JobOK, ClaimStates
    <3> QED
      BY <1>0, <3>1, <3>2, <3>3, <3>4 DEF Kept, JobOK
  <2> QED
    BY <1>u, <2>1, <2>2
<1>3. CASE Initialize
  <2>1. PICK o \in Owners : ActivateSupervisor(o)
    BY <1>3, HostCalls
  <2>2. /\ UNCHANGED <<source, result, snapshot>>
        /\ \/ job'[j] = job[j] /\ page'[j] = page[j]
           \/ /\ job'[j].state = "interrupted" /\ job'[j].owner = NONE
              /\ job'[j].gen = job[j].gen
    BY <1>0, <2>1, TakeoverRows
  <2> QED
    BY <1>0, <1>u, <2>2 DEF JobOK, Untouched
<1>4. CASE StartCommits
  <2> DEFINE i == slot.job
             g == slot.gen - 1
  <2>1. i \in Jobs /\ g \in Gens /\ host.owner \in Owners /\ StartJob(i, g, host.owner)
    BY <1>4, HostCalls
  <2> HIDE DEF i, g
  <2>2. /\ g < MaxGeneration
        /\ job'[i] = [state |-> "validating", gen |-> g + 1, owner |-> host.owner, rev |-> NONE,
                      deleting |-> FALSE]
        /\ \A k \in Pages : page'[i][k].state # "processing"
        /\ \A m \in Jobs \ {i} : Untouched(m)
    BY <1>0, <2>1, StartRows
  <2>3. CASE j = i
    <3>1. job'[j].state = "validating" /\ job'[j].gen = g + 1 /\ job'[j].owner = host.owner
      BY <2>2, <2>3
    <3>2. g + 1 \in Gens /\ g + 1 # 0
      BY <2>1, <2>2, BoundsAssumption DEF Gens
    <3>3. Exists(j)'
      BY <3>1 DEF Exists
    <3> QED
      BY <2>2, <2>3, <3>1, <3>2, <3>3 DEF JobOK
  <2> QED
    BY <1>u, <2>2, <2>3
<1>5. CASE SettleStop
  <2> DEFINE i == slot.job
  <2>1. i \in Jobs /\ slot.cancelled \in BOOLEAN /\ host.owner \in Owners
        /\ FinishStop(i, slot.gen, host.owner, slot.cancelled)
    BY <1>5, HostCalls
  <2> HIDE DEF i
  <2>2. /\ UNCHANGED <<supervisor, source, result, snapshot>>
        /\ job'[i].gen = job[i].gen
        /\ job'[i].owner = NONE /\ job'[i].state \in {"cancelled", "interrupted"}
        /\ \A m \in Jobs \ {i} : Untouched(m)
    BY <1>0, <2>1, StopRows
  <2>3. CASE j = i
    BY <1>0, <2>2, <2>3 DEF JobOK
  <2> QED
    BY <1>u, <2>2, <2>3
<1>6. CASE Request
  <2>1. /\ page' = page /\ Kept(j)
        /\ job'[j] = job[j] \/ <<job[j].state, job'[j].state>> \in RequestMoves
        /\ \A s \in Sources : source'[j][s].sha = source[j][s].sha
    BY <1>0, <1>6, RequestRows
  <2>2. CASE job'[j] = job[j]
    BY <1>0, <2>1, <2>2 DEF JobOK, Exists
  <2>3. CASE <<job[j].state, job'[j].state>> \in RequestMoves
    <3>1. Exists(j)' /\ job'[j].state # "validating"
      BY <2>3 DEF RequestMoves, PauseMoves, CancelMoves, ArchiveMoves, Stays, Exists
    <3> QED
      BY <1>0, <2>1, <3>1 DEF JobOK, Kept
  <2> QED
    BY <2>1, <2>2, <2>3
<1>7. CASE Cleanup
  <2>1. PICK i \in Jobs :
          /\ \A m \in Jobs \ {i} : Untouched(m)
          /\ \/ /\ UNCHANGED <<source, page, result, snapshot>>
                /\ job'[i] = [job[i] EXCEPT !.deleting = TRUE]
             \/ /\ job'[i] = [NoJob EXCEPT !.state = "deleted"]
                /\ \A s \in Sources : source'[i][s].sha = NONE
    BY <1>0, <1>7, CleanupRows
  <2>2. CASE j = i /\ job'[i] = [job[i] EXCEPT !.deleting = TRUE]
             /\ UNCHANGED <<source, page, result, snapshot>>
    <3>1. job'[j].state = job[j].state /\ job'[j].gen = job[j].gen /\ job'[j].owner = job[j].owner
      BY <1>0, <2>2 DEF JobRow
    <3> QED
      BY <1>0, <2>2, <3>1 DEF JobOK, Exists
  <2>3. CASE j = i /\ job'[i] = [NoJob EXCEPT !.state = "deleted"]
             /\ \A s \in Sources : source'[i][s].sha = NONE
    <3>1. job'[j].state = "deleted" /\ job'[j].gen = 0 /\ job'[j].owner = NONE
      BY <2>3 DEF NoJob
    <3>2. 0 \in Gens
      BY BoundsAssumption DEF Gens
    <3> QED
      BY <2>3, <3>1, <3>2 DEF JobOK
  <2> QED
    BY <1>u, <2>1, <2>2, <2>3
<1> QED
  BY <1>1, <1>2, <1>3, <1>4, <1>5, <1>6, <1>7, StepKinds(***************************************************************************)
(* The invariant is preserved: the processes.                              *)
(***************************************************************************)
\* A step of one process leaves another as it was: only one of them writes.
LEMMA OtherProcess ==
    ASSUME RunInv, NEW o \in Owners, ProcessStep(o) \/ Die(o), NEW q \in Owners \ {o}
    PROVE  ProcessOK(q)'
<1>0. ProcessOK(q) /\ ProcessOK(o) /\ Frame(o)
  BY ProcessFrame DEF RunInv
<1>1. proc'[q] = proc[q]
  BY <1>0 DEF Frame
<1>2. lease' = q <=> lease = q
  BY <1>0, NoneAssumption DEF Frame, Released
<1>3. ASSUME lease = q PROVE UNCHANGED storeVars
  <2>1. proc[o].stage \notin LeasedStages
    BY <1>0, <1>3 DEF ProcessOK
  <2> QED
    BY <1>0, <2>1 DEF Frame
<1>4. /\ proc'[q].stage \in LeasedStages <=> lease' = q
      /\ proc[q].stage \in LeasedStages <=> lease = q
  BY <1>0, <1>1, <1>2 DEF ProcessOK
<1>5. Working(q) => UNCHANGED storeVars
  BY <1>3, <1>4, StageFacts DEF Working
<1>6. proc[q].stage \in PageStages => Working(q)
  BY StageFacts DEF Working
<1>7. Working(q)' => Owns(proc[q].job, proc[q].gen, q)' /\ ~job'[proc[q].job].deleting
  <2>1. SUFFICES ASSUME Working(q)'
        PROVE  Owns(proc[q].job, proc[q].gen, q)' /\ ~job'[proc[q].job].deleting
    OBVIOUS
  <2>2. Working(q)
    BY <1>1, <2>1 DEF Working
  <2>3. Owns(proc[q].job, proc[q].gen, q) /\ ~job[proc[q].job].deleting
    BY <1>0, <2>2 DEF ProcessOK
  <2> QED
    BY <1>1, <1>5, <2>2, <2>3 DEF Owns, storeVars
<1>8. proc'[q].stage \in PageStages =>
        /\ proc'[q].page \in Pages /\ proc'[q].attempt \in 1 .. MaxAttempts
        /\ HoldsClaim(proc[q].job, proc[q].gen, q, proc[q].page, proc[q].attempt)'
        /\ job'[proc'[q].job].state \in ClaimStates
  BY <1>0, <1>1, <1>5, <1>6 DEF ProcessOK, HoldsClaim, ClaimedBy, storeVars
<1> QED
  BY <1>0, <1>1, <1>4, <1>7, <1>8 DEF ProcessOK

LEMMA ProcessOwns ==
    ASSUME RunInv, NEW o \in Owners, ProcessStep(o) \/ Die(o), Working(o)'
    PROVE  Owns(proc[o].job, proc[o].gen, o)' /\ ~job'[proc'[o].job].deleting
<1> DEFINE i == proc[o].job
           g == proc[o].gen
<1>0. /\ ProcessOK(o) /\ Frame(o) /\ Local(o) /\ ActiveIsOwned /\ GatedIsIdle
      /\ RunTypeOK /\ (UNCHANGED storeVars \/ Writes(o))
  BY ProcessFrame, ProcessLocal, ProcessWrites DEF RunInv, Safety
<1>1. proc'[o].job = i /\ proc'[o].gen = g /\ supervisor' = supervisor
  BY <1>0 DEF Frame
<1>2. CASE Working(o)
  <2>1. Owns(i, g, o) /\ ~job[i].deleting
    BY <1>0, <1>2 DEF ProcessOK
  <2>2. Kept(i)
    <3>1. CASE UNCHANGED storeVars
      BY <3>1 DEF storeVars, Kept
    <3>2. CASE Writes(o)
      BY <1>0, <3>2, WriteRows DEF Written
    <3> QED
      BY <1>0, <3>1, <3>2
  <2> HIDE DEF i, g
  <2>3. job'[i].gen = g /\ job'[i].owner = o /\ supervisor' = o /\ ~job'[i].deleting
    BY <1>1, <2>1, <2>2 DEF Owns, Kept
  <2> QED
    BY <1>1, <2>3 DEF Owns, i, g
<1>3. CASE UNCHANGED storeVars /\ ~Disowned(o) /\ Row(o).state = "validating" /\ i \in Jobs
  <2>1. job[i].gen = g /\ job[i].owner = o /\ Active(i)
    BY <1>3 DEF Disowned, Row, Active
  <2>2. supervisor = o /\ ~job[i].deleting
    BY <1>0, <1>3, <2>1 DEF ActiveIsOwned, GatedIsIdle
  <2> HIDE DEF i, g
  <2>3. job'[i].gen = g /\ job'[i].owner = o /\ supervisor' = o /\ ~job'[i].deleting
    BY <1>3, <2>1, <2>2 DEF storeVars
  <2> QED
    BY <1>1, <2>3 DEF Owns, i, g
<1> QED
  BY <1>0, <1>2, <1>3 DEF Local

LEMMA ProcessClaims ==
    ASSUME RunInv, NEW o \in Owners, ProcessStep(o) \/ Die(o), proc'[o].stage \in PageStages
    PROVE  /\ proc'[o].page \in Pages /\ proc'[o].attempt \in 1 .. MaxAttempts
           /\ HoldsClaim(proc[o].job, proc[o].gen, o, proc[o].page, proc[o].attempt)'
           /\ job'[proc'[o].job].state \in ClaimStates
<1> DEFINE i == proc[o].job
           g == proc[o].gen
<1>0. /\ ProcessOK(o) /\ Frame(o) /\ Local(o)
      /\ page \in [Jobs -> [Pages -> PageRow]]
  BY ProcessFrame, ProcessLocal DEF RunInv, RunTypeOK, TypeOK
<1>1. proc'[o].job = i /\ proc'[o].gen = g /\ i \in Jobs
  BY <1>0 DEF Frame, ProcessOK
<1>2. CASE /\ proc[o].stage \in PageStages /\ UNCHANGED storeVars
           /\ proc'[o].page = proc[o].page /\ proc'[o].attempt = proc[o].attempt
  BY <1>0, <1>1, <1>2 DEF ProcessOK, HoldsClaim, ClaimedBy, storeVars
<1>3. ASSUME NEW k \in Pages, BeginPage(i, g, o, k),
             proc'[o].page = k, proc'[o].attempt = page[i][k].attempt + 1
      PROVE  /\ proc'[o].page \in Pages /\ proc'[o].attempt \in 1 .. MaxAttempts
             /\ HoldsClaim(i, g, o, proc[o].page, proc[o].attempt)'
             /\ job'[i].state \in ClaimStates
  <2> DEFINE a == page[i][k].attempt
             row == [state |-> "processing", owner |-> o, gen |-> g, attempt |-> a + 1]
  <2>1. /\ job' = job /\ job[i].state = "running" /\ a < MaxAttempts
        /\ page' = [page EXCEPT ![i][k] = row]
    BY <1>3 DEF BeginPage
  <2>2. a \in Nat
    BY <1>0, <1>1 DEF PageRow
  <2>3. page'[i][k] = row
    BY <1>0, <1>1, <2>1
  <2>4. /\ page'[i][k].state = "processing" /\ page'[i][k].owner = o /\ page'[i][k].gen = g
        /\ page'[i][k].attempt = a + 1
    BY <2>3
  <2>5. a + 1 \in 1 .. MaxAttempts
    BY <2>1, <2>2, BoundsAssumption
  <2> HIDE DEF i, g, a, row
  <2>6. page'[i'][k].state = "processing" /\ i' = i /\ g' = g
    BY <1>1, <2>4 DEF i, g
  <2>7. HoldsClaim(i, g, o, proc[o].page, proc[o].attempt)'
    BY <1>3, <2>4, <2>6 DEF HoldsClaim, ClaimedBy, a
  <2> QED
    BY <1>3, <2>1, <2>5, <2>7 DEF ClaimStates, a
<1> QED
  BY <1>0, <1>1, <1>2, <1>3 DEF Local

LEMMA SameProcess ==
    ASSUME RunInv, NEW o \in Owners, ProcessStep(o) \/ Die(o)
    PROVE  ProcessOK(o)'
<1>0. ProcessOK(o) /\ Frame(o) /\ Local(o)
  BY ProcessFrame, ProcessLocal DEF RunInv
<1>1. proc'[o].stage \in LeasedStages <=> lease' = o
  BY <1>0, NoneAssumption, StageFacts DEF Frame, ProcessOK, Released
<1>2. proc'[o].stage # "none" => proc'[o].job \in Jobs
  BY <1>0 DEF Frame, ProcessOK
<1>3. /\ proc'[o].stage \in SourceStages => proc'[o].todo # {}
      /\ proc'[o].seen # NONE => proc'[o].stage \in CheckedStages
  BY <1>0 DEF Local
<1> QED
  BY <1>1, <1>2, <1>3, ProcessOwns, ProcessClaims DEF ProcessOK

\* A process that is not moved, and whose run is not, or that does not work.
LEMMA ProcessStays ==
    ASSUME NEW q \in Owners, ProcessOK(q), proc'[q] = proc[q], lease' = q <=> lease = q,
           UNCHANGED storeVars \/ ~Working(q)
    PROVE  ProcessOK(q)'
<1>1. Working(q)' => Working(q)
  BY DEF Working
<1>2. proc[q].stage \in PageStages => Working(q)
  BY StageFacts DEF Working
<1>3. Working(q) => UNCHANGED storeVars
  OBVIOUS
<1>4. Working(q) => Owns(proc[q].job, proc[q].gen, q)' /\ ~job'[proc[q].job].deleting
  BY <1>3 DEF ProcessOK, Owns, storeVars
<1>5. proc[q].stage \in PageStages =>
        /\ proc[q].page \in Pages /\ proc[q].attempt \in 1 .. MaxAttempts
        /\ HoldsClaim(proc[q].job, proc[q].gen, q, proc[q].page, proc[q].attempt)'
        /\ job'[proc[q].job].state \in ClaimStates
  BY <1>2, <1>3 DEF ProcessOK, HoldsClaim, ClaimedBy, storeVars
<1> QED
  BY <1>1, <1>4, <1>5 DEF ProcessOK

\* The one process of an application that is being asked for a run is quiet.
LEMMA HostIsQuiet ==
    ASSUME RunInv, slot # NONE, slot.stage \in {"starting", "started"} \/ slot.stopped
    PROVE  host.owner \in Owners /\ Quiet(host.owner)
<1>1. /\ SlotOK /\ HostOK /\ host.owner \in Owners \cup {NONE}
  BY DEF RunInv, RunTypeOK, OptionalOwner
<1> QED
  BY <1>1 DEF SlotOK, HostOK

LEMMA HostProcess ==
    ASSUME RunInv, HostNext, NEW q \in Owners
    PROVE  ProcessOK(q)'
<1>0. /\ ProcessOK(q) /\ SlotOK /\ HostOK /\ RunTypeOK /\ TypeOK
      /\ proc \in [Owners -> Proc] /\ slot \in ActiveSlot \cup {NONE}
      /\ host.owner \in Owners \cup {NONE} /\ GatedIsIdle
  <2>1. RunTypeOK /\ TypeOK /\ GatedIsIdle /\ ProcessOK(q) /\ SlotOK /\ HostOK
    BY DEF RunInv, RunTypeOK, Safety
  <2> QED
    BY <2>1 DEF RunTypeOK, OptionalOwner
<1>h. q # "host" /\ q # NONE
  BY HostAssumption, NoneAssumption
<1>w. Working(q) => proc[q].stage \in LeasedStages /\ lease = q
  BY <1>0, StageFacts DEF ProcessOK, Working
<1>q. Quiet(q) => lease # q
  BY <1>0, StageFacts DEF ProcessOK, Quiet
<1>1. CASE \/ \E o \in Owners : OpenApplication(o)
           \/ \E j \in Jobs, g \in Gens : ReserveSlot(j, g)
           \/ StartRefused \/ StartLost \/ ObserveExit \/ KillUnconfirmed
  <2>1. UNCHANGED <<storeVars, proc, lease>>
    BY <1>1 DEF OpenApplication, ReserveSlot, StartRefused, StartLost, ObserveExit, KillUnconfirmed
  <2> QED
    BY <1>0, <2>1, ProcessStays
<1>2. CASE CloseApplication \/ SettleRead \/ SettleFails
  <2>1. UNCHANGED <<storeVars, proc>> /\ (lease' = q <=> lease = q)
    BY <1>0, <1>2, <1>h DEF CloseApplication, SettleRead, SettleFails, LeaseIsFree, SlotOK
  <2> QED
    BY <1>0, <2>1, ProcessStays
<1>3. CASE Initialize \/ SettleStop \/ Cleanup
  <2>1. UNCHANGED proc /\ lease # q /\ lease' # q
    BY <1>0, <1>3, <1>h DEF Initialize, SettleStop, Cleanup, LeaseIsFree, SlotOK
  <2> QED
    BY <1>0, <1>w, <2>1, ProcessStays
<1>4. CASE StartCommits
  <2>1. UNCHANGED <<proc, lease>> /\ supervisor = host.owner /\ slot # NONE /\ slot.stage = "starting"
    BY <1>4 DEF StartCommits, StartJob, SlotIn
  <2>2. ~Working(q)
    <3>1. SUFFICES ASSUME Working(q) PROVE FALSE
      OBVIOUS
    <3>2. supervisor = q
      BY <1>0, <3>1 DEF ProcessOK, Owns
    <3>3. Quiet(q)
      BY <2>1, <3>2, HostIsQuiet
    <3> QED
      BY <1>q, <1>w, <3>1, <3>3
  <2> QED
    BY <1>0, <2>1, <2>2, ProcessStays
<1>5. CASE Spawn
  <2> DEFINE spawned == [NoProc EXCEPT !.stage = "spawned", !.job = slot.job, !.gen = slot.gen]
  <2>1. UNCHANGED <<storeVars, lease>> /\ slot # NONE /\ slot.stage = "started"
        /\ (Becomes(host.owner, spawned) \/ UNCHANGED proc)
    BY <1>5 DEF Spawn, SlotIn
  <2>2. host.owner \in Owners /\ Quiet(host.owner)
    BY <2>1, HostIsQuiet
  <2>3. CASE proc'[q] = proc[q]
    BY <1>0, <2>1, <2>3, ProcessStays
  <2>4. CASE proc'[q] # proc[q]
    <3>1. q = host.owner /\ proc'[q] = spawned
      BY <1>0, <2>1, <2>2, <2>4, BecomesAt
    <3>2. /\ proc'[q].stage = "spawned" /\ proc'[q].job = slot.job /\ proc'[q].seen = NONE
      BY <3>1 DEF NoProc
    <3>3. lease # q
      BY <1>q, <2>2, <3>1
    <3>4. /\ "spawned" \notin SourceStages /\ "spawned" \notin PageStages
          /\ "spawned" \notin LeasedStages /\ "spawned" \notin OwningStages
      BY DEF SourceStages, PageStages, LeasedStages, CheckedStages, EndStages, OwningStages
    <3>5. slot.job \in Jobs
      BY <1>0, <2>1 DEF ActiveSlot
    <3> HIDE DEF spawned
    <3> QED
      BY <2>1, <3>2, <3>3, <3>4, <3>5 DEF ProcessOK, Working
  <2> QED
    BY <2>3, <2>4
<1>6. CASE Kill
  <2>1. /\ UNCHANGED storeVars /\ Leaves(host.owner, "exited")
        /\ lease' = Released(host.owner) /\ slot # NONE /\ slot.stage = "watched"
    BY <1>6 DEF Kill, SlotIn
  <2>2. host.owner \in Owners
    BY <1>0, <2>1 DEF SlotOK, HostOK
  <2>3. "exited" \in Stages
    BY DEF Stages
  <2>4. CASE q # host.owner
    BY <1>0, <1>h, <2>1, <2>2, <2>3, <2>4, LeavesAt, ProcessStays DEF Released
  <2>5. CASE q = host.owner
    <3>1. proc'[q].stage = "exited" /\ proc'[q].job = proc[q].job /\ proc'[q].seen = NONE
      BY <1>0, <2>1, <2>2, <2>3, <2>5, LeavesAt
    <3>2. lease' # q
      BY <1>h, <2>1, <2>5 DEF Released
    <3>3. proc[q].stage # "none"
      BY <1>0, <2>1, <2>5 DEF SlotOK
    <3>4. /\ "exited" \notin SourceStages /\ "exited" \notin PageStages
          /\ "exited" \notin LeasedStages /\ "exited" \notin OwningStages
      BY DEF SourceStages, PageStages, LeasedStages, CheckedStages, EndStages, OwningStages
    <3> QED
      BY <1>0, <3>1, <3>2, <3>3, <3>4 DEF ProcessOK, Working
  <2> QED
    BY <2>4, <2>5
<1>7. CASE Request
  <2>1. UNCHANGED <<supervisor, page, proc, lease>>
        /\ \A j \in Jobs :
             /\ Kept(j)
             /\ job'[j] = job[j] \/ <<job[j].state, job'[j].state>> \in RequestMoves
    <3>1. \E j \in Jobs : TRUE
      BY <1>7 DEF Request
    <3> QED
      BY <1>0, <1>7, <3>1, RequestRows
  <2>2. ASSUME Working(q)
        PROVE  Owns(proc[q].job, proc[q].gen, q)' /\ ~job'[proc[q].job].deleting
    <3>1. proc[q].job \in Jobs /\ Owns(proc[q].job, proc[q].gen, q) /\ ~job[proc[q].job].deleting
      BY <1>0, <1>w, <2>2, StageFacts DEF ProcessOK
    <3>2. Kept(proc[q].job)
      BY <2>1, <3>1
    <3> QED
      BY <2>1, <3>1, <3>2 DEF Owns, Kept
  <2>3. ASSUME proc[q].stage \in PageStages
        PROVE  /\ proc[q].page \in Pages /\ proc[q].attempt \in 1 .. MaxAttempts
               /\ HoldsClaim(proc[q].job, proc[q].gen, q, proc[q].page, proc[q].attempt)'
               /\ job'[proc[q].job].state \in ClaimStates
    <3>1. /\ proc[q].page \in Pages /\ proc[q].attempt \in 1 .. MaxAttempts
          /\ HoldsClaim(proc[q].job, proc[q].gen, q, proc[q].page, proc[q].attempt)
          /\ job[proc[q].job].state \in ClaimStates /\ proc[q].job \in Jobs
      BY <1>0, <2>3, StageFacts DEF ProcessOK
    <3>2. job'[proc[q].job].state \in ClaimStates
      BY ZenonT(40), <2>1, <3>1 DEF ClaimStates, RequestMoves, PauseMoves, CancelMoves, ArchiveMoves, Stays
    <3> QED
      BY <2>1, <3>1, <3>2 DEF HoldsClaim, ClaimedBy
  <2> QED
    BY <1>0, <2>1, <2>2, <2>3 DEF ProcessOK, Working
<1> QED
  BY <1>1, <1>2, <1>3, <1>4, <1>5, <1>6, <1>7 DEF HostNext(***************************************************************************)
(* The invariant is preserved: the application and its slot.               *)
(***************************************************************************)
HostTypeOK ==
    /\ host \in [owner : OptionalOwner, initialized : BOOLEAN]
    /\ slot \in ActiveSlot \cup {NONE}
    /\ proc \in [Owners -> Proc]
    /\ lease \in Owners \cup {"host", NONE}

HostInv == HostTypeOK /\ HostOK /\ SlotOK /\ NoForgottenRun

LEMMA HostFacts ==
    ASSUME RunInv
    PROVE  /\ RunTypeOK /\ TypeOK /\ HostTypeOK /\ HostOK /\ SlotOK /\ NoForgottenRun
           /\ GatedIsIdle /\ ActiveIsOwned /\ SingleActiveJob
           /\ \A o \in Owners : ProcessOK(o)
           /\ \A j \in Jobs : JobOK(j)
           /\ \A j \in Jobs : job[j] \in JobRow
           /\ "host" # NONE
           /\ slot # NONE => slot \in ActiveSlot
           /\ host.owner # NONE => host.owner \in Owners
           /\ slot # NONE => host.owner \in Owners /\ host.initialized
<1>1. /\ RunTypeOK /\ HostOK /\ SlotOK /\ NoForgottenRun
      /\ GatedIsIdle /\ ActiveIsOwned /\ SingleActiveJob
      /\ \A o \in Owners : ProcessOK(o)
      /\ \A j \in Jobs : JobOK(j)
  BY DEF RunInv, Safety
<1>2. TypeOK /\ HostTypeOK
  BY <1>1 DEF RunTypeOK, HostTypeOK
<1>3. \A j \in Jobs : job[j] \in JobRow
  BY <1>2 DEF TypeOK
<1>4. slot # NONE => slot \in ActiveSlot
  BY <1>2 DEF HostTypeOK
<1>5. host.owner # NONE => host.owner \in Owners
  BY <1>2 DEF HostTypeOK, OptionalOwner
<1>6. slot # NONE => host.initialized /\ host.owner # NONE
  BY <1>1 DEF SlotOK, HostOK
<1> QED
  BY <1>1, <1>2, <1>3, <1>4, <1>5, <1>6, HostAssumption

\* No process and no user makes a job active: only a start does.
LEMMA ActiveKept ==
    ASSUME RunInv, NEW j \in Jobs, Active(j)',
           (\E o \in Owners : ProcessStep(o) \/ Die(o)) \/ Request
    PROVE  Active(j) /\ job'[j].gen = job[j].gen
<1>0. RunTypeOK /\ GatedIsIdle /\ \A o \in Owners : ProcessOK(o)
  BY HostFacts
<1>1. ASSUME NEW o \in Owners, ProcessStep(o) \/ Die(o)
      PROVE  Active(j) /\ job'[j].gen = job[j].gen
  <2>1. CASE UNCHANGED storeVars
    BY <2>1 DEF storeVars, Active
  <2>2. CASE Writes(o)
    <3>1. Untouched(j) \/ Written(j)
      BY <1>0, <2>2, WriteRows
    <3> QED
      BY <3>1 DEF Untouched, Written, Kept, WriteMoves, WorkerMoves, Active
  <2> QED
    BY <1>1, <2>1, <2>2, ProcessWrites, HostFacts
<1>2. CASE Request
  <2>1. /\ Kept(j)
        /\ job'[j] = job[j] \/ <<job[j].state, job'[j].state>> \in RequestMoves
    BY <1>0, <1>2, RequestRows
  <2> QED
    BY <2>1 DEF Kept, RequestMoves, PauseMoves, CancelMoves, ArchiveMoves, Stays, Active
<1> QED
  BY <1>1, <1>2

LEMMA ProcessHost ==
    ASSUME RunInv, NEW o \in Owners, ProcessStep(o) \/ Die(o)
    PROVE  HostInv'
<1>0. /\ HostTypeOK /\ HostOK /\ SlotOK /\ NoForgottenRun /\ ProcessOK(o) /\ Frame(o)
      /\ host.owner # NONE => host.owner \in Owners
      /\ slot # NONE => host.owner \in Owners
  BY HostFacts, ProcessFrame
<1>1. /\ UNCHANGED <<host, slot, supervisor>> /\ proc' \in [Owners -> Proc]
      /\ \A q \in Owners \ {o} : proc'[q] = proc[q]
      /\ proc[o].stage \notin {"none", "exited"} /\ proc'[o].stage # "none"
  BY <1>0 DEF Frame
<1>2. /\ lease' \in Owners \cup {"host", NONE}
      /\ lease' = "host" <=> lease = "host"
  BY <1>0, NoneAssumption, HostAssumption DEF Frame, Released, HostTypeOK
<1>3. HostTypeOK'
  BY <1>0, <1>1, <1>2 DEF HostTypeOK
<1>4. HostOK'
  <2>1. ASSUME host.owner # NONE, proc[host.owner].stage = "none"
        PROVE  proc'[host.owner].stage = "none"
    BY <1>0, <1>1, <2>1
  <2>2. ASSUME \A j \in Jobs : ~Active(j) PROVE \A j \in Jobs : ~Active(j)'
    BY <2>2, ActiveKept
  <2> QED
    BY <1>0, <1>1, <2>1, <2>2 DEF HostOK
<1>5. SlotOK'
  <2>1. ASSUME host.owner # NONE, Quiet(host.owner) PROVE Quiet(host.owner)'
    BY <1>0, <1>1, <2>1 DEF Quiet
  <2>2. ASSUME host.owner # NONE, proc[host.owner].stage # "none"
        PROVE  proc'[host.owner].stage # "none"
    BY <1>0, <1>1, <2>2
  <2>3. ASSUME SlotIn("stopping") PROVE UNCHANGED storeVars
    <3>1. lease = "host" /\ lease # o
      BY <1>0, <2>3, HostAssumption DEF SlotOK
    <3>2. proc[o].stage \notin LeasedStages
      BY <1>0, <3>1 DEF ProcessOK
    <3> QED
      BY <1>0, <3>2 DEF Frame
  <2>4. SlotIn("stopping")' <=> SlotIn("stopping")
    BY <1>1 DEF SlotIn
  <2>5. SlotIn("stopping")' =>
          /\ ~job'[slot.job].deleting
          /\ job'[slot.job].state \in SettledStates
          /\ Active(slot.job)' \/ \A k \in Pages : page'[slot.job][k].state # "processing"
    <3>1. SUFFICES ASSUME SlotIn("stopping")
          PROVE  /\ ~job'[slot.job].deleting
                 /\ job'[slot.job].state \in SettledStates
                 /\ Active(slot.job)' \/ \A k \in Pages : page'[slot.job][k].state # "processing"
      BY <2>4
    <3>2. job' = job /\ page' = page
      BY <2>3, <3>1 DEF storeVars
    <3>3. /\ ~job[slot.job].deleting
          /\ job[slot.job].state \in SettledStates
          /\ Active(slot.job) \/ \A k \in Pages : page[slot.job][k].state # "processing"
      BY <1>0, <3>1 DEF SlotOK
    <3>4. Active(slot.job)' = Active(slot.job)
      BY <1>1, <3>2 DEF Active
    <3> QED
      BY <3>2, <3>3, <3>4
  <2>6. slot # NONE => host.owner # NONE
    BY <1>0, NoneAssumption
  <2> QED
    BY <1>0, <1>1, <1>2, <2>1, <2>2, <2>4, <2>5, <2>6 DEF SlotOK
<1>6. NoForgottenRun'
  <2>1. SUFFICES ASSUME NEW j \in Jobs, Serving', Active(j)'
        PROVE  /\ slot' # NONE
               /\ slot'.job = j /\ slot'.gen = job'[j].gen
               /\ slot'.stage # "starting"
    BY DEF NoForgottenRun
  <2>2. Active(j) /\ job'[j].gen = job[j].gen
    BY <2>1, ActiveKept
  <2> QED
    BY <1>0, <1>1, <2>1, <2>2 DEF NoForgottenRun, Serving
<1> QED
  BY <1>3, <1>4, <1>5, <1>6 DEF HostInv

\* The steps of the application that leave the database and its process alone.
LEMMA OpenHost ==
    ASSUME RunInv, (\E o \in Owners : OpenApplication(o)) \/ CloseApplication
    PROVE  HostInv'
<1>0. /\ HostTypeOK /\ HostOK /\ SlotOK /\ NoForgottenRun /\ "host" # NONE
      /\ slot # NONE => host.owner \in Owners
  BY HostFacts
<1>1. CASE CloseApplication
  <2>1. /\ host' = [owner |-> NONE, initialized |-> FALSE] /\ slot' = NONE /\ UNCHANGED proc
        /\ lease' = IF lease = "host" THEN NONE ELSE lease
    BY <1>1 DEF CloseApplication, NoHost
  <2>2. ~SlotIn("stopping")' /\ lease' # "host"
    BY <1>0, <2>1 DEF SlotIn
  <2>3. host'.owner = NONE /\ host'.initialized = FALSE
    BY <2>1
  <2>4. HostTypeOK'
    BY <1>0, <2>1, <2>3 DEF HostTypeOK, OptionalOwner
  <2>5. HostOK' /\ SlotOK' /\ NoForgottenRun'
    BY <2>1, <2>2, <2>3 DEF HostOK, SlotOK, NoForgottenRun, Serving
  <2> QED
    BY <2>4, <2>5 DEF HostInv
<1>2. ASSUME NEW o \in Owners, OpenApplication(o)
      PROVE  HostInv'
  <2>1. /\ host' = [owner |-> o, initialized |-> FALSE] /\ UNCHANGED <<slot, proc, lease>>
        /\ host.owner = NONE /\ proc[o].stage = "none" /\ supervisor # o /\ supervisor' = supervisor
    BY <1>2 DEF OpenApplication, storeVars
  <2>2. slot = NONE
    BY <1>0, <2>1, NoneAssumption
  <2>3. ~SlotIn("stopping")' /\ lease' # "host"
    BY <1>0, <2>1, <2>2 DEF SlotIn, SlotOK
  <2>4. host'.owner = o /\ host'.initialized = FALSE
    BY <2>1
  <2>5. HostTypeOK'
    BY <1>0, <2>1, <2>4 DEF HostTypeOK, OptionalOwner
  <2>6. HostOK' /\ NoForgottenRun'
    BY <2>1, <2>2, <2>4 DEF HostOK, NoForgottenRun, Serving
  <2>7. SlotOK'
    BY <2>1, <2>2, <2>3, <2>4 DEF SlotOK, Quiet
  <2> QED
    BY <2>5, <2>6, <2>7 DEF HostInv
<1> QED
  BY <1>1, <1>2

LEMMA TakeoverHost ==
    ASSUME RunInv, Initialize
    PROVE  HostInv'
<1>0. /\ HostTypeOK /\ HostOK /\ SlotOK /\ RunTypeOK /\ ActiveIsOwned
      /\ slot # NONE => host.initialized
  BY HostFacts
<1>1. /\ host.owner \in Owners /\ ActivateSupervisor(host.owner) /\ host.owner # NONE
      /\ ~host.initialized /\ UNCHANGED <<slot, proc, lease>>
      /\ \E answered \in BOOLEAN : host' = [host EXCEPT !.initialized = answered]
  BY HostCalls, NoneAssumption DEF Initialize
<1>2. slot = NONE /\ proc[host.owner].stage = "none" /\ lease # "host"
  BY <1>0, <1>1 DEF HostOK, SlotOK, SlotIn
<1>3. host'.owner = host.owner /\ host' \in [owner : OptionalOwner, initialized : BOOLEAN]
  BY <1>0, <1>1 DEF HostTypeOK
<1>4. ASSUME NEW j \in Jobs PROVE ~Active(j)'
  <2>1. /\ supervisor = host.owner => job' = job /\ page' = page
        /\ supervisor # host.owner => ~Active(j)'
    BY <1>0, <1>1, TakeoverRows
  <2>2. supervisor = host.owner => ~Active(j)
    BY <1>0, <1>1 DEF HostOK
  <2> QED
    BY <2>1, <2>2 DEF Active
<1>5. supervisor' = host.owner
  BY <1>1 DEF ActivateSupervisor
<1>6. HostTypeOK'
  BY <1>0, <1>1, <1>3 DEF HostTypeOK
<1>7. HostOK' /\ NoForgottenRun'
  BY <1>1, <1>2, <1>3, <1>4, <1>5 DEF HostOK, NoForgottenRun
<1>8. SlotOK'
  BY <1>1, <1>2, <1>3 DEF SlotOK, SlotIn, Quiet
<1> QED
  BY <1>6, <1>7, <1>8 DEF HostInv

\* The slot under the updates the application makes.
LEMMA SlotUpdates ==
    ASSUME slot \in ActiveSlot
    PROVE  /\ slot # NONE
           /\ \A st \in SlotStages :
                LET new == [slot EXCEPT !.stage = st] IN
                /\ new \in ActiveSlot /\ new.job = slot.job /\ new.gen = slot.gen
                /\ new.stage = st /\ new.stopped = slot.stopped
           /\ \A st \in SlotStages :
                LET new == [slot EXCEPT !.stage = st, !.stopped = TRUE] IN
                /\ new \in ActiveSlot /\ new.job = slot.job /\ new.gen = slot.gen
                /\ new.stage = st /\ new.stopped = TRUE
           /\ LET new == Slot(slot.job, slot.gen, "ended", TRUE) IN
                /\ new \in ActiveSlot /\ new.job = slot.job /\ new.gen = slot.gen
                /\ new.stage = "ended" /\ new.stopped = TRUE
  BY SlotAssumption DEF ActiveSlot, SlotStages, Slot

\* The slot is reserved while no process is about.
LEMMA ReserveHost ==
    ASSUME RunInv, NEW j \in Jobs, NEW g \in Gens, ReserveSlot(j, g)
    PROVE  HostInv'
<1>0. /\ HostTypeOK /\ HostOK /\ SlotOK /\ NoForgottenRun
  BY HostFacts
<1>1. /\ UNCHANGED <<storeVars, host, proc, lease>> /\ host.initialized /\ slot = NONE
      /\ slot' = Slot(j, g + 1, "starting", FALSE)
  BY DEF ReserveSlot, Serving
<1>2. g + 1 \in Nat /\ g + 1 # 0
  BY BoundsAssumption DEF Gens
<1>3. /\ slot' \in ActiveSlot /\ slot'.gen = g + 1 /\ slot'.stage = "starting"
      /\ slot'.stopped = FALSE
  BY <1>1, <1>2 DEF Slot, ActiveSlot, SlotStages
<1>4. ~SlotIn("stopping")' /\ lease' # "host" /\ slot' # NONE
  BY <1>0, <1>1, <1>3, SlotAssumption DEF SlotIn, SlotOK
<1>5. Quiet(host.owner)'
  BY <1>0, <1>1 DEF HostOK, SlotOK, Quiet
<1>6. HostTypeOK'
  BY <1>0, <1>1, <1>3 DEF HostTypeOK
<1>7. HostOK'
  BY <1>0, <1>1 DEF HostOK, storeVars, Active
<1>8. NoForgottenRun'
  BY <1>0, <1>1 DEF NoForgottenRun, storeVars, Active, Serving
<1>9. SlotOK'
  BY <1>0, <1>1, <1>2, <1>3, <1>4, <1>5 DEF SlotOK
<1> QED
  BY <1>6, <1>7, <1>8, <1>9 DEF HostInv

\* The slot is freed when nothing runs, or moves on with the run it holds.
LEMMA SlotFreed ==
    ASSUME RunInv, UNCHANGED <<storeVars, host, proc>>, slot' = NONE,
           slot # NONE, slot.stage = "starting" \/ slot.stopped,
           lease' \in Owners \cup {NONE}, \A j \in Jobs : ~Active(j)
    PROVE  HostInv'
<1>0. /\ HostTypeOK /\ HostOK /\ host.owner \in Owners /\ Quiet(host.owner) /\ host.initialized
  BY HostFacts, HostIsQuiet
<1>1. ~SlotIn("stopping")' /\ lease' # "host"
  BY HostAssumption DEF SlotIn
<1>2. HostTypeOK'
  BY <1>0 DEF HostTypeOK
<1>3. HostOK' /\ NoForgottenRun'
  BY <1>0 DEF HostOK, NoForgottenRun, storeVars, Active
<1>4. SlotOK'
  BY <1>0, <1>1 DEF SlotOK, Quiet
<1> QED
  BY <1>2, <1>3, <1>4 DEF HostInv

LEMMA SlotMoved ==
    ASSUME RunInv, UNCHANGED <<storeVars, host>>, slot # NONE,
           slot' \in ActiveSlot, slot'.job = slot.job, slot'.gen = slot.gen,
           slot'.stage \notin {"starting", "stopping"},
           slot'.stage \in {"started", "watched"} => ~slot'.stopped,
           slot'.stage = "watched" => proc'[host.owner].stage # "none",
           slot'.stage = "started" \/ slot'.stopped => Quiet(host.owner)',
           proc' \in [Owners -> Proc], lease' \in Owners \cup {NONE}
    PROVE  HostInv'
<1>0. /\ HostTypeOK /\ HostOK /\ SlotOK /\ NoForgottenRun /\ host.owner \in Owners /\ host.initialized
  BY HostFacts
<1>1. slot' # NONE /\ ~SlotIn("stopping")' /\ lease' # "host"
  BY HostAssumption, SlotAssumption DEF SlotIn
<1>2. HostTypeOK'
  BY <1>0 DEF HostTypeOK
<1>3. HostOK'
  BY <1>0 DEF HostOK, storeVars, Active
<1>4. NoForgottenRun'
  BY <1>0, <1>1 DEF NoForgottenRun, storeVars, Active, Serving
<1>5. SlotOK'
  BY <1>0, <1>1 DEF SlotOK
<1> QED
  BY <1>2, <1>3, <1>4, <1>5 DEF HostInv

\* The steps of a run that has its slot and leaves the database alone.
LEMMA SlotHost ==
    ASSUME RunInv,
           \/ StartRefused \/ StartLost \/ Spawn \/ ObserveExit \/ Kill \/ KillUnconfirmed
           \/ SettleFails
    PROVE  HostInv'
<1> DEFINE h == host.owner
<1>0. /\ HostTypeOK /\ HostOK /\ SlotOK /\ NoForgottenRun
      /\ slot # NONE => slot \in ActiveSlot /\ h \in Owners /\ host.initialized
      /\ proc \in [Owners -> Proc] /\ lease \in Owners \cup {"host", NONE}
  BY HostFacts DEF HostTypeOK
<1>1. slot # NONE /\ slot \in ActiveSlot /\ h \in Owners /\ host.initialized
  BY <1>0 DEF StartRefused, StartLost, Spawn, ObserveExit, Kill, KillUnconfirmed, SettleFails, SlotIn
<1>2. slot.stage # "stopping" => lease \in Owners \cup {NONE}
  BY <1>0, <1>1 DEF SlotOK, SlotIn
<1>s. {"starting", "started", "watched", "ended", "stopping"} = SlotStages
  BY DEF SlotStages
<1>3. CASE StartRefused
  <2>1. /\ UNCHANGED <<storeVars, host, proc, lease>> /\ slot.stage = "starting" /\ slot' = NONE
    BY <1>3 DEF StartRefused, SlotIn
  <2>2. \A j \in Jobs : ~Active(j)
    BY <1>0, <1>1, <2>1 DEF NoForgottenRun, Serving
  <2> QED
    BY <1>1, <1>2, <2>1, <2>2, SlotFreed
<1>4. CASE StartLost
  <2>1. /\ UNCHANGED <<storeVars, host, proc, lease>> /\ slot.stage = "starting"
        /\ slot' = [slot EXCEPT !.stage = "ended", !.stopped = TRUE]
    BY <1>4 DEF StartLost, SlotIn, Unanswered
  <2>2. Quiet(h)'
    BY <1>1, <2>1, HostIsQuiet DEF Quiet
  <2>3. /\ slot' \in ActiveSlot /\ slot'.job = slot.job /\ slot'.gen = slot.gen
        /\ slot'.stage = "ended"
    BY <1>1, <1>s, <2>1, SlotUpdates
  <2> QED
    BY <1>0, <1>1, <1>2, <2>1, <2>2, <2>3, SlotMoved
<1>5. CASE Spawn
  <2> DEFINE spawned == [NoProc EXCEPT !.stage = "spawned", !.job = slot.job, !.gen = slot.gen]
  <2>1. /\ UNCHANGED <<storeVars, host, lease>> /\ slot.stage = "started"
        /\ \/ /\ Becomes(h, spawned)
              /\ slot' \in {[slot EXCEPT !.stage = "watched"], [slot EXCEPT !.stage = "ended"]}
           \/ /\ slot' = [slot EXCEPT !.stage = "ended", !.stopped = TRUE]
              /\ UNCHANGED proc
    BY <1>5 DEF Spawn, SlotIn
  <2>2. ~slot.stopped /\ Quiet(h)
    BY <1>0, <1>1, <2>1, HostIsQuiet DEF SlotOK
  <2>3. CASE Becomes(h, spawned)
    <3>1. spawned \in Proc /\ spawned.stage = "spawned"
      BY <1>1, <1>s DEF ActiveSlot, Proc, NoProc, Stages
    <3>2. proc' \in [Owners -> Proc] /\ proc'[h].stage = "spawned"
      BY <1>0, <1>1, <2>3, <3>1, BecomesAt
    <3>3. /\ slot' \in ActiveSlot /\ slot'.job = slot.job /\ slot'.gen = slot.gen
          /\ slot'.stage \in {"watched", "ended"} /\ ~slot'.stopped
      <4>1. CASE slot' = [slot EXCEPT !.stage = "watched"] \/ slot' = [slot EXCEPT !.stage = "ended"]
        BY ZenonT(40), <1>1, <1>s, <2>2, <4>1, SlotUpdates
      <4>2. CASE UNCHANGED proc
        <5>1. proc'[h].stage # "spawned"
          BY <2>2, <4>2 DEF Quiet
        <5> QED
          BY <3>2, <5>1
      <4> QED
        BY <2>1, <4>1, <4>2
    <3> HIDE DEF spawned, h
    <3> QED
      BY <1>0, <1>1, <1>2, <2>1, <3>2, <3>3, SlotMoved DEF h
  <2>4. CASE slot' = [slot EXCEPT !.stage = "ended", !.stopped = TRUE] /\ UNCHANGED proc
    <3>1. Quiet(h)'
      BY <2>1, <2>2, <2>4 DEF Quiet
    <3>2. /\ slot' \in ActiveSlot /\ slot'.job = slot.job /\ slot'.gen = slot.gen
          /\ slot'.stage = "ended"
      BY <1>1, <1>s, <2>4, SlotUpdates
    <3> QED
      BY <1>0, <1>1, <1>2, <2>1, <2>4, <3>1, <3>2, SlotMoved
  <2> QED
    BY <2>1, <2>3, <2>4
<1>6. CASE ObserveExit
  <2>1. /\ UNCHANGED <<storeVars, host, proc, lease>> /\ slot.stage = "watched"
        /\ proc[h].stage = "exited"
        /\ slot' = [slot EXCEPT !.stage = "ended", !.stopped = TRUE]
    BY <1>6 DEF ObserveExit, SlotIn
  <2>2. Quiet(h)'
    BY <2>1 DEF Quiet
  <2>3. /\ slot' \in ActiveSlot /\ slot'.job = slot.job /\ slot'.gen = slot.gen
        /\ slot'.stage = "ended"
    BY <1>1, <1>s, <2>1, SlotUpdates
  <2> QED
    BY <1>0, <1>1, <1>2, <2>1, <2>2, <2>3, SlotMoved
<1>7. CASE Kill
  <2>1. /\ UNCHANGED <<storeVars, host>> /\ slot.stage = "watched"
        /\ Leaves(h, "exited") /\ lease' = Released(h)
        /\ slot' = [slot EXCEPT !.stage = "ended", !.stopped = TRUE]
    BY <1>7 DEF Kill, SlotIn
  <2>2. proc' \in [Owners -> Proc] /\ proc'[h].stage = "exited"
    <3>1. "exited" \in Stages
      BY DEF Stages
    <3> QED
      BY <1>0, <1>1, <2>1, <3>1, LeavesAt
  <2>3. Quiet(h)'
    BY <2>1, <2>2 DEF Quiet
  <2>4. /\ slot' \in ActiveSlot /\ slot'.job = slot.job /\ slot'.gen = slot.gen
        /\ slot'.stage = "ended"
    BY <1>1, <1>s, <2>1, SlotUpdates
  <2>5. lease' \in Owners \cup {NONE}
    BY <1>2, <2>1 DEF Released
  <2> QED
    BY <1>1, <2>1, <2>2, <2>3, <2>4, <2>5, SlotMoved
<1>8. CASE KillUnconfirmed
  <2>1. /\ UNCHANGED <<storeVars, host, proc, lease>> /\ slot.stage = "watched"
        /\ slot' = [slot EXCEPT !.stage = "ended"]
    BY <1>8 DEF KillUnconfirmed, SlotIn
  <2>2. ~slot.stopped
    BY <1>0, <1>1, <2>1 DEF SlotOK
  <2>3. /\ slot' \in ActiveSlot /\ slot'.job = slot.job /\ slot'.gen = slot.gen
        /\ slot'.stage = "ended" /\ ~slot'.stopped
    BY <1>1, <1>s, <2>1, <2>2, SlotUpdates
  <2> QED
    BY <1>0, <1>1, <1>2, <2>1, <2>3, SlotMoved
<1>9. CASE SettleFails
  <2>1. /\ UNCHANGED <<storeVars, host, proc>> /\ slot.stage = "stopping" /\ lease' = NONE
        /\ slot' = Slot(slot.job, slot.gen, "ended", TRUE)
    BY <1>9 DEF SettleFails, SlotIn
  <2>2. Quiet(h)'
    BY <1>0, <1>1, <2>1, HostIsQuiet DEF Quiet, SlotOK
  <2>3. /\ slot' \in ActiveSlot /\ slot'.job = slot.job /\ slot'.gen = slot.gen
        /\ slot'.stage = "ended"
    BY <1>1, <2>1, SlotUpdates
  <2> QED
    BY <1>0, <1>1, <2>1, <2>2, <2>3, SlotMoved
<1> QED
  BY <1>3, <1>4, <1>5, <1>6, <1>7, <1>8, <1>9

\* The settlement reads the durable state before it stops a run.
LEMMA SettleReadHost ==
    ASSUME RunInv, SettleRead
    PROVE  HostInv'
<1>0. /\ HostTypeOK /\ HostOK /\ SlotOK /\ NoForgottenRun /\ GatedIsIdle
      /\ slot # NONE /\ slot \in ActiveSlot /\ host.initialized /\ host.owner \in Owners
  BY HostFacts DEF SettleRead, SlotIn
<1>1. /\ UNCHANGED <<storeVars, host, proc>> /\ slot.stopped /\ lease = NONE
      /\ Quiet(host.owner)
  BY <1>0, HostIsQuiet DEF SettleRead, LeaseIsFree
<1> DEFINE i == slot.job
<1>2. CASE job[i].gen = slot.gen /\ Active(i)
  <2> DEFINE cancelled == job[i].state = "cancel_requested"
  <2>1. /\ lease' = "host"
        /\ slot' = [slot EXCEPT !.stage = "stopping", !.cancelled = cancelled]
    BY <1>2 DEF SettleRead
  <2>2. cancelled \in BOOLEAN
    OBVIOUS
  <2> HIDE DEF cancelled
  <2>3. /\ slot' \in ActiveSlot /\ slot'.job = i /\ slot'.gen = slot.gen
        /\ slot'.stage = "stopping" /\ slot'.stopped = slot.stopped
    BY <1>0, <2>1, <2>2 DEF ActiveSlot, SlotStages
  <2>4. slot' # NONE /\ SlotIn("stopping")'
    BY <2>3, SlotAssumption DEF SlotIn
  <2>5. i \in Jobs /\ ~job[i].deleting /\ job[i].state \in SettledStates /\ Active(i)
    BY <1>0, <1>2 DEF GatedIsIdle, Active, SettledStates, ActiveSlot
  <2>6. HostTypeOK'
    BY <1>0, <1>1, <2>1, <2>3 DEF HostTypeOK
  <2>7. HostOK'
    BY <1>0, <1>1 DEF HostOK, storeVars, Active
  <2>8. NoForgottenRun'
    BY <1>0, <1>1, <2>3, <2>4 DEF NoForgottenRun, storeVars, Active, Serving
  <2>9. SlotOK'
    <3>1. Quiet(host.owner)' /\ host'.initialized
      BY <1>0, <1>1 DEF Quiet
    <3>2. slot'.stopped /\ slot'.gen # 0
      BY <1>0, <1>1, <2>3 DEF SlotOK
    <3>3. ~job'[slot'.job].deleting /\ job'[slot'.job].state \in SettledStates /\ Active(slot.job)'
      BY <1>1, <2>3, <2>5 DEF storeVars, Active
    <3>4. host' = host
      BY <1>1
    <3> QED
      BY <2>1, <2>3, <2>4, <3>1, <3>2, <3>3, <3>4 DEF SlotOK, Active
  <2> QED
    BY <2>6, <2>7, <2>8, <2>9 DEF HostInv
<1>3. CASE ~(job[i].gen = slot.gen /\ Active(i))
  <2>1. slot' = NONE /\ lease' = NONE
    BY <1>1, <1>3 DEF SettleRead
  <2>2. \A j \in Jobs : ~Active(j)
    BY <1>0, <1>3 DEF NoForgottenRun, Serving
  <2> QED
    BY <1>0, <1>1, <2>1, <2>2, SlotFreed
<1> QED
  BY <1>2, <1>3

LEMMA SettleStopHost ==
    ASSUME RunInv, SettleStop
    PROVE  HostInv'
<1> DEFINE i == slot.job
<1>0. /\ HostTypeOK /\ HostOK /\ SlotOK /\ NoForgottenRun /\ RunTypeOK
      /\ slot # NONE /\ slot \in ActiveSlot /\ host.initialized /\ host.owner \in Owners
      /\ slot.stage = "stopping"
  BY HostFacts DEF SettleStop, SlotIn
<1>1. /\ slot.stopped /\ Quiet(host.owner)
  BY <1>0, HostIsQuiet DEF SlotOK
<1>2. /\ UNCHANGED <<host, proc>> /\ lease' = NONE
      /\ slot' \in {NONE, Slot(i, slot.gen, "ended", TRUE)}
  BY DEF SettleStop
<1>3. /\ supervisor' = supervisor /\ job'[i].state \in {"cancelled", "interrupted"}
      /\ \A j \in Jobs \ {i} : Untouched(j)
  BY <1>0, HostCalls, StopRows
<1>4. ASSUME NEW j \in Jobs PROVE ~Active(j)'
  <2>1. CASE j = i
    BY <1>3, <2>1 DEF Active
  <2>2. CASE j # i
    <3>1. ~Active(j)
      BY <1>0, <2>2 DEF NoForgottenRun, Serving
    <3> QED
      BY <1>3, <2>2, <3>1 DEF Untouched, Active
  <2> QED
    BY <2>1, <2>2
<1>5. /\ slot' # NONE => slot' \in ActiveSlot /\ slot'.gen = slot.gen /\ slot'.stage = "ended"
      /\ slot' \in ActiveSlot \cup {NONE} /\ ~SlotIn("stopping")'
  BY <1>0, <1>2, SlotUpdates DEF SlotIn
<1>6. HostTypeOK'
  BY <1>0, <1>2, <1>5 DEF HostTypeOK
<1>7. HostOK' /\ NoForgottenRun'
  BY <1>0, <1>2, <1>3, <1>4 DEF HostOK, NoForgottenRun
<1>8. SlotOK'
  BY <1>0, <1>1, <1>2, <1>5, HostAssumption DEF SlotOK, Quiet
<1> QED
  BY <1>6, <1>7, <1>8 DEF HostInv

LEMMA StartHost ==
    ASSUME RunInv, StartCommits
    PROVE  HostInv'
<1> DEFINE i == slot.job
           g == slot.gen - 1
<1>0. /\ HostTypeOK /\ HostOK /\ SlotOK /\ RunTypeOK
      /\ slot # NONE /\ slot \in ActiveSlot /\ host.initialized /\ host.owner \in Owners
      /\ slot.stage = "starting"
  BY HostFacts DEF StartCommits, SlotIn
<1>1. Quiet(host.owner) /\ ~slot.stopped
  BY <1>0, HostIsQuiet DEF SlotOK
<1>2. /\ UNCHANGED <<host, proc, lease>>
      /\ slot' \in {[slot EXCEPT !.stage = "started"], [slot EXCEPT !.stage = "ended", !.stopped = TRUE]}
  BY DEF StartCommits, Unanswered
<1>3. i \in Jobs /\ g \in Gens /\ g + 1 = slot.gen /\ StartJob(i, g, host.owner)
  BY HostCalls
<1>4. /\ slot' \in ActiveSlot /\ slot'.job = i /\ slot'.gen = slot.gen
      /\ slot'.stage \in {"started", "ended"}
      /\ slot'.stage = "started" => ~slot'.stopped
  <2>1. "started" \in SlotStages /\ "ended" \in SlotStages
    BY DEF SlotStages
  <2>2. CASE slot' = [slot EXCEPT !.stage = "started"]
    BY <1>0, <1>1, <2>1, <2>2, SlotUpdates
  <2>3. CASE slot' = [slot EXCEPT !.stage = "ended", !.stopped = TRUE]
    BY <1>0, <2>1, <2>3, SlotUpdates
  <2> QED
    BY <1>2, <2>2, <2>3
<1>5. slot' # NONE /\ ~SlotIn("stopping")' /\ lease' # "host"
  BY <1>0, <1>2, <1>4, SlotAssumption DEF SlotIn, SlotOK
<1> HIDE DEF i, g
<1>6. /\ supervisor' = supervisor /\ OthersRest(i) /\ \A j \in Jobs \ {i} : Untouched(j)
      /\ job'[i].gen = slot.gen
  <2>1. /\ supervisor' = supervisor /\ OthersRest(i) /\ \A j \in Jobs \ {i} : Untouched(j)
        /\ job'[i] = [state |-> "validating", gen |-> g + 1, owner |-> host.owner, rev |-> NONE,
                      deleting |-> FALSE]
    BY <1>0, <1>3, StartRows
  <2>2. job'[i].gen = g + 1
    BY <2>1
  <2> QED
    BY <1>3, <2>1, <2>2
<1>7. ASSUME NEW j \in Jobs, Active(j)' PROVE j = i
  BY <1>6, <1>7 DEF OthersRest, Untouched, Active
<1>8. HostTypeOK'
  BY <1>0, <1>2, <1>4 DEF HostTypeOK
<1>9. HostOK'
  BY <1>0, <1>2, <1>6 DEF HostOK
<1>10. NoForgottenRun'
  BY <1>4, <1>5, <1>6, <1>7 DEF NoForgottenRun
<1>11. SlotOK'
  BY <1>0, <1>1, <1>2, <1>4, <1>5 DEF SlotOK, Quiet
<1> QED
  BY <1>8, <1>9, <1>10, <1>11 DEF HostInv

LEMMA RequestHost ==
    ASSUME RunInv, Request
    PROVE  HostInv'
<1>0. /\ HostTypeOK /\ HostOK /\ SlotOK /\ NoForgottenRun /\ RunTypeOK /\ GatedIsIdle
      /\ host.initialized /\ \A j \in Jobs : JobOK(j)
      /\ slot # NONE => slot \in ActiveSlot
  BY HostFacts DEF Request, Serving
<1>1. /\ UNCHANGED <<supervisor, page, host, slot, proc, lease>>
      /\ \A j \in Jobs :
           /\ Kept(j)
           /\ job'[j] = job[j] \/ <<job[j].state, job'[j].state>> \in RequestMoves
  <2>1. \E j \in Jobs : TRUE
    BY DEF Request
  <2> QED
    BY <1>0, <2>1, RequestRows
<1>2. HostTypeOK'
  BY <1>0, <1>1 DEF HostTypeOK
<1>3. HostOK'
  BY <1>0, <1>1 DEF HostOK
<1>4. NoForgottenRun'
  BY <1>0, <1>1, ActiveKept DEF NoForgottenRun, Serving
<1>5. SlotIn("stopping") =>
        /\ ~job'[slot.job].deleting
        /\ job'[slot.job].state \in SettledStates
        /\ Active(slot.job)' \/ \A k \in Pages : page'[slot.job][k].state # "processing"
  <2>1. SUFFICES ASSUME SlotIn("stopping")
        PROVE  /\ ~job'[slot.job].deleting
               /\ job'[slot.job].state \in SettledStates
               /\ Active(slot.job)' \/ \A k \in Pages : page'[slot.job][k].state # "processing"
    OBVIOUS
  <2> DEFINE i == slot.job
  <2>2. i \in Jobs
    BY <1>0, <2>1 DEF SlotIn, ActiveSlot
  <2>3. /\ ~job[i].deleting
        /\ job[i].state \in SettledStates
        /\ Active(i) \/ \A k \in Pages : page[i][k].state # "processing"
    BY <1>0, <2>1 DEF SlotOK
  <2>4. slot' = slot
    BY <1>1
  <2>5. Active(i)' = (job'[i].state \in ActiveStates)
    BY <2>4 DEF Active
  <2>6. /\ Kept(i) /\ JobOK(i)
        /\ job'[i] = job[i] \/ <<job[i].state, job'[i].state>> \in RequestMoves
    BY <1>0, <1>1, <2>2
  <2> HIDE DEF i
  <2>7. ~job'[i].deleting
    BY <2>3, <2>6 DEF Kept
  <2>8. job'[i].state \in SettledStates
    BY <2>3, <2>6 DEF SettledStates, RequestMoves, PauseMoves, CancelMoves, ArchiveMoves, Stays
  <2>9. ASSUME Active(i), job'[i].state \notin ActiveStates
        PROVE  job[i].state = "validating"
    BY <2>6, <2>9 DEF Active, RequestMoves, PauseMoves, CancelMoves, ArchiveMoves, Stays
  <2>10. (job'[i].state \in ActiveStates) \/ \A k \in Pages : page'[i][k].state # "processing"
    BY <1>1, <2>3, <2>6, <2>9 DEF JobOK
  <2> QED
    BY <2>5, <2>7, <2>8, <2>10 DEF i
<1>6. SlotOK'
  <2>1. SlotIn("stopping")' <=> SlotIn("stopping")
    BY <1>1 DEF SlotIn
  <2>2. slot' = slot /\ host' = host /\ proc' = proc /\ lease' = lease
    BY <1>1
  <2>3. Quiet(host.owner)' <=> Quiet(host.owner)
    BY <2>2 DEF Quiet
  <2> QED
    BY <1>0, <1>5, <2>1, <2>2, <2>3 DEF SlotOK
<1> QED
  BY <1>2, <1>3, <1>4, <1>6 DEF HostInv

LEMMA CleanupHost ==
    ASSUME RunInv, Cleanup
    PROVE  HostInv'
<1>0. /\ HostTypeOK /\ HostOK /\ SlotOK /\ NoForgottenRun /\ RunTypeOK /\ host.initialized
      /\ \A j \in Jobs : job[j] \in JobRow
  BY HostFacts DEF Cleanup, Serving
<1>1. /\ slot = NONE /\ lease = NONE
      /\ UNCHANGED <<supervisor, host, slot, proc, lease>>
  BY <1>0, CleanupRows
<1>2. ASSUME NEW j \in Jobs PROVE ~Active(j)'
  <2>1. ~Active(j)
    BY <1>0, <1>1, <1>2 DEF NoForgottenRun, Serving
  <2>2. \/ Untouched(j)
        \/ job'[j] = [job[j] EXCEPT !.deleting = TRUE]
        \/ job'[j] = [NoJob EXCEPT !.state = "deleted"]
    BY <1>0, CleanupRows
  <2>3. job'[j].state \in {job[j].state, "deleted"}
    BY <1>0, <2>2 DEF Untouched, NoJob, JobRow
  <2> QED
    BY <2>1, <2>3 DEF Active
<1>3. HostTypeOK'
  BY <1>0, <1>1 DEF HostTypeOK
<1>4. HostOK' /\ NoForgottenRun'
  BY <1>0, <1>1, <1>2 DEF HostOK, NoForgottenRun
<1>5. SlotOK'
  BY <1>0, <1>1 DEF SlotOK, SlotIn, Quiet
<1> QED
  BY <1>3, <1>4, <1>5 DEF HostInv

LEMMA HostInvStep ==
    ASSUME RunInv, RunNext
    PROVE  HostInv'
<1>1. ASSUME NEW o \in Owners, ProcessStep(o) \/ Die(o) PROVE HostInv'
  BY <1>1, ProcessHost
<1>2. ASSUME HostOnly PROVE HostInv'
  BY <1>2, OpenHost, ReserveHost, SlotHost, SettleReadHost DEF HostOnly
<1> QED
  BY <1>1, <1>2, HostKinds, TakeoverHost, StartHost, SettleStopHost, RequestHost, CleanupHost
     DEF RunNext(***************************************************************************)
(* The invariant holds initially and in every step.                        *)
(***************************************************************************)
LEMMA RunInvInit == RunInit => RunInv
<1> SUFFICES ASSUME RunInit PROVE RunInv
  OBVIOUS
<1>0. /\ Init /\ host = [owner |-> NONE, initialized |-> FALSE] /\ slot = NONE /\ lease = NONE
      /\ proc = [o \in Owners |-> NoProc]
  BY DEF RunInit, NoHost
<1>1. TypeOK /\ Safety
  BY <1>0, TypeInit, SafetyInit
<1>2. NoProc \in Proc /\ NoProc.stage = "none" /\ NoProc.seen = NONE
  BY DEF NoProc, Proc, Stages
<1>3. proc \in [Owners -> Proc] /\ \A o \in Owners : proc[o].stage = "none" /\ proc[o].seen = NONE
  BY <1>0, <1>2
<1>4. RunTypeOK
  BY <1>0, <1>1, <1>3 DEF RunTypeOK, OptionalOwner
<1>5. ASSUME NEW o \in Owners PROVE ProcessOK(o)
  <2>1. /\ "none" \notin SourceStages /\ "none" \notin PageStages
        /\ "none" \notin LeasedStages /\ "none" \notin OwningStages
    BY DEF SourceStages, PageStages, LeasedStages, CheckedStages, EndStages, OwningStages
  <2> QED
    BY <1>0, <1>3, <2>1, NoneAssumption DEF ProcessOK, Working
<1>6. ASSUME NEW j \in Jobs PROVE JobOK(j)
  <2>1. /\ job[j].state = "absent" /\ job[j].gen = 0 /\ job[j].owner = NONE
        /\ \A s \in Sources : source[j][s].sha = NONE
    BY <1>0 DEF Init, NoJob, NewSource
  <2> QED
    BY <2>1, BoundsAssumption DEF JobOK, Gens
<1>7. HostOK /\ NoForgottenRun
  BY <1>0 DEF HostOK, NoForgottenRun, Serving
<1>8. SlotOK
  BY <1>0, HostAssumption DEF SlotOK, SlotIn
<1> QED
  BY <1>1, <1>4, <1>5, <1>6, <1>7, <1>8 DEF RunInv

LEMMA StutterInv == RunInv /\ UNCHANGED vars => RunInv'
<1> SUFFICES ASSUME RunInv, UNCHANGED vars PROVE RunInv'
  OBVIOUS
<1>0. UNCHANGED storeVars /\ UNCHANGED <<host, slot, proc, lease>>
  BY DEF vars
<1>1. /\ TypeOK /\ SingleActiveJob /\ ActiveIsOwned /\ SettledIffResult /\ ClaimIsCurrent
      /\ PagesMatchDocument /\ PublishedIsComplete /\ VerificationIsCurrent /\ GatedIsIdle
  BY DEF RunInv, RunTypeOK, Safety
<1>2. TypeOK' /\ Safety'
  BY <1>0, <1>1, TypeStep, SingleActiveStep, ActiveOwnedStep, SettledStep, ClaimStep,
     PagesMatchStep, PublishedStep, VerificationStep, GatedIdleStep DEF Safety
<1>3. RunTypeOK'
  BY <1>0, <1>2 DEF RunInv, RunTypeOK
<1>4. ASSUME NEW o \in Owners PROVE ProcessOK(o)'
  BY <1>0, ProcessStays DEF RunInv
<1>5. ASSUME NEW j \in Jobs PROVE JobOK(j)'
  BY <1>0 DEF RunInv, JobOK, Exists, storeVars
<1>6. HostOK' /\ NoForgottenRun'
  BY <1>0 DEF RunInv, HostOK, NoForgottenRun, Active, Serving, storeVars
<1>7. SlotOK'
  BY <1>0 DEF RunInv, SlotOK, SlotIn, Quiet, Active, storeVars
<1> QED
  BY <1>2, <1>3, <1>4, <1>5, <1>6, <1>7 DEF RunInv

LEMMA RunInvStep == RunInv /\ [RunNext]_vars => RunInv'
<1> SUFFICES ASSUME RunInv, RunNext PROVE RunInv'
  BY StutterInv
<1>1. [Next]_storeVars
  BY RunIsStore
<1>2. /\ TypeOK /\ SingleActiveJob /\ ActiveIsOwned /\ SettledIffResult /\ ClaimIsCurrent
      /\ PagesMatchDocument /\ PublishedIsComplete /\ VerificationIsCurrent /\ GatedIsIdle
  BY DEF RunInv, RunTypeOK, Safety
<1>3. TypeOK' /\ Safety'
  BY <1>1, <1>2, TypeStep, SingleActiveStep, ActiveOwnedStep, SettledStep, ClaimStep,
     PagesMatchStep, PublishedStep, VerificationStep, GatedIdleStep DEF Safety
<1>4. HostInv'
  BY HostInvStep
<1>5. RunTypeOK' /\ HostOK' /\ SlotOK' /\ NoForgottenRun'
  BY <1>3, <1>4 DEF HostInv, HostTypeOK, RunTypeOK
<1>6. ASSUME NEW j \in Jobs PROVE JobOK(j)'
  BY JobStep
<1>7. ASSUME NEW q \in Owners PROVE ProcessOK(q)'
  <2>1. ASSUME NEW o \in Owners, ProcessStep(o) \/ Die(o) PROVE ProcessOK(q)'
    BY <2>1, SameProcess, OtherProcess
  <2>2. ASSUME HostNext PROVE ProcessOK(q)'
    BY <2>2, HostProcess
  <2> QED
    BY <2>1, <2>2 DEF RunNext
<1> QED
  BY <1>3, <1>5, <1>6, <1>7 DEF RunInv

(***************************************************************************)
(* What holds in every run.                                                *)
(***************************************************************************)
\* The inductive invariant of the whole application.
THEOREM RunIsInductive == RunSpec => []RunInv
  BY RunInvInit, RunInvStep, PTL DEF RunSpec

\* Whatever the application, its worker processes and its user do, the database
\* sees only its own transactions (BatchService and BatchProcessor reach it
\* through BatchStore alone), so all that holds of the database holds here.
THEOREM RunImplementsStore == RunSpec => Spec
<1>1. RunInit => Init
  BY DEF RunInit
<1> QED
  BY <1>1, RunIsStore, RunIsInductive, PTL DEF RunSpec, Spec

\* In particular: one job executes, pages, results and documents agree, a
\* publication is complete, the history of commands keeps its limit, and a
\* source is charged for what was done on it.
THEOREM RunKeepsTables == RunSpec => []Safety /\ []CancelSlotKept /\ []BudgetMatchesWork
  BY RunImplementsStore, SafetyCorrect, CancelSlotIsKept, BudgetIsKept, PTL

\* And no step of a run loses a checkpoint, undoes a cancellation or changes
\* what is published.
THEOREM RunKeepsHistory ==
    RunSpec => CheckpointKept /\ PublishedIsFrozen /\ StopsAreFinal
  BY RunImplementsStore, CheckpointsAreKept, PublicationIsFrozen, StopsStayFinal, PTL

\* A worker owns its run and the page it computes until it has stopped, and
\* the lease names the one process that may write (worker_lease,
\* BatchProcessor._checkpoint), whatever takeovers and restarts happen.
THEOREM WorkersOwn == RunSpec => []WorkersOwnTheirRun
<1>1. RunInv => WorkersOwnTheirRun
  <2> SUFFICES ASSUME RunInv PROVE WorkersOwnTheirRun
    OBVIOUS
  <2>1. RunTypeOK /\ \A o \in Owners : ProcessOK(o)
    BY DEF RunInv
  <2>2. WorkingMeansOwning
    <3>1. ASSUME NEW o \in Owners
          PROVE  /\ proc[o].stage \in LeasedStages \ ({"begin", "recheck"} \cup EndStages) =>
                      Owns(proc[o].job, proc[o].gen, o)
                 /\ proc[o].stage \in PageStages =>
                      HoldsClaim(proc[o].job, proc[o].gen, o, proc[o].page, proc[o].attempt)
      BY <2>1 DEF ProcessOK, Working, OwningStages
    <3> QED
      BY <3>1 DEF WorkingMeansOwning
  <2>3. LeaseIsExact
    BY <2>1 DEF LeaseIsExact, ProcessOK
  <2> QED
    BY <2>1, <2>2, <2>3 DEF WorkersOwnTheirRun
<1> QED
  BY <1>1, RunIsInductive, PTL

\* While the application serves requests, its slot holds the very run that is
\* active, and a free slot means that no process of it can still write
\* (BatchService.active, settle).
THEOREM SlotsAreTrue == RunSpec => []SlotIsTrue
<1>1. RunInv => SlotIsTrue
  <2> SUFFICES ASSUME RunInv PROVE SlotIsTrue
    OBVIOUS
  <2>1. NoForgottenRun /\ HostOK /\ SlotOK
    BY DEF RunInv
  <2>2. FreeSlotIsQuiet
    BY <2>1 DEF FreeSlotIsQuiet, HostOK, SlotOK, Quiet, Serving
  <2> QED
    BY <2>1, <2>2 DEF SlotIsTrue
<1> QED
  BY <1>1, RunIsInductive, PTL(***************************************************************************)
(* What no step of a run does.                                             *)
(***************************************************************************)
\* Behind a closed gate nothing changes but by the removal.
LEMMA GatedStep ==
    ASSUME RunInv, RunNext, NEW j \in Jobs, job[j].deleting, Exists(j)'
    PROVE  /\ job'[j] = job[j] /\ source'[j] = source[j]
           /\ page'[j] = page[j] /\ result'[j] = result[j]
<1>0. /\ RunTypeOK /\ GatedIsIdle /\ ActiveIsOwned /\ ~Active(j) /\ SlotOK
      /\ \A o \in Owners : ProcessOK(o)
      /\ slot # NONE => slot \in ActiveSlot
  BY HostFacts DEF GatedIsIdle
<1>u. Untouched(j) => /\ job'[j] = job[j] /\ source'[j] = source[j]
                      /\ page'[j] = page[j] /\ result'[j] = result[j]
  BY DEF Untouched
<1>1. CASE UNCHANGED storeVars
  BY <1>1 DEF storeVars
<1>2. ASSUME NEW o \in Owners, Writes(o) PROVE Untouched(j)
  <2>1. \A i \in Jobs \ {proc[o].job} : Untouched(i)
    BY <1>0, <1>2, WriteRows
  <2>2. j # proc[o].job
    <3>1. Working(o) => ~job[proc[o].job].deleting
      BY <1>0 DEF ProcessOK
    <3>2. Working(o) \/ job[proc[o].job].state = "pause_requested"
      BY <1>2 DEF Writes
    <3> QED
      BY <1>0, <3>1, <3>2 DEF Active
  <2> QED
    BY <2>1, <2>2
<1>3. CASE Initialize
  BY <1>0, <1>3, HostCalls, TakeoverRows
<1>4. CASE StartCommits
  <2> DEFINE i == slot.job
             g == slot.gen - 1
  <2>1. i \in Jobs /\ g \in Gens /\ host.owner \in Owners /\ StartJob(i, g, host.owner)
    BY <1>4, HostCalls
  <2> HIDE DEF i, g
  <2>2. Startable(i) /\ \A m \in Jobs \ {i} : Untouched(m)
    BY <1>0, <2>1, StartRows
  <2> QED
    BY <1>u, <2>2 DEF Startable
<1>5. CASE SettleStop
  <2> DEFINE i == slot.job
  <2>1. i \in Jobs /\ host.owner \in Owners /\ FinishStop(i, slot.gen, host.owner, slot.cancelled)
    BY <1>5, HostCalls
  <2>2. ~job[i].deleting
    BY <1>0, <1>5 DEF SettleStop, SlotOK
  <2> HIDE DEF i
  <2>3. \A m \in Jobs \ {i} : Untouched(m)
    BY <1>0, <2>1, StopRows
  <2> QED
    BY <1>u, <2>2, <2>3
<1>6. CASE Request
  BY <1>0, <1>6, RequestRows
<1>7. CASE Cleanup
  <2>1. PICK i \in Jobs :
          /\ \A m \in Jobs \ {i} : Untouched(m)
          /\ \/ ~job[i].deleting
             \/ job'[i] = [NoJob EXCEPT !.state = "deleted"]
    BY <1>0, <1>7, CleanupRows
  <2>2. j # i
    <3>1. CASE ~job[i].deleting
      BY <3>1
    <3>2. CASE job'[i] = [NoJob EXCEPT !.state = "deleted"]
      <4>1. job'[i].state = "deleted"
        BY <3>2 DEF NoJob
      <4> QED
        BY <4>1 DEF Exists
    <3> QED
      BY <2>1, <3>1, <3>2
  <2> QED
    BY <1>u, <2>1, <2>2
<1> QED
  BY <1>1, <1>2, <1>3, <1>4, <1>5, <1>6, <1>7, <1>u, StepKinds

\* At rest no page, result or snapshot changes until the next start.
RestStates == {"paused", "partial_failed", "blocked", "cancelled", "interrupted"}

Rested(j) ==
    /\ \A k \in Pages : page[j][k].state # "absent" => page'[j][k] = page[j][k]
    /\ result'[j] = result[j]
    /\ snapshot'[j] = snapshot[j]

LEMMA RestStep ==
    ASSUME RunInv, RunNext, NEW j \in Jobs, job[j].state \in RestStates, job'[j].gen = job[j].gen
    PROVE  Rested(j)
<1>0. /\ RunTypeOK /\ GatedIsIdle /\ ActiveIsOwned /\ ~Active(j) /\ SlotOK /\ JobOK(j)
      /\ \A o \in Owners : ProcessOK(o)
      /\ SettledIffResult /\ PagesMatchDocument /\ PublishedIsComplete
      /\ result[j] \in [Pages -> OptionalDigest]
  <2>1. ~Active(j)
    BY DEF Active, RestStates
  <2>2. TypeOK
    BY HostFacts
  <2>3. SettledIffResult /\ PagesMatchDocument /\ PublishedIsComplete
    BY DEF RunInv, Safety
  <2> QED
    BY <2>1, <2>2, <2>3, HostFacts DEF TypeOK
<1>u. Untouched(j) => Rested(j)
  BY DEF Untouched, Rested
<1>1. CASE UNCHANGED storeVars
  BY <1>1 DEF storeVars, Rested
<1>2. ASSUME NEW o \in Owners, Writes(o) PROVE Rested(j)
  <2>1. Untouched(j) \/ Written(j)
    BY <1>0, <1>2, WriteRows
  <2>2. job[j].state \notin ClaimStates \cup {"running", "finalizing"}
    BY DEF RestStates, ClaimStates
  <2>3. Written(j) => Rested(j)
    BY <2>2 DEF Written, Rested
  <2> QED
    BY <1>u, <2>1, <2>3
<1>3. CASE Initialize
  <2>1. /\ UNCHANGED <<source, result, snapshot>> /\ page'[j] = page[j]
    BY <1>0, <1>3, HostCalls, TakeoverRows
  <2> QED
    BY <2>1 DEF Rested
<1>4. CASE StartCommits
  <2> DEFINE i == slot.job
             g == slot.gen - 1
  <2>1. i \in Jobs /\ g \in Gens /\ host.owner \in Owners /\ StartJob(i, g, host.owner)
    BY <1>4, HostCalls
  <2> HIDE DEF i, g
  <2>2. /\ \A m \in Jobs \ {i} : Untouched(m)
        /\ job[i].gen = g
        /\ job'[i] = [state |-> "validating", gen |-> g + 1, owner |-> host.owner, rev |-> NONE,
                      deleting |-> FALSE]
    BY <1>0, <2>1, StartRows
  <2>3. job'[i].gen = g + 1 /\ g + 1 # g
    BY <2>1, <2>2, BoundsAssumption DEF Gens
  <2> QED
    BY <1>u, <2>2, <2>3
<1>5. CASE SettleStop
  <2> DEFINE i == slot.job
  <2>1. i \in Jobs /\ host.owner \in Owners /\ FinishStop(i, slot.gen, host.owner, slot.cancelled)
    BY <1>5, HostCalls
  <2>2. Active(i) \/ \A k \in Pages : page[i][k].state # "processing"
    BY <1>0, <1>5 DEF SettleStop, SlotOK
  <2> HIDE DEF i
  <2>3. /\ UNCHANGED <<supervisor, source, result, snapshot>>
        /\ (\A k \in Pages : page[i][k].state # "processing") => page'[i] = page[i]
        /\ \A m \in Jobs \ {i} : Untouched(m)
    BY <1>0, <2>1, StopRows
  <2> QED
    BY <1>0, <1>u, <2>2, <2>3 DEF Rested
<1>6. CASE Request
  <2>1. UNCHANGED <<page, result, snapshot>>
    BY <1>0, <1>6, RequestRows
  <2> QED
    BY <2>1 DEF Rested
<1>7. CASE Cleanup
  <2>1. PICK i \in Jobs :
          /\ \A m \in Jobs \ {i} : Untouched(m)
          /\ \/ UNCHANGED <<source, page, result, snapshot>>
             \/ /\ job'[i] = [NoJob EXCEPT !.state = "deleted"]
                /\ snapshot'[i] = NONE /\ result'[i] = [k \in Pages |-> NONE]
    BY <1>0, <1>7, CleanupRows
  <2>2. CASE /\ j = i /\ job'[i] = [NoJob EXCEPT !.state = "deleted"]
             /\ snapshot'[i] = NONE /\ result'[i] = [k \in Pages |-> NONE]
    <3>1. job[j].gen = 0
      BY <2>2 DEF NoJob
    <3>2. ASSUME NEW k \in Pages PROVE page[j][k].state = "absent" /\ result[j][k] = NONE
      <4>1. source[j][k[1]].sha = NONE
        BY <1>0, <3>1 DEF JobOK, Pages
      <4>2. page[j][k].state = "absent"
        BY <1>0, <4>1 DEF PagesMatchDocument
      <4> QED
        BY <1>0, <4>2 DEF SettledIffResult
    <3>3. snapshot[j] = NONE
      BY <1>0 DEF PublishedIsComplete, RestStates
    <3>4. result'[j] = result[j]
      BY <1>0, <2>2, <3>2
    <3> QED
      BY <2>2, <3>2, <3>3, <3>4 DEF Rested
  <2>3. CASE UNCHANGED <<source, page, result, snapshot>>
    BY <2>3 DEF Rested
  <2> QED
    BY <1>u, <2>1, <2>2, <2>3
<1> QED
  BY <1>1, <1>2, <1>3, <1>4, <1>5, <1>6, <1>7, <1>u, StepKinds

\* A settlement stops an active run, and a cancelled one as cancelled.
LEMMA SettlementStep ==
    ASSUME RunInv, RunNext, SlotIn("stopping"), job'[slot.job] # job[slot.job]
    PROVE  /\ job[slot.job].state \notin {"cancelled", "ready_for_review", "archived"}
           /\ job[slot.job].state = "cancel_requested" => job'[slot.job].state = "cancelled"
<1> DEFINE i == slot.job
<1>0. /\ RunTypeOK /\ GatedIsIdle /\ SlotOK /\ HostOK /\ i \in Jobs
      /\ host.initialized /\ slot # NONE /\ slot.stage = "stopping"
      /\ \A o \in Owners : ProcessOK(o)
  BY HostFacts DEF SlotIn, ActiveSlot
<1>1. lease = "host" /\ job[i].state \in SettledStates
  BY <1>0 DEF SlotOK
<1>2. ASSUME NEW o \in Owners, Writes(o) PROVE FALSE
  <2>1. lease = o
    BY <1>0, <1>2 DEF Writes, ProcessOK
  <2> QED
    BY <1>1, <2>1, HostAssumption
<1>3. ~(Initialize \/ StartCommits \/ Cleanup) /\ ~UNCHANGED storeVars
  BY <1>0 DEF Initialize, StartCommits, Cleanup, SlotIn, storeVars
<1>4. CASE SettleStop
  <2>1. host.owner \in Owners /\ FinishStop(i, slot.gen, host.owner, slot.cancelled)
    BY <1>4, HostCalls
  <2>2. /\ job[i].state \in ExecutionStates
        /\ job[i].state = "cancel_requested" => job'[i].state = "cancelled"
    BY <1>0, <2>1, StopRows
  <2> QED
    BY <2>2
<1>5. CASE Request
  <2>1. /\ <<job[i].state, job'[i].state>> \in RequestMoves
        /\ job'[i].state # job[i].state
    BY <1>0, <1>5, RequestRows
  <2> HIDE DEF i
  <2>2. /\ job[i].state \notin {"cancelled", "ready_for_review", "archived"}
        /\ job[i].state # "cancel_requested"
    BY <1>1, <2>1 DEF RequestMoves, PauseMoves, CancelMoves, ArchiveMoves, Stays, SettledStates
  <2> QED
    BY <2>2 DEF i
<1> QED
  BY <1>2, <1>3, <1>4, <1>5, StepKinds

\* A job nobody works on stays as it is: behind a closed cleanup gate nothing
\* changes until the removal, and at rest no page, result or snapshot does until
\* the job is started again, although its process may be alive (batch_store.py,
\* start_job, delete_job; batch_processor.py, _checkpoint).
THEOREM RestIsFrozen == RunSpec => FrozenAtRest
<1> DEFINE Gated == \A j \in Jobs : job[j].deleting /\ Exists(j)' =>
             /\ job'[j] = job[j]
             /\ source'[j] = source[j]
             /\ page'[j] = page[j]
             /\ result'[j] = result[j]
           Resting == \A j \in Jobs :
             /\ job[j].state \in {"paused", "partial_failed", "blocked", "cancelled", "interrupted"}
             /\ job'[j].gen = job[j].gen
             => /\ \A k \in Pages : page[j][k].state # "absent" => page'[j][k] = page[j][k]
                /\ result'[j] = result[j]
                /\ snapshot'[j] = snapshot[j]
<1>1. RunInv /\ [RunNext]_vars => [Gated]_vars
  BY GatedStep
<1>2. RunInv /\ [RunNext]_vars => [Resting]_vars
  BY RestStep DEF Rested, RestStates
<1> QED
  BY <1>1, <1>2, RunIsInductive, PTL DEF RunSpec, FrozenAtRest, GatedIsFrozen, RestIsQuiet

\* A settlement, which decides on a state it read one call earlier, never turns
\* a cancelled or published run into an interrupted one, and never drops the
\* user's cancellation (batch_service.rs, settle; batch_store.py, finish_stop).
THEOREM WinnerIsRespected == RunSpec => SettlementRespectsWinner
<1> DEFINE Respected == SlotIn("stopping") /\ job'[slot.job] # job[slot.job] =>
             /\ job[slot.job].state \notin {"cancelled", "ready_for_review", "archived"}
             /\ job[slot.job].state = "cancel_requested" => job'[slot.job].state = "cancelled"
<1>1. RunInv /\ [RunNext]_vars => [Respected]_vars
  BY SettlementStep
<1> QED
  BY <1>1, RunIsInductive, PTL DEF RunSpec, SettlementRespectsWinner
=============================================================================
