---------------------------- MODULE WindowProofs ----------------------------
(***************************************************************************)
(* What the windows of the application show and save, for any jobs,        *)
(* segments, decisions and bounds: proofs about BatchControl and           *)
(* ReviewSession.                                                          *)
(***************************************************************************)
EXTENDS BatchControl, ReviewSession, FiniteSetTheorems, TLAPS

-----------------------------------------------------------------------------
(***************************************************************************)
(* BatchControl: the shown jobs.                                           *)
(***************************************************************************)

\* A version of a job, perhaps none.
JobVersion == [time : Nat, gen : Nat, active : BOOLEAN, order : Nat]
MaybeVersion == JobVersion \cup {Nil}
Versions == [Jobs -> MaybeVersion]

Controller ==
    [jobs : Versions, current : {Nil} \cup [id : Jobs, v : JobVersion], busy : BOOLEAN,
     refreshing : BOOLEAN, epoch : Nat, listEpoch : Nat, known : Versions, forgotten : SUBSET Jobs]

RequestKinds == {"select", "create", "resume", "relocate", "control", "refresh", "list"}
RequestSteps == {"snapshot", "create", "start", "relocate", "control", "list"}

JobRequest ==
    [kind : RequestKinds \ {"list"}, token : Nat, job : Jobs, step : RequestSteps \ {"list"},
     state : {"asked", "ok", "error"}, got : MaybeVersion]
ListRequest ==
    [kind : {"list"}, token : Nat, job : {Nil}, step : {"list"}, state : {"asked", "error"}, got : {Nil}]
      \cup [kind : {"list"}, token : Nat, job : {Nil}, step : {"list"}, state : {"ok"}, got : Versions]

\* The state of the module.
ControlTypes ==
    /\ host \in Versions
    /\ deleted \in SUBSET Jobs
    /\ window \in Controller
    /\ flight \in SUBSET (JobRequest \cup ListRequest)
    /\ used \in [changes : Nat, errors : Nat]

\* What the host has made of a job only grows, and a deleted job is gone.
HostOK == \A j \in deleted : host[j] = Nil

\* What is known of a job is a version that the host had.
Behind(j, v) ==
    /\ host[j] # Nil \/ j \in deleted
    /\ host[j] # Nil => v.order <= host[j].order

\* The requests of the present epoch: at most one, about whose flag the window knows.
OfEpoch(q) == q.kind # "list" /\ q.token = window.epoch
EpochOK ==
    /\ \A q \in flight : q.kind # "list" => q.token <= window.epoch
    /\ \A q, r \in flight : OfEpoch(q) /\ OfEpoch(r) => q = r
    /\ window.busy <=> (\E q \in flight : q.kind \notin {"list", "refresh"} /\ q.token = window.epoch)
    /\ window.refreshing <=> (\E q \in flight : q.kind = "refresh" /\ q.token = window.epoch)
    /\ window.forgotten \subseteq deleted
    /\ window.epoch <= MaxOps + Cardinality(window.forgotten)

\* An answer brings a version of the host; an answer that counts brings none
\* before the one that is shown.
AnswerOK(q) ==
    q.kind # "list" =>
        /\ q.state = "ok" => q.got \in JobVersion /\ Behind(q.job, q.got)
        /\ q.state = "ok" /\ q.token = window.epoch /\ window.current # Nil /\ window.current.id = q.job
             => window.current.v.order <= q.got.order
        /\ q.step = "create" /\ q.state = "asked" => host[q.job] = Nil /\ q.job \notin deleted

\* The host gives each identifier to one job.
CreatesOnce ==
    \A q, r \in flight :
        /\ q.kind # "list" /\ q.step = "create" /\ q.state = "asked"
        /\ r.kind # "list" /\ r.step = "create" /\ r.state = "asked"
        /\ q.job = r.job
        => q = r

\* The shown job is behind the host, and what was published is what is listed.
ViewOK ==
    /\ window.current # Nil => Behind(window.current.id, window.current.v)
    /\ \A j \in Jobs : window.known[j] # Nil => window.jobs[j] = window.known[j]

ControlInv ==
    /\ ControlTypes /\ HostOK /\ EpochOK /\ CreatesOnce /\ ViewOK /\ DeletedStaysAway
    /\ \A q \in flight : AnswerOK(q)

-----------------------------------------------------------------------------
(* What no version and no shown job is.                                    *)

LEMMA NilIsNothing ==
    /\ \A v \in JobVersion : v # Nil
    /\ \A c \in [id : Jobs, v : JobVersion] : c # Nil
    /\ Nil \in MaybeVersion
<1>1. DOMAIN Nil = {"none"}  BY DEF Nil
<1>2. \A v \in JobVersion : "time" \in DOMAIN v  BY DEF JobVersion
<1>3. \A c \in [id : Jobs, v : JobVersion] : "id" \in DOMAIN c  OBVIOUS
<1> QED  BY <1>1, <1>2, <1>3 DEF MaybeVersion

(* The steps of the controller.                                            *)

LEMMA BegunIs ==
    ASSUME NEW u \in Controller
    PROVE  /\ Begun(u) \in Controller
           /\ Begun(u).epoch = u.epoch + 1 /\ Begun(u).busy /\ ~Begun(u).refreshing
           /\ Begun(u).jobs = u.jobs /\ Begun(u).known = u.known
           /\ Begun(u).current = u.current /\ Begun(u).forgotten = u.forgotten
           /\ Begun(u).listEpoch = u.listEpoch
<1>1. PICK a : a = [u EXCEPT !.epoch = @ + 1]
  OBVIOUS
<1>2. PICK b : b = [a EXCEPT !.busy = TRUE]
  OBVIOUS
<1>3. PICK c : c = [b EXCEPT !.refreshing = FALSE]
  OBVIOUS
<1>4. /\ a \in Controller
      /\ a.epoch = u.epoch + 1 /\ a.jobs = u.jobs /\ a.current = u.current
      /\ a.busy = u.busy /\ a.refreshing = u.refreshing /\ a.listEpoch = u.listEpoch
      /\ a.known = u.known /\ a.forgotten = u.forgotten
  BY <1>1 DEF Controller
<1>5. /\ b \in Controller
      /\ b.busy /\ b.jobs = a.jobs /\ b.current = a.current
      /\ b.refreshing = a.refreshing /\ b.epoch = a.epoch /\ b.listEpoch = a.listEpoch
      /\ b.known = a.known /\ b.forgotten = a.forgotten
  BY <1>2, <1>4 DEF Controller
<1>6. /\ c \in Controller
      /\ ~c.refreshing /\ c.jobs = b.jobs /\ c.current = b.current
      /\ c.busy = b.busy /\ c.epoch = b.epoch /\ c.listEpoch = b.listEpoch
      /\ c.known = b.known /\ c.forgotten = b.forgotten
  BY <1>3, <1>5 DEF Controller
<1>7. Begun(u) = c
  <2>1. Begun(u) = [[[u EXCEPT !.busy = TRUE] EXCEPT !.epoch = u.epoch + 1] EXCEPT !.refreshing = FALSE]
    BY DEF Begun
  <2> QED
    BY <1>1, <1>2, <1>3, <2>1 DEF Controller
<1> QED
  BY <1>4, <1>5, <1>6, <1>7

\* A snapshot is shown unless its job is gone, and listed with what is known.
LEMMA PublishedIs ==
    ASSUME NEW u \in Controller, NEW j \in Jobs, NEW v \in JobVersion
    PROVE  /\ Published(u, j, v) \in Controller
           /\ Published(u, j, v).epoch = u.epoch /\ Published(u, j, v).listEpoch = u.listEpoch
           /\ Published(u, j, v).busy = u.busy /\ Published(u, j, v).refreshing = u.refreshing
           /\ Published(u, j, v).forgotten = u.forgotten
           /\ j \in u.forgotten => Published(u, j, v) = u
           /\ j \notin u.forgotten => Published(u, j, v).current = [id |-> j, v |-> v]
           /\ \A i \in Jobs :
                \/ /\ Published(u, j, v).jobs[i] = u.jobs[i]
                   /\ Published(u, j, v).known[i] = u.known[i]
                \/ /\ i = j /\ j \notin u.forgotten
                   /\ Published(u, j, v).jobs[i] = v /\ Published(u, j, v).known[i] = v
                   /\ u.known[i] = Nil \/ ~Older(v, u.known[i])
                   /\ u.jobs[i] = Nil \/ ~Older(v, u.jobs[i])
<1>1. CASE j \in u.forgotten
  BY <1>1 DEF Published
<1>2. CASE j \notin u.forgotten
  <2> DEFINE kept == \/ u.known[j] # Nil /\ Older(v, u.known[j])
                     \/ u.jobs[j] # Nil /\ Older(v, u.jobs[j])
             p == [u EXCEPT !.current = [id |-> j, v |-> v],
                       !.jobs[j] = IF kept THEN @ ELSE v, !.known[j] = IF kept THEN @ ELSE v]
  <2>1. Published(u, j, v) = p
    BY <1>2 DEF Published
  <2>2. p \in Controller
    BY DEF Controller, Versions, MaybeVersion
  <2>3. /\ p.epoch = u.epoch /\ p.listEpoch = u.listEpoch /\ p.busy = u.busy
        /\ p.refreshing = u.refreshing /\ p.forgotten = u.forgotten
        /\ p.current = [id |-> j, v |-> v]
    BY DEF Controller
  <2>4. /\ p.jobs = [u.jobs EXCEPT ![j] = IF kept THEN @ ELSE v]
        /\ p.known = [u.known EXCEPT ![j] = IF kept THEN @ ELSE v]
    BY DEF Controller
  <2>5. u.jobs \in Versions /\ u.known \in Versions
    BY DEF Controller
  <2>6. \A i \in Jobs :
          \/ p.jobs[i] = u.jobs[i] /\ p.known[i] = u.known[i]
          \/ i = j /\ ~kept /\ p.jobs[i] = v /\ p.known[i] = v
    <3> HIDE DEF kept
    <3> QED  BY <2>4, <2>5 DEF Versions
  <2> HIDE DEF p
  <2> QED  BY <1>2, <2>1, <2>2, <2>3, <2>6
<1> QED  BY <1>1, <1>2

\* A page of the list keeps what is known and not older.
LEMMA ListedIs ==
    ASSUME NEW u \in Controller, NEW page \in Versions
    PROVE  /\ Listed(u, page) \in Controller
           /\ Listed(u, page).epoch = u.epoch /\ Listed(u, page).listEpoch = u.listEpoch
           /\ Listed(u, page).busy = u.busy /\ Listed(u, page).refreshing = u.refreshing
           /\ Listed(u, page).forgotten = u.forgotten /\ Listed(u, page).current = u.current
           /\ \A j \in Jobs :
                /\ j \in u.forgotten => Listed(u, page).jobs[j] = Nil
                /\ u.known[j] = Nil => Listed(u, page).known[j] = Nil
                /\ u.known[j] # Nil /\ j \notin u.forgotten =>
                     \/ /\ page[j] # Nil /\ Older(u.known[j], page[j])
                        /\ Listed(u, page).jobs[j] = page[j] /\ Listed(u, page).known[j] = page[j]
                     \/ /\ Listed(u, page).jobs[j] = u.jobs[j]
                        /\ Listed(u, page).known[j] = u.known[j]
                /\ u.known[j] # Nil /\ j \in u.forgotten => Listed(u, page).known[j] = u.known[j]
<1> DEFINE news(j) == page[j] # Nil /\ j \notin u.forgotten
                      /\ (u.known[j] = Nil \/ Older(u.known[j], page[j]))
           jobs == [j \in Jobs |-> IF news(j) THEN page[j]
                                   ELSE IF j \in u.forgotten \/ u.known[j] = Nil THEN Nil
                                   ELSE u.jobs[j]]
           known == [j \in Jobs |-> IF news(j) /\ u.known[j] # Nil THEN page[j] ELSE u.known[j]]
<1>1. Listed(u, page) = [u EXCEPT !.jobs = jobs, !.known = known]
  BY DEF Listed
<1>2. u.jobs \in Versions /\ u.known \in Versions
  BY DEF Controller
<1>3. jobs \in Versions /\ known \in Versions
  <2> HIDE DEF news
  <2> QED  BY <1>2, NilIsNothing DEF Versions
<1>4. \A j \in Jobs :
        /\ jobs[j] = IF news(j) THEN page[j]
                     ELSE IF j \in u.forgotten \/ u.known[j] = Nil THEN Nil ELSE u.jobs[j]
        /\ known[j] = IF news(j) /\ u.known[j] # Nil THEN page[j] ELSE u.known[j]
  OBVIOUS
<1> HIDE DEF jobs, known
<1>5. /\ Listed(u, page) \in Controller
      /\ Listed(u, page).jobs = jobs /\ Listed(u, page).known = known
      /\ Listed(u, page).epoch = u.epoch /\ Listed(u, page).listEpoch = u.listEpoch
      /\ Listed(u, page).busy = u.busy /\ Listed(u, page).refreshing = u.refreshing
      /\ Listed(u, page).forgotten = u.forgotten /\ Listed(u, page).current = u.current
  BY <1>1, <1>3 DEF Controller
<1>6. ASSUME NEW j \in Jobs
      PROVE  /\ j \in u.forgotten => jobs[j] = Nil
             /\ u.known[j] = Nil => known[j] = Nil
             /\ u.known[j] # Nil /\ j \notin u.forgotten =>
                  \/ /\ page[j] # Nil /\ Older(u.known[j], page[j])
                     /\ jobs[j] = page[j] /\ known[j] = page[j]
                  \/ jobs[j] = u.jobs[j] /\ known[j] = u.known[j]
             /\ u.known[j] # Nil /\ j \in u.forgotten => known[j] = u.known[j]
  BY <1>4
<1> QED  BY <1>5, <1>6

LEMMA ForgottenIs ==
    ASSUME NEW u \in Controller, NEW j \in Jobs
    PROVE  /\ Forgotten(u, j) \in Controller
           /\ Forgotten(u, j).forgotten = u.forgotten \cup {j}
           /\ Forgotten(u, j).listEpoch = u.listEpoch + 1
           /\ Forgotten(u, j).jobs = [u.jobs EXCEPT ![j] = Nil]
           /\ Forgotten(u, j).known = [u.known EXCEPT ![j] = Nil]
           /\ \/ /\ u.current # Nil /\ u.current.id = j
                 /\ Forgotten(u, j).current = Nil /\ Forgotten(u, j).epoch = u.epoch + 1
                 /\ ~Forgotten(u, j).busy /\ ~Forgotten(u, j).refreshing
              \/ /\ u.current = Nil \/ u.current.id # j
                 /\ Forgotten(u, j).current = u.current /\ Forgotten(u, j).epoch = u.epoch
                 /\ Forgotten(u, j).busy = u.busy /\ Forgotten(u, j).refreshing = u.refreshing
<1>1. u.jobs \in Versions /\ u.known \in Versions
  BY DEF Controller
<1>2. [u.jobs EXCEPT ![j] = Nil] \in Versions /\ [u.known EXCEPT ![j] = Nil] \in Versions
  BY <1>1, NilIsNothing DEF Versions
<1>3. PICK a : a = [u EXCEPT !.forgotten = @ \cup {j}]
  OBVIOUS
<1>4. PICK b : b = [a EXCEPT !.jobs[j] = Nil]
  OBVIOUS
<1>5. PICK c : c = [b EXCEPT !.known[j] = Nil]
  OBVIOUS
<1>6. PICK rest : rest = [c EXCEPT !.listEpoch = @ + 1]
  OBVIOUS
<1>7. /\ a \in Controller
      /\ a.forgotten = u.forgotten \cup {j} /\ a.jobs = u.jobs /\ a.current = u.current
      /\ a.busy = u.busy /\ a.refreshing = u.refreshing /\ a.epoch = u.epoch
      /\ a.listEpoch = u.listEpoch /\ a.known = u.known
  BY <1>3 DEF Controller
<1>8. /\ b \in Controller
      /\ b.jobs = [u.jobs EXCEPT ![j] = Nil] /\ b.current = a.current /\ b.busy = a.busy
      /\ b.refreshing = a.refreshing /\ b.epoch = a.epoch /\ b.listEpoch = a.listEpoch
      /\ b.known = a.known /\ b.forgotten = a.forgotten
  BY <1>2, <1>4, <1>7 DEF Controller
<1>9. /\ c \in Controller
      /\ c.known = [u.known EXCEPT ![j] = Nil] /\ c.jobs = b.jobs /\ c.current = b.current
      /\ c.busy = b.busy /\ c.refreshing = b.refreshing /\ c.epoch = b.epoch
      /\ c.listEpoch = b.listEpoch /\ c.forgotten = b.forgotten
  BY <1>2, <1>5, <1>7, <1>8 DEF Controller
<1>10. /\ rest \in Controller
       /\ rest.listEpoch = c.listEpoch + 1 /\ rest.jobs = c.jobs /\ rest.current = c.current
       /\ rest.busy = c.busy /\ rest.refreshing = c.refreshing /\ rest.epoch = c.epoch
       /\ rest.known = c.known /\ rest.forgotten = c.forgotten
  BY <1>6, <1>9 DEF Controller
<1>11. Forgotten(u, j) = IF u.current # Nil /\ u.current.id = j
                         THEN [rest EXCEPT !.epoch = @ + 1, !.current = Nil, !.busy = FALSE,
                                           !.refreshing = FALSE]
                         ELSE rest
  BY <1>3, <1>4, <1>5, <1>6 DEF Forgotten
<1>12. CASE u.current # Nil /\ u.current.id = j
  <2>1. PICK d : d = [rest EXCEPT !.epoch = @ + 1]
    OBVIOUS
  <2>2. PICK e : e = [d EXCEPT !.current = Nil]
    OBVIOUS
  <2>3. PICK f : f = [e EXCEPT !.busy = FALSE]
    OBVIOUS
  <2>4. PICK g : g = [f EXCEPT !.refreshing = FALSE]
    OBVIOUS
  <2>5. Forgotten(u, j) = g
    BY <1>11, <1>12, <2>1, <2>2, <2>3, <2>4
  <2>6. /\ d \in Controller
        /\ d.epoch = rest.epoch + 1 /\ d.jobs = rest.jobs /\ d.current = rest.current
        /\ d.busy = rest.busy /\ d.refreshing = rest.refreshing /\ d.listEpoch = rest.listEpoch
        /\ d.known = rest.known /\ d.forgotten = rest.forgotten
    BY <1>10, <2>1 DEF Controller
  <2>7. /\ e \in Controller
        /\ e.current = Nil /\ e.jobs = d.jobs /\ e.busy = d.busy
        /\ e.refreshing = d.refreshing /\ e.epoch = d.epoch /\ e.listEpoch = d.listEpoch
        /\ e.known = d.known /\ e.forgotten = d.forgotten
    BY <2>2, <2>6 DEF Controller
  <2>8. /\ f \in Controller
        /\ ~f.busy /\ f.jobs = e.jobs /\ f.current = e.current
        /\ f.refreshing = e.refreshing /\ f.epoch = e.epoch /\ f.listEpoch = e.listEpoch
        /\ f.known = e.known /\ f.forgotten = e.forgotten
    BY <2>3, <2>7 DEF Controller
  <2>9. /\ g \in Controller
        /\ ~g.refreshing /\ g.jobs = f.jobs /\ g.current = f.current
        /\ g.busy = f.busy /\ g.epoch = f.epoch /\ g.listEpoch = f.listEpoch
        /\ g.known = f.known /\ g.forgotten = f.forgotten
    BY <2>4, <2>8 DEF Controller
  <2> QED
    BY <1>7, <1>8, <1>9, <1>10, <1>12, <2>5, <2>6, <2>7, <2>8, <2>9
<1>13. CASE u.current = Nil \/ u.current.id # j
  BY <1>7, <1>8, <1>9, <1>10, <1>11, <1>13, ZenonT(40)
<1> QED
  BY <1>12, <1>13

-----------------------------------------------------------------------------
(* The steps of BatchControl keep its invariant.                           *)

LEMMA RequestIs ==
    ASSUME NEW kind, NEW token, NEW job, NEW step
    PROVE  LET q == Request(kind, token, job, step)
           IN  /\ q.kind = kind /\ q.token = token /\ q.job = job /\ q.step = step
               /\ q.state = "asked" /\ q.got = Nil
               /\ /\ kind \in RequestKinds \ {"list"} /\ token \in Nat /\ job \in Jobs
                  /\ step \in RequestSteps \ {"list"}
                  => q \in JobRequest
               /\ kind = "list" /\ token \in Nat /\ job = Nil /\ step = "list" => q \in ListRequest
BY NilIsNothing DEF Request, JobRequest, ListRequest

\* A request of the window is of a job or of the list.
LEMMA RequestTypes ==
    ASSUME ControlTypes, NEW q \in flight
    PROVE  /\ q.token \in Nat /\ q.kind \in RequestKinds
           /\ q.kind # "list" => q \in JobRequest
           /\ q.kind = "list" => q \in ListRequest
BY DEF ControlTypes, JobRequest, ListRequest, RequestKinds

LEMMA OperationInv ==
    ASSUME ControlInv, NEW kind \in RequestKinds \ {"refresh", "list"}, NEW job \in Jobs,
           NEW step \in RequestSteps \ {"list"}, Operation(kind, job, step),
           step = "create" => host[job] = Nil /\ job \notin deleted /\ \A q \in flight : q.job # job
    PROVE  ControlInv'
<1> DEFINE new == Request(kind, window.epoch + 1, job, step)
<1>0. /\ ControlTypes /\ HostOK /\ EpochOK /\ CreatesOnce /\ ViewOK /\ DeletedStaysAway
      /\ \A q \in flight : AnswerOK(q)
  BY DEF ControlInv
<1>1. /\ ~window.busy /\ window.epoch < MaxOps /\ window' = Begun(window)
      /\ flight' = flight \cup {new}
      /\ UNCHANGED <<host, deleted, used>>
  BY DEF Operation
<1>2. window \in Controller /\ window.epoch \in Nat
  BY <1>0 DEF ControlTypes, Controller
<1>3. /\ window' \in Controller
      /\ window'.epoch = window.epoch + 1 /\ window'.busy /\ ~window'.refreshing
      /\ window'.jobs = window.jobs /\ window'.known = window.known
      /\ window'.current = window.current /\ window'.forgotten = window.forgotten
  BY <1>1, <1>2, BegunIs
<1>4. /\ new.kind = kind /\ new.token = window.epoch + 1 /\ new.job = job /\ new.step = step
      /\ new.state = "asked" /\ new \in JobRequest
  BY <1>2, RequestIs
<1> HIDE DEF new
<1>5. ControlTypes'
  BY <1>0, <1>1, <1>3, <1>4 DEF ControlTypes
<1>6. \A q \in flight : q.kind # "list" => q.token \in Nat /\ q.token <= window.epoch
  BY <1>0, RequestTypes DEF EpochOK
<1>7. EpochOK'
  <2>1. \A q \in flight' : OfEpoch(q)' <=> q = new
    BY <1>1, <1>2, <1>3, <1>4, <1>6 DEF OfEpoch
  <2>2. \A q \in flight' : q.kind # "list" => q.token <= window'.epoch
    BY <1>1, <1>2, <1>3, <1>4, <1>6
  <2>3. \E q \in flight' : q.kind \notin {"list", "refresh"} /\ q.token = window'.epoch
    BY <1>1, <1>3, <1>4
  <2>4. ~\E q \in flight' : q.kind = "refresh" /\ q.token = window'.epoch
    BY <2>1, <1>4 DEF OfEpoch
  <2>5. window'.forgotten \subseteq deleted' /\ Cardinality(window'.forgotten) \in Nat
    <3>1. IsFiniteSet(window'.forgotten)
      BY <1>3, ControlAssumption, FS_Subset DEF Controller
    <3> QED
      BY <1>0, <1>1, <1>3, <3>1, FS_CardinalityType DEF EpochOK
  <2>6. window'.epoch <= MaxOps + Cardinality(window'.forgotten)
    BY <1>1, <1>2, <1>3, <2>5, ControlAssumption
  <2> QED
    BY <1>3, <2>1, <2>2, <2>3, <2>4, <2>5, <2>6 DEF EpochOK
<1>8. CreatesOnce'
  BY <1>0, <1>1, <1>4 DEF CreatesOnce
<1>9. ViewOK' /\ DeletedStaysAway' /\ HostOK'
  BY <1>0, <1>1, <1>3 DEF ViewOK, Behind, DeletedStaysAway, HostOK
<1>10. ASSUME NEW q \in flight' PROVE AnswerOK(q)'
  <2>1. CASE q = new
    BY <1>1, <1>4, <2>1 DEF AnswerOK
  <2>2. CASE q \in flight
    <3>1. AnswerOK(q) /\ (q.kind # "list" => q.token # window'.epoch)
      BY <1>0, <1>2, <1>3, <1>6, <2>2
    <3> QED
      BY <1>1, <3>1 DEF AnswerOK, Behind
  <2> QED
    BY <1>1, <2>1, <2>2
<1> QED
  BY <1>5, <1>7, <1>8, <1>9, <1>10 DEF ControlInv

LEMMA ClearInv ==
    ASSUME ControlInv, ClearSelection
    PROVE  ControlInv'
<1>0. /\ ControlTypes /\ HostOK /\ EpochOK /\ CreatesOnce /\ ViewOK /\ DeletedStaysAway
      /\ \A q \in flight : AnswerOK(q)
  BY DEF ControlInv
<1>1. /\ ~window.busy /\ window.epoch < MaxOps
      /\ window' = [Begun(window) EXCEPT !.current = Nil, !.busy = FALSE]
      /\ UNCHANGED <<host, deleted, flight, used>>
  BY DEF ClearSelection
<1>2. window \in Controller /\ window.epoch \in Nat
  BY <1>0 DEF ControlTypes, Controller
<1>3. PICK u : u = Begun(window)
  OBVIOUS
<1>4. PICK w : w = [u EXCEPT !.current = Nil]
  OBVIOUS
<1>5. /\ u \in Controller
      /\ u.epoch = window.epoch + 1 /\ ~u.refreshing
      /\ u.jobs = window.jobs /\ u.known = window.known /\ u.forgotten = window.forgotten
  BY <1>2, <1>3, BegunIs
<1>6. /\ w \in Controller /\ w.current = Nil
      /\ w.epoch = u.epoch /\ w.refreshing = u.refreshing
      /\ w.jobs = u.jobs /\ w.known = u.known /\ w.forgotten = u.forgotten
  BY <1>4, <1>5 DEF Controller
<1>7. window' = [w EXCEPT !.busy = FALSE]
  BY <1>1, <1>3, <1>4
<1>8. /\ window' \in Controller /\ window'.current = Nil /\ ~window'.busy
      /\ window'.epoch = w.epoch /\ window'.refreshing = w.refreshing
      /\ window'.jobs = w.jobs /\ window'.known = w.known /\ window'.forgotten = w.forgotten
  BY <1>6, <1>7 DEF Controller
<1>9. ControlTypes'
  BY <1>0, <1>1, <1>8 DEF ControlTypes
<1>10. \A q \in flight : q.kind # "list" => q.token \in Nat /\ q.token <= window.epoch
  BY <1>0, RequestTypes DEF EpochOK
<1>11. EpochOK'
  <2>1. window'.epoch = window.epoch + 1 /\ window'.forgotten = window.forgotten
    BY <1>5, <1>6, <1>8
  <2>2. \A q \in flight' : q.kind # "list" => q.token # window'.epoch /\ q.token <= window'.epoch
    BY <1>1, <1>2, <1>10, <2>1
  <2>3. \A q \in flight' : ~OfEpoch(q)' /\ ~(q.kind = "refresh" /\ q.token = window'.epoch)
                         /\ ~(q.kind \notin {"list", "refresh"} /\ q.token = window'.epoch)
    BY <2>2 DEF OfEpoch
  <2>4. Cardinality(window'.forgotten) \in Nat
    BY <1>8, ControlAssumption, FS_Subset, FS_CardinalityType DEF Controller
  <2>5. window'.epoch <= MaxOps + Cardinality(window'.forgotten)
    BY <1>1, <1>2, <2>1, <2>4, ControlAssumption
  <2>6. window'.forgotten \subseteq deleted'
    BY <1>0, <1>1, <2>1 DEF EpochOK
  <2> QED
    BY <1>5, <1>6, <1>8, <2>2, <2>3, <2>5, <2>6 DEF EpochOK
<1>12. CreatesOnce' /\ HostOK'
  BY <1>0, <1>1 DEF CreatesOnce, HostOK
<1>13. ViewOK' /\ DeletedStaysAway'
  BY <1>0, <1>1, <1>5, <1>6, <1>8 DEF ViewOK, Behind, DeletedStaysAway
<1>14. \A q \in flight' : AnswerOK(q)'
  BY <1>0, <1>1, <1>8 DEF AnswerOK, Behind
<1> QED
  BY <1>9, <1>11, <1>12, <1>13, <1>14 DEF ControlInv

LEMMA RefreshInv ==
    ASSUME ControlInv, Refresh
    PROVE  ControlInv'
<1> DEFINE new == Request("refresh", window.epoch, window.current.id, "snapshot")
<1>0. /\ ControlTypes /\ HostOK /\ EpochOK /\ CreatesOnce /\ ViewOK /\ DeletedStaysAway
      /\ \A q \in flight : AnswerOK(q)
  BY DEF ControlInv
<1>1. /\ window.current # Nil /\ ~window.busy /\ ~window.refreshing
      /\ window' = [window EXCEPT !.refreshing = TRUE]
      /\ flight' = flight \cup {new}
      /\ UNCHANGED <<host, deleted, used>>
  BY DEF Refresh
<1>2. window \in Controller /\ window.epoch \in Nat /\ window.current.id \in Jobs
  BY <1>0, <1>1 DEF ControlTypes, Controller
<1>3. /\ window' \in Controller /\ window'.refreshing
      /\ window'.epoch = window.epoch /\ window'.busy = window.busy
      /\ window'.jobs = window.jobs /\ window'.known = window.known
      /\ window'.current = window.current /\ window'.forgotten = window.forgotten
  BY <1>1, <1>2 DEF Controller
<1>4. /\ new.kind = "refresh" /\ new.token = window.epoch /\ new.step = "snapshot"
      /\ new.state = "asked" /\ new \in JobRequest
  BY <1>2, RequestIs DEF RequestKinds, RequestSteps
<1> HIDE DEF new
<1>5. ControlTypes'
  BY <1>0, <1>1, <1>3, <1>4 DEF ControlTypes
<1>6. EpochOK'
  <2>1. \A q \in flight : ~OfEpoch(q)
    BY <1>0, <1>1 DEF EpochOK, OfEpoch
  <2>2. \A q \in flight' : OfEpoch(q)' <=> q = new
    BY <1>1, <1>3, <1>4, <2>1 DEF OfEpoch
  <2>3. \A q \in flight' : q.kind # "list" => q.token <= window'.epoch
    BY <1>0, <1>1, <1>2, <1>3, <1>4 DEF EpochOK
  <2>4. ~\E q \in flight' : q.kind \notin {"list", "refresh"} /\ q.token = window'.epoch
    BY <1>4, <2>2 DEF OfEpoch
  <2>5. \E q \in flight' : q.kind = "refresh" /\ q.token = window'.epoch
    BY <1>1, <1>3, <1>4
  <2>6. /\ window'.forgotten \subseteq deleted'
        /\ window'.epoch <= MaxOps + Cardinality(window'.forgotten)
    BY <1>0, <1>1, <1>3 DEF EpochOK
  <2> QED
    BY <1>1, <1>3, <2>2, <2>3, <2>4, <2>5, <2>6 DEF EpochOK
<1>7. CreatesOnce'
  BY <1>0, <1>1, <1>4 DEF CreatesOnce
<1>8. ViewOK' /\ DeletedStaysAway' /\ HostOK'
  BY <1>0, <1>1, <1>3 DEF ViewOK, Behind, DeletedStaysAway, HostOK
<1>9. \A q \in flight' : AnswerOK(q)'
  BY <1>0, <1>1, <1>3, <1>4 DEF AnswerOK, Behind
<1> QED
  BY <1>5, <1>6, <1>7, <1>8, <1>9 DEF ControlInv

\* The list alone is concerned: no request of a job comes or goes.
LEMMA ListStep ==
    ASSUME ControlInv, ControlTypes', UNCHANGED <<host, deleted>>,
           \A q : q.kind # "list" => (q \in flight <=> q \in flight'),
           window'.epoch = window.epoch, window'.busy = window.busy,
           window'.refreshing = window.refreshing, window'.current = window.current,
           window'.forgotten = window.forgotten,
           \A j \in Jobs : window'.known[j] # Nil => window'.jobs[j] = window'.known[j],
           \A j \in window.forgotten : window'.jobs[j] = Nil
    PROVE  ControlInv'
<1>0. /\ ControlTypes /\ HostOK /\ EpochOK /\ CreatesOnce /\ ViewOK /\ DeletedStaysAway
      /\ \A q \in flight : AnswerOK(q)
  BY DEF ControlInv
<1>1. EpochOK'
  BY <1>0 DEF EpochOK, OfEpoch
<1>2. CreatesOnce' /\ HostOK'
  BY <1>0 DEF CreatesOnce, HostOK
<1>3. ViewOK' /\ DeletedStaysAway'
  BY <1>0 DEF ViewOK, Behind, DeletedStaysAway
<1>4. \A q \in flight' : AnswerOK(q)'
  BY <1>0 DEF AnswerOK, Behind
<1> QED
  BY <1>1, <1>2, <1>3, <1>4 DEF ControlInv

\* A list is asked for by a window that is otherwise as before.
LEMMA WithListIs ==
    ASSUME NEW u \in Controller, NEW others, others \subseteq JobRequest \cup ListRequest,
           WithList(u, others)
    PROVE  /\ window' \in Controller
           /\ window'.epoch = u.epoch /\ window'.busy = u.busy
           /\ window'.refreshing = u.refreshing /\ window'.current = u.current
           /\ window'.jobs = u.jobs /\ window'.known = u.known
           /\ window'.forgotten = u.forgotten
           /\ flight' \in SUBSET (JobRequest \cup ListRequest)
           /\ \A q : q.kind # "list" => (q \in others <=> q \in flight')
<1> DEFINE new == Request("list", u.listEpoch + 1, Nil, "list")
<1>1. /\ window' = [u EXCEPT !.listEpoch = u.listEpoch + 1]
      /\ flight' = {q \in others : q.kind # "list"} \cup {new}
  BY DEF WithList
<1>2. u.listEpoch + 1 \in Nat
  BY DEF Controller
<1>3. new \in ListRequest /\ new.kind = "list"
  BY <1>2, RequestIs
<1> HIDE DEF new
<1>4. /\ window' \in Controller
      /\ window'.epoch = u.epoch /\ window'.busy = u.busy
      /\ window'.refreshing = u.refreshing /\ window'.current = u.current
      /\ window'.jobs = u.jobs /\ window'.known = u.known
      /\ window'.forgotten = u.forgotten
  BY <1>1, <1>2 DEF Controller
<1> QED
  BY <1>1, <1>3, <1>4

LEMMA ListInv ==
    ASSUME ControlInv, List
    PROVE  ControlInv'
<1>0. ControlTypes /\ ViewOK /\ DeletedStaysAway
  BY DEF ControlInv
<1>1. WithList(window, flight) /\ UNCHANGED <<host, deleted, used>>
  BY DEF List
<1>2. window \in Controller /\ flight \subseteq JobRequest \cup ListRequest
  BY <1>0 DEF ControlTypes
<1>3. /\ window' \in Controller
      /\ window'.epoch = window.epoch /\ window'.busy = window.busy
      /\ window'.refreshing = window.refreshing /\ window'.current = window.current
      /\ window'.jobs = window.jobs /\ window'.known = window.known
      /\ window'.forgotten = window.forgotten
      /\ flight' \in SUBSET (JobRequest \cup ListRequest)
      /\ \A q : q.kind # "list" => (q \in flight <=> q \in flight')
  BY <1>1, <1>2, WithListIs
<1>4. ControlTypes'
  BY <1>0, <1>1, <1>3 DEF ControlTypes
<1> QED
  BY <1>0, <1>1, <1>3, <1>4, ListStep DEF ViewOK, DeletedStaysAway

\* The host goes on with one job, or deletes it, while the window waits.
LEMMA HostStep ==
    ASSUME ControlInv, NEW j \in Jobs, NEW v \in MaybeVersion, ControlTypes',
           host' = [host EXCEPT ![j] = v], UNCHANGED <<window, flight>>, host[j] # Nil,
           \/ v # Nil /\ host[j].order <= v.order /\ deleted' = deleted
           \/ v = Nil /\ deleted' = deleted \cup {j}
    PROVE  ControlInv'
<1>0. /\ ControlTypes /\ HostOK /\ EpochOK /\ CreatesOnce /\ ViewOK /\ DeletedStaysAway
      /\ \A q \in flight : AnswerOK(q)
  BY DEF ControlInv
<1>1. host \in Versions /\ j \notin deleted
  BY <1>0 DEF ControlTypes, HostOK
<1>2. host'[j] = v /\ \A i \in Jobs \ {j} : host'[i] = host[i]
  BY <1>1 DEF Versions
<1>3. host[j].order \in Nat /\ (v # Nil => v.order \in Nat)
  BY <1>1 DEF Versions, MaybeVersion, JobVersion
<1>4. ASSUME NEW i \in Jobs, NEW x \in JobVersion, Behind(i, x) PROVE Behind(i, x)'
  <2>1. x.order \in Nat
    BY DEF JobVersion
  <2>2. CASE i = j
    BY <1>2, <1>3, <1>4, <2>1, <2>2 DEF Behind
  <2>3. CASE i # j
    BY <1>2, <1>4, <2>3 DEF Behind
  <2> QED
    BY <2>2, <2>3
<1>5. HostOK'
  BY <1>0, <1>1, <1>2 DEF HostOK, ControlTypes
<1>6. EpochOK' /\ CreatesOnce' /\ DeletedStaysAway'
  BY <1>0 DEF EpochOK, OfEpoch, CreatesOnce, DeletedStaysAway
<1>7. ViewOK'
  <2>1. window.current # Nil => window.current.id \in Jobs /\ window.current.v \in JobVersion
    BY <1>0 DEF ControlTypes, Controller
  <2> QED
    BY <1>0, <1>4, <2>1 DEF ViewOK
<1>8. ASSUME NEW q \in flight PROVE AnswerOK(q)'
  <2>1. CASE q.kind # "list"
    <3>1. q.job \in Jobs
      BY <1>0, <2>1, RequestTypes DEF JobRequest
    <3>2. AnswerOK(q)
      BY <1>0
    <3>3. q.state = "ok" => q.got \in JobVersion /\ Behind(q.job, q.got)'
      BY <1>4, <2>1, <3>1, <3>2 DEF AnswerOK
    <3>4. q.step = "create" /\ q.state = "asked" => q.job # j /\ host'[q.job] = Nil /\ q.job \notin deleted'
      BY <1>2, <2>1, <3>1, <3>2 DEF AnswerOK
    <3> QED
      BY <2>1, <3>2, <3>3, <3>4 DEF AnswerOK
  <2> QED
    BY <2>1 DEF AnswerOK
<1> QED
  BY <1>5, <1>6, <1>7, <1>8 DEF ControlInv

LEMMA ChangedIs ==
    ASSUME NEW v \in JobVersion, NEW gen \in Nat, NEW active \in BOOLEAN, NEW tick \in {0, 1}
    PROVE  /\ Changed(v, gen, active, tick) \in JobVersion
           /\ Changed(v, gen, active, tick) # Nil
           /\ v.order <= Changed(v, gen, active, tick).order
<1>1. v.time + tick \in Nat /\ v.order + 1 \in Nat /\ v.order <= v.order + 1
  BY DEF JobVersion
<1>2. /\ Changed(v, gen, active, tick) \in JobVersion
      /\ Changed(v, gen, active, tick).order = v.order + 1
  BY <1>1 DEF Changed, JobVersion
<1> QED
  BY <1>1, <1>2, NilIsNothing

LEMMA WorkInv ==
    ASSUME ControlInv, NEW j \in Jobs, Work(j) \/ Settle(j) \/ Delete(j)
    PROVE  ControlInv'
<1>0. ControlTypes /\ host \in Versions
  BY DEF ControlInv, ControlTypes
<1>1. /\ host[j] # Nil /\ host[j] \in JobVersion /\ host[j].gen \in Nat
      /\ UNCHANGED <<window, flight>>
  BY <1>0 DEF Work, Settle, Delete, Versions, MaybeVersion, JobVersion
<1>2. used' \in [changes : Nat, errors : Nat]
  <2>1. used \in [changes : Nat, errors : Nat]
    BY <1>0 DEF ControlTypes
  <2>2. Bounded => used' \in [changes : Nat, errors : Nat]
    BY <2>1 DEF Bounded
  <2>3. Bounded \/ used' = used
    BY DEF Work, Settle, Delete
  <2> QED
    BY <2>1, <2>2, <2>3
<1>3. CASE Work(j) \/ Settle(j)
  <2>1. PICK active \in BOOLEAN, t \in {0, 1} :
          /\ host' = [host EXCEPT ![j] = Changed(host[j], host[j].gen, active, t)]
          /\ deleted' = deleted
    BY <1>3 DEF Work, Settle
  <2>2. PICK v \in JobVersion :
          /\ v # Nil /\ host[j].order <= v.order
          /\ host' = [host EXCEPT ![j] = v]
    BY <1>1, <2>1, ChangedIs
  <2>3. ControlTypes'
    BY <1>0, <1>1, <1>2, <2>1, <2>2 DEF ControlTypes, Versions, MaybeVersion
  <2> QED
    BY <1>1, <2>1, <2>2, <2>3, HostStep DEF MaybeVersion
<1>4. CASE Delete(j)
  <2>1. host' = [host EXCEPT ![j] = Nil] /\ deleted' = deleted \cup {j}
    BY <1>4 DEF Delete
  <2>2. ControlTypes'
    BY <1>0, <1>1, <1>2, <2>1, NilIsNothing DEF ControlTypes, Versions
  <2> QED
    BY <1>1, <2>1, <2>2, HostStep, NilIsNothing
<1> QED
  BY <1>3, <1>4

LEMMA ForgetInv ==
    ASSUME ControlInv, NEW j \in Jobs, Forget(j)
    PROVE  ControlInv'
<1>0. /\ ControlTypes /\ HostOK /\ EpochOK /\ CreatesOnce /\ ViewOK /\ DeletedStaysAway
      /\ \A q \in flight : AnswerOK(q)
  BY DEF ControlInv
<1>1. /\ j \in deleted /\ j \notin window.forgotten /\ window' = Forgotten(window, j)
      /\ UNCHANGED <<host, deleted, flight, used>>
  BY DEF Forget
<1>2. /\ window \in Controller /\ window.epoch \in Nat
      /\ window.jobs \in Versions /\ window.known \in Versions
  BY <1>0 DEF ControlTypes, Controller
<1>3. /\ window' \in Controller
      /\ window'.forgotten = window.forgotten \cup {j}
      /\ window'.jobs = [window.jobs EXCEPT ![j] = Nil]
      /\ window'.known = [window.known EXCEPT ![j] = Nil]
  BY <1>1, <1>2, ForgottenIs
<1>4. \/ /\ window.current # Nil /\ window.current.id = j
         /\ window'.current = Nil /\ window'.epoch = window.epoch + 1
         /\ ~window'.busy /\ ~window'.refreshing
      \/ /\ window.current = Nil \/ window.current.id # j
         /\ window'.current = window.current /\ window'.epoch = window.epoch
         /\ window'.busy = window.busy /\ window'.refreshing = window.refreshing
  BY <1>1, <1>2, ForgottenIs, ZenonT(40)
<1>5. ControlTypes'
  BY <1>0, <1>1, <1>3 DEF ControlTypes
<1>6. \A q \in flight : q.kind # "list" => q.token \in Nat /\ q.token <= window.epoch
  BY <1>0, RequestTypes DEF EpochOK
<1>7. EpochOK'
  <2>1. IsFiniteSet(window.forgotten)
    BY <1>2, ControlAssumption, FS_Subset DEF Controller
  <2>2. /\ Cardinality(window'.forgotten) = Cardinality(window.forgotten) + 1
        /\ Cardinality(window.forgotten) \in Nat
    BY <1>1, <1>3, <2>1, FS_AddElement, FS_CardinalityType
  <2>3. /\ window.epoch <= MaxOps + Cardinality(window.forgotten) /\ MaxOps \in Nat
    BY <1>0, ControlAssumption DEF EpochOK
  <2>4. /\ window'.epoch <= MaxOps + Cardinality(window'.forgotten)
        /\ window'.forgotten \subseteq deleted'
    BY <1>0, <1>1, <1>2, <1>3, <1>4, <2>2, <2>3 DEF EpochOK
  <2>5. CASE window'.epoch = window.epoch + 1 /\ ~window'.busy /\ ~window'.refreshing
    <3>1. \A q \in flight' : q.kind # "list" => q.token # window'.epoch /\ q.token <= window'.epoch
      BY <1>1, <1>2, <1>6, <2>5
    <3>2. \A q \in flight' : ~OfEpoch(q)' /\ ~(q.kind = "refresh" /\ q.token = window'.epoch)
                         /\ ~(q.kind \notin {"list", "refresh"} /\ q.token = window'.epoch)
      BY <3>1 DEF OfEpoch
    <3> QED
      BY <2>4, <2>5, <3>1, <3>2 DEF EpochOK
  <2>6. CASE /\ window'.epoch = window.epoch
             /\ window'.busy = window.busy /\ window'.refreshing = window.refreshing
    BY <1>0, <1>1, <2>4, <2>6 DEF EpochOK, OfEpoch
  <2> QED
    BY <1>4, <2>5, <2>6
<1>8. CreatesOnce' /\ HostOK'
  BY <1>0, <1>1 DEF CreatesOnce, HostOK
<1>9. ViewOK'
  BY <1>0, <1>1, <1>2, <1>3, <1>4 DEF ViewOK, Behind, Versions
<1>10. DeletedStaysAway'
  <2>1. ASSUME NEW i \in window'.forgotten
        PROVE  window'.jobs[i] = Nil /\ (window'.current = Nil \/ window'.current.id # i)
    <3>1. i \in Jobs
      BY <1>3 DEF Controller
    <3>2. CASE i = j
      BY <1>2, <1>3, <1>4, <3>2 DEF Versions
    <3>3. CASE i # j
      BY <1>0, <1>2, <1>3, <1>4, <2>1, <3>1, <3>3 DEF DeletedStaysAway, Versions
    <3> QED
      BY <3>2, <3>3
  <2> QED
    BY <2>1 DEF DeletedStaysAway
<1>11. ASSUME NEW q \in flight' PROVE AnswerOK(q)'
  <2>1. AnswerOK(q) /\ (q.kind # "list" => q.token \in Nat /\ q.token <= window.epoch)
    BY <1>0, <1>1, <1>6
  <2> QED
    BY <1>1, <1>2, <1>4, <2>1 DEF AnswerOK, Behind
<1> QED
  BY <1>5, <1>7, <1>8, <1>9, <1>10, <1>11 DEF ControlInv

\* What a request of a job makes of it.
LEMMA EffectsAre ==
    ASSUME host \in Versions, NEW q \in JobRequest, NEW v \in Effects(q)
    PROVE  /\ v \in JobVersion
           /\ host[q.job] = Nil => q.step = "create"
           /\ host[q.job] # Nil /\ q.step # "create" => host[q.job].order <= v.order
<1>1. /\ q.job \in Jobs /\ q.step \in {"snapshot", "create", "start", "relocate", "control"}
      /\ host[q.job] # Nil => host[q.job] \in JobVersion
  BY DEF JobRequest, RequestSteps, Versions, MaybeVersion
<1>2. CASE q.step = "create"
  <2>1. Effects(q) = {[time |-> 0, gen |-> 0, active |-> FALSE, order |-> 0]}
    BY <1>2 DEF Effects
  <2>2. v = [time |-> 0, gen |-> 0, active |-> FALSE, order |-> 0]
    BY <2>1
  <2>3. v \in JobVersion
    BY <2>2 DEF JobVersion
  <2> QED
    BY <1>2, <2>3
<1>3. CASE q.step = "start"
  <2>1. Effects(q) = IF host[q.job] = Nil \/ host[q.job].active THEN {}
                     ELSE {Changed(host[q.job], host[q.job].gen + 1, TRUE, t) : t \in {0, 1}}
    BY <1>3 DEF Effects
  <2>2. host[q.job] # Nil /\ \E t \in {0, 1} : v = Changed(host[q.job], host[q.job].gen + 1, TRUE, t)
    BY <2>1
  <2>3. host[q.job].gen + 1 \in Nat
    BY <1>1, <2>2 DEF JobVersion
  <2> QED
    BY <1>1, <2>2, <2>3, ChangedIs
<1>4. CASE q.step = "relocate"
  <2>1. Effects(q) = IF host[q.job] = Nil \/ host[q.job].active THEN {}
                     ELSE {Changed(host[q.job], host[q.job].gen, FALSE, 0)}
    BY <1>4 DEF Effects
  <2>2. host[q.job] # Nil /\ v = Changed(host[q.job], host[q.job].gen, FALSE, 0)
    BY <2>1
  <2>3. host[q.job].gen \in Nat
    BY <1>1, <2>2 DEF JobVersion
  <2> QED
    BY <1>1, <2>2, <2>3, ChangedIs
<1>5. CASE q.step = "control"
  <2>1. Effects(q) = IF host[q.job] = Nil THEN {}
                     ELSE {host[q.job]} \cup
                       {Changed(host[q.job], host[q.job].gen, a, 1) : a \in {host[q.job].active, FALSE}}
    BY <1>5 DEF Effects
  <2>2. host[q.job] # Nil
    BY <2>1
  <2>3. /\ host[q.job].gen \in Nat /\ host[q.job].order \in Nat
        /\ host[q.job].active \in BOOLEAN
    BY <1>1, <2>2 DEF JobVersion
  <2>4. v = host[q.job] \/ \E a \in {host[q.job].active, FALSE} : v = Changed(host[q.job], host[q.job].gen, a, 1)
    BY <2>1, <2>2
  <2>5. v = host[q.job] \/ \E a \in BOOLEAN : v = Changed(host[q.job], host[q.job].gen, a, 1)
    BY <2>3, <2>4
  <2>6. CASE v = host[q.job]
    BY <1>1, <2>2, <2>3, <2>6
  <2>7. CASE \E a \in BOOLEAN : v = Changed(host[q.job], host[q.job].gen, a, 1)
    <3>1. PICK a \in BOOLEAN : v = Changed(host[q.job], host[q.job].gen, a, 1)
      BY <2>7
    <3> QED
      BY <1>1, <2>2, <2>3, <3>1, ChangedIs
  <2> QED
    BY <2>5, <2>6, <2>7
<1>6. CASE q.step = "snapshot"
  <2>1. Effects(q) = IF host[q.job] = Nil THEN {} ELSE {host[q.job]}
    BY <1>6 DEF Effects
  <2>2. host[q.job] # Nil /\ v = host[q.job] /\ host[q.job].order \in Nat
    BY <1>1, <2>1 DEF JobVersion
  <2> QED
    BY <1>1, <2>2
<1> QED
  BY <1>1, <1>2, <1>3, <1>4, <1>5, <1>6

\* The host carries a request of a job out, or not.
LEMMA ServeStep ==
    ASSUME ControlInv, ControlTypes', UNCHANGED <<window, deleted>>,
           NEW q \in flight, q.kind # "list", q.state = "asked",
           NEW r, flight' = (flight \ {q}) \cup {r},
           r.kind = q.kind, r.token = q.token, r.job = q.job, r.step = q.step,
           \/ r.state = "error" /\ host' = host
           \/ \E v \in JobVersion :
                /\ host' = [host EXCEPT ![q.job] = v]
                /\ host[q.job] = Nil => q.step = "create"
                /\ host[q.job] # Nil => host[q.job].order <= v.order
                /\ r.state = "error" \/ (r.state = "ok" /\ r.got = v)
    PROVE  ControlInv'
<1>0. /\ ControlTypes /\ HostOK /\ EpochOK /\ CreatesOnce /\ ViewOK /\ DeletedStaysAway
      /\ \A x \in flight : AnswerOK(x)
  BY DEF ControlInv
<1>1. /\ q \in JobRequest /\ q.job \in Jobs /\ host \in Versions
  BY <1>0, RequestTypes DEF ControlTypes, JobRequest
<1>2. EpochOK'
  <2>1. \A x, y \in flight' : OfEpoch(x)' /\ OfEpoch(y)' => x = y
    BY <1>0 DEF EpochOK, OfEpoch
  <2>2. (\E x \in flight : x.kind \notin {"list", "refresh"} /\ x.token = window.epoch)
          <=> (\E x \in flight' : x.kind \notin {"list", "refresh"} /\ x.token = window'.epoch)
    OBVIOUS
  <2>3. (\E x \in flight : x.kind = "refresh" /\ x.token = window.epoch)
          <=> (\E x \in flight' : x.kind = "refresh" /\ x.token = window'.epoch)
    OBVIOUS
  <2>4. \A x \in flight' : x.kind # "list" => x.token <= window'.epoch
    BY <1>0 DEF EpochOK
  <2> QED
    BY <1>0, <2>1, <2>2, <2>3, <2>4 DEF EpochOK
<1>3. CreatesOnce'
  BY <1>0 DEF CreatesOnce
<1>4. DeletedStaysAway'
  BY <1>0 DEF DeletedStaysAway
<1>5. CASE r.state = "error" /\ host' = host
  <2>1. HostOK' /\ ViewOK'
    BY <1>0, <1>5 DEF HostOK, ViewOK, Behind
  <2>2. \A x \in flight' : AnswerOK(x)'
    BY <1>0, <1>5 DEF AnswerOK, Behind
  <2> QED
    BY <1>2, <1>3, <1>4, <2>1, <2>2 DEF ControlInv
<1>6. CASE \E v \in JobVersion :
             /\ host' = [host EXCEPT ![q.job] = v]
             /\ host[q.job] = Nil => q.step = "create"
             /\ host[q.job] # Nil => host[q.job].order <= v.order
             /\ r.state = "error" \/ (r.state = "ok" /\ r.got = v)
  <2>1. PICK v \in JobVersion :
             /\ host' = [host EXCEPT ![q.job] = v]
             /\ host[q.job] = Nil => q.step = "create"
             /\ host[q.job] # Nil => host[q.job].order <= v.order
             /\ r.state = "error" \/ (r.state = "ok" /\ r.got = v)
    BY <1>6
  <2>2. /\ host'[q.job] = v /\ v # Nil /\ v.order \in Nat
        /\ \A i \in Jobs \ {q.job} : host'[i] = host[i]
        /\ host[q.job] # Nil => host[q.job].order \in Nat
    BY <1>1, <2>1, NilIsNothing DEF Versions, MaybeVersion, JobVersion
  <2>3. host[q.job] = Nil => q.job \notin deleted
    BY <1>0, <2>1 DEF AnswerOK
  <2>4. q.job \notin deleted
    BY <1>0, <2>3 DEF HostOK
  <2>5. HostOK'
    BY <1>0, <2>2, <2>4 DEF HostOK, ControlTypes
  <2>6. ASSUME NEW i \in Jobs, NEW x \in JobVersion, Behind(i, x) PROVE Behind(i, x)'
    <3>1. x.order \in Nat
      BY DEF JobVersion
    <3>2. CASE i = q.job
      BY <2>1, <2>2, <2>4, <2>6, <3>1, <3>2 DEF Behind
    <3>3. CASE i # q.job
      BY <2>2, <2>6, <3>3 DEF Behind
    <3> QED
      BY <3>2, <3>3
  <2>7. window.current # Nil => window.current.id \in Jobs /\ window.current.v \in JobVersion
    BY <1>0 DEF ControlTypes, Controller
  <2>8. ViewOK'
    BY <1>0, <2>6, <2>7 DEF ViewOK
  <2>9. ASSUME NEW x \in flight \ {q} PROVE AnswerOK(x)'
    <3>1. CASE x.kind # "list"
      <4>1. x.job \in Jobs /\ AnswerOK(x)
        BY <1>0, <3>1, RequestTypes DEF JobRequest
      <4>2. x.state = "ok" => x.got \in JobVersion /\ Behind(x.job, x.got)'
        BY <2>6, <3>1, <4>1 DEF AnswerOK
      <4>3. x.step = "create" /\ x.state = "asked" => x.job # q.job
        BY <1>0, <2>1, <3>1, <4>1 DEF AnswerOK, CreatesOnce
      <4>4. x.step = "create" /\ x.state = "asked" => host'[x.job] = Nil /\ x.job \notin deleted'
        BY <2>2, <3>1, <4>1, <4>3 DEF AnswerOK
      <4> QED
        BY <3>1, <4>1, <4>2, <4>4 DEF AnswerOK
    <3> QED
      BY <3>1 DEF AnswerOK
  <2>10. AnswerOK(r)'
    <3>1. CASE r.state = "error"
      BY <3>1 DEF AnswerOK
    <3>2. CASE r.state = "ok" /\ r.got = v
      <4>1. Behind(r.job, r.got)'
        BY <2>2, <3>2 DEF Behind
      <4>2. window.current # Nil /\ window.current.id = q.job => window.current.v.order <= v.order
        <5>1. SUFFICES ASSUME window.current # Nil, window.current.id = q.job
                       PROVE  window.current.v.order <= v.order
          OBVIOUS
        <5>2. Behind(q.job, window.current.v) /\ window.current.v.order \in Nat
          BY <1>0, <2>7, <5>1 DEF ViewOK, JobVersion
        <5> QED
          BY <2>1, <2>2, <2>4, <5>2 DEF Behind
      <4> QED
        BY <3>2, <4>1, <4>2 DEF AnswerOK
    <3> QED
      BY <2>1, <3>1, <3>2
  <2> QED
    BY <1>2, <1>3, <1>4, <2>5, <2>8, <2>9, <2>10 DEF ControlInv
<1> QED
  BY <1>5, <1>6

LEMMA ServeInv ==
    ASSUME ControlInv, NEW q \in flight, ServeRequest(q)
    PROVE  ControlInv'
<1>0. /\ ControlTypes /\ host \in Versions /\ flight \subseteq JobRequest \cup ListRequest
      /\ q \in JobRequest \cup ListRequest /\ window \in Controller
  BY DEF ControlInv, ControlTypes
<1>1. q.state = "asked" /\ UNCHANGED <<deleted, window>>
  BY DEF ServeRequest
<1>2. used' \in [changes : Nat, errors : Nat]
  <2>1. used \in [changes : Nat, errors : Nat]
    BY <1>0 DEF ControlTypes
  <2>2. Failed => used' \in [changes : Nat, errors : Nat]
    BY <2>1 DEF Failed
  <2>3. Failed \/ used' = used
    BY DEF ServeRequest
  <2> QED
    BY <2>1, <2>2, <2>3
<1>3. CASE q.kind = "list"
  <2>1. PICK state, got :
          /\ \/ state = "ok" /\ got \in Versions
             \/ state = "error" /\ got = Nil
          /\ AnswerWith(q, state, got) /\ host' = host
    BY <1>0, <1>3 DEF ServeRequest
  <2>2. PICK r : r = [q EXCEPT !.state = state, !.got = got]
    OBVIOUS
  <2>3. flight' = (flight \ {q}) \cup {r}
    BY <2>1, <2>2 DEF AnswerWith
  <2>4. q \in ListRequest
    BY <1>0, <1>3 DEF JobRequest
  <2>5. r \in ListRequest /\ r.kind = "list"
    BY <2>1, <2>2, <2>4 DEF ListRequest
  <2>6. ControlTypes'
    BY <1>0, <1>1, <1>2, <2>1, <2>3, <2>5 DEF ControlTypes
  <2>7. \A x : x.kind # "list" => (x \in flight <=> x \in flight')
    BY <1>3, <2>3, <2>5
  <2>8. ViewOK /\ DeletedStaysAway
    BY DEF ControlInv
  <2> QED
    BY <1>1, <2>1, <2>6, <2>7, <2>8, ListStep DEF ViewOK, DeletedStaysAway
<1>4. CASE q.kind # "list"
  <2>0. q \in JobRequest /\ q.job \in Jobs
    BY <1>0, <1>4, RequestTypes DEF JobRequest
  <2>1. \/ /\ AnswerWith(q, "error", Nil) /\ host' = host
        \/ \E v \in Effects(q) :
              /\ host' = [host EXCEPT ![q.job] = v]
              /\ AnswerWith(q, "ok", v) \/ AnswerWith(q, "error", Nil)
    BY <1>4 DEF ServeRequest
  <2>2. CASE AnswerWith(q, "error", Nil) /\ host' = host
    <3>1. PICK r : r = [q EXCEPT !.state = "error", !.got = Nil]
      OBVIOUS
    <3>2. flight' = (flight \ {q}) \cup {r}
      BY <2>2, <3>1 DEF AnswerWith
    <3>3. /\ r \in JobRequest /\ r.kind = q.kind /\ r.token = q.token /\ r.job = q.job
          /\ r.step = q.step /\ r.state = "error"
      BY <2>0, <3>1, NilIsNothing DEF JobRequest
    <3>4. ControlTypes'
      BY <1>0, <1>1, <1>2, <2>2, <3>2, <3>3 DEF ControlTypes
    <3> QED
      BY <1>1, <1>4, <2>2, <3>2, <3>3, <3>4, ServeStep
  <2>3. CASE \E v \in Effects(q) :
               /\ host' = [host EXCEPT ![q.job] = v]
               /\ AnswerWith(q, "ok", v) \/ AnswerWith(q, "error", Nil)
    <3>1. PICK v \in Effects(q) :
            /\ host' = [host EXCEPT ![q.job] = v]
            /\ AnswerWith(q, "ok", v) \/ AnswerWith(q, "error", Nil)
      BY <2>3
    <3>2. /\ v \in JobVersion
          /\ host[q.job] = Nil => q.step = "create"
          /\ host[q.job] # Nil /\ q.step # "create" => host[q.job].order <= v.order
      BY <1>0, <2>0, <3>1, EffectsAre
    <3>3. q.step = "create" => host[q.job] = Nil
      BY <1>1, <1>4 DEF ControlInv, AnswerOK
    <3>4. PICK state \in {"ok", "error"}, got \in {v, Nil} :
            AnswerWith(q, state, got) /\ (state = "ok" => got = v)
      BY <3>1
    <3>5. PICK r : r = [q EXCEPT !.state = state, !.got = got]
      OBVIOUS
    <3>6. flight' = (flight \ {q}) \cup {r}
      BY <3>4, <3>5 DEF AnswerWith
    <3>7. /\ r \in JobRequest /\ r.kind = q.kind /\ r.token = q.token /\ r.job = q.job
          /\ r.step = q.step /\ r.state = state /\ r.got = got
      <4>1. got \in MaybeVersion
        BY <3>2, NilIsNothing DEF MaybeVersion
      <4> QED
        BY <2>0, <3>5, <4>1 DEF JobRequest
    <3>8. host' \in Versions
      BY <1>0, <3>1, <3>2 DEF Versions, MaybeVersion
    <3>9. ControlTypes'
      BY <1>0, <1>1, <1>2, <3>6, <3>7, <3>8 DEF ControlTypes
    <3>10. /\ host[q.job] # Nil => host[q.job].order <= v.order
           /\ r.state = "error" \/ (r.state = "ok" /\ r.got = v)
      BY <3>2, <3>3, <3>4, <3>7
    <3>11. r.kind = q.kind /\ r.token = q.token /\ r.job = q.job /\ r.step = q.step
      BY <3>7
    <3>12. \/ r.state = "error" /\ host' = host
           \/ \E x \in JobVersion :
                /\ host' = [host EXCEPT ![q.job] = x]
                /\ host[q.job] = Nil => q.step = "create"
                /\ host[q.job] # Nil => host[q.job].order <= x.order
                /\ r.state = "error" \/ (r.state = "ok" /\ r.got = x)
      BY <3>1, <3>2, <3>10
    <3> QED
      BY <1>1, <1>4, <3>6, <3>9, <3>11, <3>12, ServeStep
  <2> QED
    BY <2>1, <2>2, <2>3
<1> QED
  BY <1>3, <1>4
(* The answers.                                                            *)

\* What an answer about a job makes of what is shown: nothing, or the version
\* it brings, which the list takes unless it is older than what it has.
Brought(p, q) ==
    /\ p \in Controller
    /\ p.epoch = window.epoch /\ p.forgotten = window.forgotten
    /\ p.busy = window.busy /\ p.refreshing = window.refreshing
    /\ \/ p.current = window.current
       \/ q.state = "ok" /\ q.job \notin window.forgotten /\ p.current = [id |-> q.job, v |-> q.got]
    /\ \A j \in Jobs : p.known[j] # Nil => p.jobs[j] = p.known[j]
    /\ \A j \in window.forgotten : p.jobs[j] = Nil
    /\ \A j \in Jobs : window.jobs[j] # Nil => p.jobs[j] # Nil /\ ~Older(p.jobs[j], window.jobs[j])

LEMMA NeverOlder ==
    ASSUME NEW v \in JobVersion
    PROVE  ~Older(v, v)
BY DEF Older, JobVersion

LEMMA PublishedIsBrought ==
    ASSUME ControlInv, NEW q \in flight, q.kind # "list"
    PROVE  /\ Brought(window, q)
           /\ q.state = "ok" => Brought(Published(window, q.job, q.got), q)
<1>0. ControlTypes /\ ViewOK /\ DeletedStaysAway /\ AnswerOK(q)
  BY DEF ControlInv
<1>1. window \in Controller /\ q.job \in Jobs
  BY <1>0, RequestTypes DEF ControlTypes, JobRequest
<1>2. \A j \in Jobs : window.jobs[j] # Nil => window.jobs[j] \in JobVersion
  BY <1>1 DEF Controller, Versions, MaybeVersion
<1>3. \A j \in Jobs : window.jobs[j] # Nil => ~Older(window.jobs[j], window.jobs[j])
  BY <1>2, NeverOlder
<1>4. Brought(window, q)
  BY <1>0, <1>1, <1>3 DEF Brought, ViewOK, DeletedStaysAway
<1>5. ASSUME q.state = "ok"
      PROVE  Brought(Published(window, q.job, q.got), q)
  <2>1. PICK p : p = Published(window, q.job, q.got)
    OBVIOUS
  <2>2. q.got \in JobVersion
    BY <1>0, <1>5 DEF AnswerOK
  <2>3. q.got # Nil
    BY <2>2, NilIsNothing
  <2>4. /\ p \in Controller
        /\ p.epoch = window.epoch /\ p.forgotten = window.forgotten
        /\ p.busy = window.busy /\ p.refreshing = window.refreshing
        /\ q.job \in window.forgotten => p = window
        /\ q.job \notin window.forgotten => p.current = [id |-> q.job, v |-> q.got]
    BY <1>1, <2>1, <2>2, PublishedIs
  <2>5. \A i \in Jobs :
          \/ p.jobs[i] = window.jobs[i] /\ p.known[i] = window.known[i]
          \/ /\ i = q.job /\ q.job \notin window.forgotten
             /\ p.jobs[i] = q.got /\ p.known[i] = q.got
             /\ window.known[i] = Nil \/ ~Older(q.got, window.known[i])
             /\ window.jobs[i] = Nil \/ ~Older(q.got, window.jobs[i])
    <3>1. \A i \in Jobs :
              \/ Published(window, q.job, q.got).jobs[i] = window.jobs[i] /\ Published(window, q.job, q.got).known[i] = window.known[i]
              \/ /\ i = q.job /\ q.job \notin window.forgotten
                 /\ Published(window, q.job, q.got).jobs[i] = q.got /\ Published(window, q.job, q.got).known[i] = q.got
                 /\ window.known[i] = Nil \/ ~Older(q.got, window.known[i])
                 /\ window.jobs[i] = Nil \/ ~Older(q.got, window.jobs[i])
      BY <1>1, <2>2, PublishedIs, ZenonT(40)
    <3> QED
      BY <2>1, <3>1
  <2>6. \A j \in Jobs : p.known[j] # Nil => p.jobs[j] = p.known[j]
    BY <1>0, <2>5 DEF ViewOK
  <2>7. \A j \in window.forgotten : p.jobs[j] = Nil
    <3>1. window.forgotten \subseteq Jobs
      BY <1>1 DEF Controller
    <3> QED
      BY <1>0, <2>5, <3>1 DEF DeletedStaysAway
  <2>8. \A j \in Jobs : window.jobs[j] # Nil => p.jobs[j] # Nil /\ ~Older(p.jobs[j], window.jobs[j])
    BY <1>3, <2>3, <2>5
  <2>9. \/ p.current = window.current
        \/ q.state = "ok" /\ q.job \notin window.forgotten /\ p.current = [id |-> q.job, v |-> q.got]
    BY <1>5, <2>4
  <2>10. Brought(p, q)
    BY <2>4, <2>6, <2>7, <2>8, <2>9 DEF Brought
  <2> QED
    BY <2>1, <2>10
<1> QED
  BY <1>4, <1>5

\* The answer of the present epoch is taken, and perhaps the next request of
\* its operation made.
LEMMA AnswerStep ==
    ASSUME ControlInv, ControlTypes', UNCHANGED <<host, deleted>>,
           NEW q \in flight, OfEpoch(q), NEW p, Brought(p, q),
           NEW r, NEW more \in BOOLEAN,
           more => /\ r.kind = q.kind /\ q.kind # "refresh" /\ r.token = q.token
                   /\ r.state = "asked" /\ r.step # "create",
           \A x : x.kind # "list" =>
                    (x \in flight' <=> (x \in flight /\ x # q) \/ (more /\ x = r)),
           window'.epoch = p.epoch, window'.forgotten = p.forgotten,
           window'.current = p.current, window'.jobs = p.jobs, window'.known = p.known,
           window'.busy <=> more, ~window'.refreshing
    PROVE  ControlInv'
<1>0. /\ ControlTypes /\ HostOK /\ EpochOK /\ CreatesOnce /\ ViewOK /\ DeletedStaysAway
      /\ \A x \in flight : AnswerOK(x)
  BY DEF ControlInv
<1>1. /\ window'.epoch = window.epoch /\ window'.forgotten = window.forgotten
      /\ q.kind # "list" /\ q.token = window.epoch
  BY DEF Brought, OfEpoch
<1>2. \A x \in flight' : x.kind # "list" => (x \in flight /\ x # q) \/ (more /\ x = r)
  OBVIOUS
<1>3. \A x \in flight' : OfEpoch(x)' => more /\ x = r
  BY <1>0, <1>1, <1>2 DEF EpochOK, OfEpoch
<1>4. EpochOK'
  <2>1. \A x \in flight' : x.kind # "list" => x.token <= window'.epoch
    BY <1>0, <1>1, <1>2 DEF EpochOK
  <2>2. ~\E x \in flight' : x.kind = "refresh" /\ x.token = window'.epoch
    BY <1>3 DEF OfEpoch
  <2>3. (\E x \in flight' : x.kind \notin {"list", "refresh"} /\ x.token = window'.epoch) => more
    BY <1>3 DEF OfEpoch
  <2>4. more => r \in flight' /\ r.kind \notin {"list", "refresh"} /\ r.token = window'.epoch
    BY <1>1
  <2>5. /\ window'.forgotten \subseteq deleted'
        /\ window'.epoch <= MaxOps + Cardinality(window'.forgotten)
    BY <1>0, <1>1 DEF EpochOK
  <2> QED
    BY <1>3, <2>1, <2>2, <2>3, <2>4, <2>5 DEF EpochOK
<1>5. CreatesOnce'
  <2>1. \A x \in flight' : x.kind # "list" /\ x.step = "create" /\ x.state = "asked" => x \in flight
    BY <1>2
  <2> QED
    BY <1>0, <2>1 DEF CreatesOnce
<1>6. HostOK'
  BY <1>0 DEF HostOK
<1>7. AnswerOK(q) /\ (q.state = "ok" => q.got \in JobVersion /\ Behind(q.job, q.got))
  BY <1>0, <1>1 DEF AnswerOK
<1>8. window'.current = window.current
      \/ (q.state = "ok" /\ q.job \notin window.forgotten /\ window'.current = [id |-> q.job, v |-> q.got])
  BY DEF Brought
<1>9. ViewOK' /\ DeletedStaysAway'
  <2>1. (window.current # Nil => Behind(window.current.id, window.current.v))'
    <3>1. CASE window'.current = window.current
      BY <1>0, <3>1 DEF ViewOK, Behind
    <3>2. CASE q.state = "ok" /\ window'.current = [id |-> q.job, v |-> q.got]
      BY <1>7, <3>2 DEF Behind
    <3> QED
      BY <1>8, <3>1, <3>2
  <2>2. \A j \in window.forgotten : window'.current = Nil \/ window'.current.id # j
    BY <1>0, <1>8 DEF DeletedStaysAway
  <2>3. /\ \A j \in Jobs : window'.known[j] # Nil => window'.jobs[j] = window'.known[j]
        /\ \A j \in window.forgotten : window'.jobs[j] = Nil
    BY DEF Brought
  <2> QED
    BY <1>1, <2>1, <2>2, <2>3 DEF ViewOK, DeletedStaysAway
<1>10. ASSUME NEW x \in flight' PROVE AnswerOK(x)'
  <2>1. CASE x.kind = "list"
    BY <2>1 DEF AnswerOK
  <2>2. CASE more /\ x = r
    BY <2>2 DEF AnswerOK
  <2>3. CASE x \in flight /\ x # q /\ x.kind # "list"
    <3>1. x.token # window'.epoch
      BY <1>0, <1>1, <2>3 DEF EpochOK, OfEpoch
    <3>2. AnswerOK(x)
      BY <1>0, <2>3
    <3> QED
      BY <3>1, <3>2 DEF AnswerOK, Behind
  <2> QED
    BY <1>2, <2>1, <2>2, <2>3
<1> QED
  BY <1>4, <1>5, <1>6, <1>9, <1>10 DEF ControlInv

LEMMA DropInv ==
    ASSUME ControlInv, NEW q \in flight, Drop(q), UNCHANGED <<host, deleted, used>>
    PROVE  ControlInv'
<1>0. /\ ControlTypes /\ HostOK /\ EpochOK /\ CreatesOnce /\ ViewOK /\ DeletedStaysAway
      /\ \A x \in flight : AnswerOK(x)
  BY DEF ControlInv
<1>1. ~OfEpoch(q) /\ flight' = flight \ {q} /\ UNCHANGED window
  BY DEF Drop, Current, OfEpoch
<1>2. ControlTypes' /\ HostOK' /\ CreatesOnce' /\ DeletedStaysAway' /\ ViewOK'
  BY <1>0, <1>1 DEF ControlTypes, HostOK, CreatesOnce, DeletedStaysAway, ViewOK, Behind
<1>3. EpochOK'
  <2>1. (\E x \in flight : x.kind \notin {"list", "refresh"} /\ x.token = window.epoch)
          <=> (\E x \in flight' : x.kind \notin {"list", "refresh"} /\ x.token = window'.epoch)
    BY <1>1 DEF OfEpoch
  <2>2. (\E x \in flight : x.kind = "refresh" /\ x.token = window.epoch)
          <=> (\E x \in flight' : x.kind = "refresh" /\ x.token = window'.epoch)
    BY <1>1 DEF OfEpoch
  <2>3. \A x, y \in flight' : OfEpoch(x)' /\ OfEpoch(y)' => x = y
    BY <1>0, <1>1 DEF EpochOK, OfEpoch
  <2> QED
    BY <1>0, <1>1, <2>1, <2>2, <2>3 DEF EpochOK
<1>4. \A x \in flight' : AnswerOK(x)'
  BY <1>0, <1>1 DEF AnswerOK, Behind
<1> QED
  BY <1>2, <1>3, <1>4 DEF ControlInv

LEMMA PageInv ==
    ASSUME ControlInv, NEW q \in flight, Page(q), UNCHANGED <<host, deleted, used>>
    PROVE  ControlInv'
<1>0. ControlTypes /\ ViewOK /\ DeletedStaysAway
  BY DEF ControlInv
<1>1. q.kind = "list" /\ flight' = flight \ {q}
  BY DEF Page
<1>2. window \in Controller /\ window.forgotten \subseteq Jobs
  BY <1>0 DEF ControlTypes, Controller
<1>3. \A x : x.kind # "list" => (x \in flight <=> x \in flight')
  BY <1>1
<1>4. CASE window' = window
  <2>1. ControlTypes'
    BY <1>0, <1>1, <1>4 DEF ControlTypes
  <2> QED
    BY <1>0, <1>3, <1>4, <2>1, ListStep DEF ViewOK, DeletedStaysAway
<1>5. CASE window' = Listed(window, q.got) /\ q.got \in Versions
  <2>1. /\ window' \in Controller
        /\ window'.epoch = window.epoch /\ window'.busy = window.busy
        /\ window'.refreshing = window.refreshing /\ window'.forgotten = window.forgotten
        /\ window'.current = window.current
    BY <1>2, <1>5, ListedIs
  <2>2. \A j \in Jobs :
          /\ j \in window.forgotten => window'.jobs[j] = Nil
          /\ window.known[j] = Nil => window'.known[j] = Nil
          /\ window.known[j] # Nil /\ j \notin window.forgotten =>
               \/ /\ q.got[j] # Nil /\ Older(window.known[j], q.got[j])
                  /\ window'.jobs[j] = q.got[j] /\ window'.known[j] = q.got[j]
               \/ window'.jobs[j] = window.jobs[j] /\ window'.known[j] = window.known[j]
    BY <1>2, <1>5, ListedIs
  <2>3. \A j \in window.forgotten : window.known[j] = Nil
    BY <1>0, <1>2 DEF ViewOK, DeletedStaysAway
  <2>4. \A j \in Jobs : window'.known[j] # Nil => window'.jobs[j] = window'.known[j]
    BY <1>0, <2>2, <2>3 DEF ViewOK
  <2>5. \A j \in window.forgotten : window'.jobs[j] = Nil
    BY <1>2, <2>2
  <2>6. ControlTypes'
    BY <1>0, <1>1, <2>1 DEF ControlTypes
  <2> QED
    BY <1>3, <2>1, <2>4, <2>5, <2>6, ListStep
<1>6. q.state = "ok" => q.got \in Versions
  <2>1. q \in ListRequest
    BY <1>0, <1>1, RequestTypes
  <2> QED
    BY <2>1 DEF ListRequest
<1> QED
  BY <1>4, <1>5, <1>6 DEF Page

LEMMA PollInv ==
    ASSUME ControlInv, NEW q \in flight, PollAnswer(q), UNCHANGED <<host, deleted, used>>
    PROVE  ControlInv'
<1>0. ControlTypes /\ EpochOK
  BY DEF ControlInv
<1>1. /\ q.kind = "refresh" /\ OfEpoch(q) /\ q.token = window.epoch
      /\ flight' = flight \ {q}
  BY DEF PollAnswer, Current, OfEpoch
<1>2. PICK p : /\ p = IF q.state = "ok" /\ ~window.busy THEN Published(window, q.job, q.got) ELSE window
               /\ window' = [p EXCEPT !.refreshing = IF q.token = window.epoch THEN FALSE ELSE @]
  BY DEF PollAnswer
<1>3. Brought(p, q)
  BY <1>1, <1>2, PublishedIsBrought
<1>4. p \in Controller
  BY <1>3 DEF Brought
<1>5. window' = [p EXCEPT !.refreshing = FALSE]
  BY <1>1, <1>2
<1>6. /\ window' \in Controller /\ ~window'.refreshing /\ window'.busy = p.busy
      /\ window'.epoch = p.epoch /\ window'.forgotten = p.forgotten
      /\ window'.current = p.current /\ window'.jobs = p.jobs /\ window'.known = p.known
  BY <1>4, <1>5 DEF Controller
<1>7. ControlTypes'
  BY <1>0, <1>1, <1>6 DEF ControlTypes
<1>8. ~window'.busy
  <2>1. ~window.busy
    BY <1>0, <1>1 DEF EpochOK, OfEpoch
  <2> QED
    BY <1>3, <1>6, <2>1 DEF Brought
<1>9. window'.busy <=> FALSE
  BY <1>8
<1>10. \A x : x.kind # "list" => (x \in flight' <=> (x \in flight /\ x # q) \/ (FALSE /\ x = q))
  BY <1>1
<1> QED
  BY <1>1, <1>3, <1>6, <1>7, <1>9, <1>10, AnswerStep

LEMMA ResultInv ==
    ASSUME ControlInv, NEW q \in flight, Result(q), UNCHANGED <<host, deleted, used>>
    PROVE  ControlInv'
<1>0. ControlTypes /\ EpochOK
  BY DEF ControlInv
<1>1. q.kind \notin {"list", "refresh"} /\ OfEpoch(q) /\ q.token = window.epoch
  BY DEF Result, Current, OfEpoch
<1>2. PICK p : p = IF q.state = "ok" /\ q.step # "control" THEN Published(window, q.job, q.got) ELSE window
  OBVIOUS
<1>3. Brought(p, q)
  BY <1>1, <1>2, PublishedIsBrought
<1>4. p \in Controller /\ p.busy = window.busy /\ p.refreshing = window.refreshing
  BY <1>3 DEF Brought
<1>5. window.busy /\ ~window.refreshing
  <2>1. window.busy
    BY <1>0, <1>1 DEF EpochOK
  <2>2. ~\E x \in flight : x.kind = "refresh" /\ x.token = window.epoch
    BY <1>0, <1>1 DEF EpochOK, OfEpoch
  <2> QED
    BY <1>0, <2>1, <2>2 DEF EpochOK
<1>6. CASE q.state = "ok" /\ NextStep(q) # "end"
  <2>1. PICK r : r = Request(q.kind, q.token, q.job, NextStep(q))
    OBVIOUS
  <2>2. window' = p /\ flight' = (flight \ {q}) \cup {r}
    BY <1>2, <1>6, <2>1 DEF Result
  <2>3. NextStep(q) \in {"start", "snapshot"}
    BY <1>6 DEF NextStep
  <2>4. q \in JobRequest /\ q.job \in Jobs /\ q.token \in Nat /\ q.kind \in RequestKinds \ {"list"}
    BY <1>0, <1>1, RequestTypes DEF JobRequest
  <2>5. /\ r.kind = q.kind /\ r.token = q.token /\ r.step # "create" /\ r.state = "asked"
        /\ r \in JobRequest
    BY <2>1, <2>3, <2>4, RequestIs DEF RequestSteps
  <2>6. ControlTypes'
    BY <1>0, <1>4, <2>2, <2>5 DEF ControlTypes
  <2>7. \A x : x.kind # "list" => (x \in flight' <=> (x \in flight /\ x # q) \/ (TRUE /\ x = r))
    BY <2>2
  <2>8. (window'.busy <=> TRUE) /\ ~window'.refreshing
    BY <1>4, <1>5, <2>2
  <2> QED
    BY <1>1, <1>3, <2>2, <2>5, <2>6, <2>7, <2>8, AnswerStep
<1>7. CASE ~(q.state = "ok" /\ NextStep(q) # "end")
  <2>1. PICK u : u = [p EXCEPT !.busy = FALSE]
    OBVIOUS
  <2>2. \/ window' = u /\ flight' = flight \ {q}
        \/ WithList(u, flight \ {q})
    BY <1>2, <1>7, <2>1 DEF Result
  <2>3. /\ u \in Controller /\ ~u.busy /\ u.refreshing = p.refreshing
        /\ u.epoch = p.epoch /\ u.forgotten = p.forgotten
        /\ u.current = p.current /\ u.jobs = p.jobs /\ u.known = p.known
    BY <1>4, <2>1 DEF Controller
  <2>4. flight \ {q} \subseteq JobRequest \cup ListRequest
    BY <1>0 DEF ControlTypes
  <2>5. /\ window' \in Controller /\ window'.busy = u.busy /\ window'.refreshing = u.refreshing
        /\ window'.epoch = u.epoch /\ window'.forgotten = u.forgotten
        /\ window'.current = u.current /\ window'.jobs = u.jobs /\ window'.known = u.known
        /\ flight' \in SUBSET (JobRequest \cup ListRequest)
        /\ \A x : x.kind # "list" => (x \in flight \ {q} <=> x \in flight')
    <3>1. CASE window' = u /\ flight' = flight \ {q}
      BY <2>3, <2>4, <3>1
    <3>2. CASE WithList(u, flight \ {q})
      BY <2>3, <2>4, <3>2, WithListIs
    <3> QED
      BY <2>2, <3>1, <3>2
  <2>6. ControlTypes'
    BY <1>0, <2>5 DEF ControlTypes
  <2>7. \A x : x.kind # "list" => (x \in flight' <=> (x \in flight /\ x # q) \/ (FALSE /\ x = q))
    BY <2>5
  <2>8. (window'.busy <=> FALSE) /\ ~window'.refreshing
    BY <1>4, <1>5, <2>3, <2>5
  <2>9. /\ window'.epoch = p.epoch /\ window'.forgotten = p.forgotten
        /\ window'.current = p.current /\ window'.jobs = p.jobs /\ window'.known = p.known
    BY <2>3, <2>5
  <2> QED
    BY <1>1, <1>3, <2>6, <2>7, <2>8, <2>9, AnswerStep
<1> QED
  BY <1>6, <1>7

LEMMA AnswerInv ==
    ASSUME ControlInv, NEW q \in flight, Answer(q)
    PROVE  ControlInv'
<1>1. (Drop(q) \/ Page(q) \/ PollAnswer(q) \/ Result(q)) /\ UNCHANGED <<host, deleted, used>>
  BY DEF Answer
<1> QED
  BY <1>1, DropInv, PageInv, PollInv, ResultInv

LEMMA ControlInitInv == ControlInit => ControlInv
<1> SUFFICES ASSUME ControlInit PROVE ControlInv
  OBVIOUS
<1>1. /\ host = [j \in Jobs |-> Nil] /\ deleted = {} /\ flight = {}
      /\ used = [changes |-> 0, errors |-> 0]
      /\ window = [jobs |-> [j \in Jobs |-> Nil], current |-> Nil, busy |-> FALSE,
                   refreshing |-> FALSE, epoch |-> 0, listEpoch |-> 0,
                   known |-> [j \in Jobs |-> Nil], forgotten |-> {}]
  BY DEF ControlInit
<1>2. [j \in Jobs |-> Nil] \in Versions
  BY NilIsNothing DEF Versions
<1>3. ControlTypes
  <2>1. window \in Controller
    BY <1>1, <1>2 DEF Controller
  <2> QED
    BY <1>1, <1>2, <2>1 DEF ControlTypes
<1>4. window.epoch = 0 /\ ~window.busy /\ ~window.refreshing /\ window.forgotten = {}
      /\ window.current = Nil /\ window.known = [j \in Jobs |-> Nil]
  BY <1>1
<1>5. EpochOK
  <2>1. Cardinality(window.forgotten) = 0 /\ MaxOps \in Nat
    BY <1>4, FS_EmptySet, ControlAssumption
  <2> QED
    BY <1>1, <1>4, <2>1 DEF EpochOK
<1>6. HostOK /\ CreatesOnce /\ ViewOK /\ DeletedStaysAway /\ \A q \in flight : AnswerOK(q)
  BY <1>1, <1>4 DEF HostOK, CreatesOnce, ViewOK, DeletedStaysAway
<1> QED
  BY <1>3, <1>5, <1>6 DEF ControlInv

\* What an operation of the user is.
LEMMA OperationsAre ==
    ASSUME ControlInv,
           (\E j \in Jobs : Select(j) \/ Create(j)) \/ Resume \/ Relocate \/ Control
    PROVE  \E kind \in RequestKinds \ {"refresh", "list"}, job \in Jobs, step \in RequestSteps \ {"list"} :
             /\ Operation(kind, job, step)
             /\ step = "create" => host[job] = Nil /\ job \notin deleted /\ \A q \in flight : q.job # job
<1>1. window.current # Nil => window.current.id \in Jobs
  BY DEF ControlInv, ControlTypes, Controller
<1> USE DEF RequestKinds, RequestSteps
<1>2. CASE \E j \in Jobs : Select(j)
  BY <1>2 DEF Select
<1>3. CASE \E j \in Jobs : Create(j)
  BY <1>3 DEF Create
<1>4. CASE Resume
  BY <1>1, <1>4 DEF Resume
<1>5. CASE Relocate
  BY <1>1, <1>5 DEF Relocate
<1>6. CASE Control
  BY <1>1, <1>6 DEF Control
<1> QED
  BY <1>2, <1>3, <1>4, <1>5, <1>6

LEMMA ControlNextInv == ControlInv /\ [ControlNext]_controlVars => ControlInv'
<1> SUFFICES ASSUME ControlInv, [ControlNext]_controlVars PROVE ControlInv'
  OBVIOUS
<1>1. CASE (\E j \in Jobs : Select(j) \/ Create(j)) \/ Resume \/ Relocate \/ Control
  BY <1>1, OperationsAre, OperationInv
<1>2. CASE \E j \in Jobs : Work(j) \/ Settle(j) \/ Delete(j)
  BY <1>2, WorkInv
<1>3. CASE \E j \in Jobs : Forget(j)
  BY <1>3, ForgetInv
<1>4. CASE ClearSelection
  BY <1>4, ClearInv
<1>5. CASE Refresh
  BY <1>5, RefreshInv
<1>6. CASE List
  BY <1>6, ListInv
<1>7. CASE \E q \in flight : ServeRequest(q)
  BY <1>7, ServeInv
<1>8. CASE \E q \in flight : Answer(q)
  BY <1>8, AnswerInv
<1>9. CASE UNCHANGED controlVars
  BY <1>9 DEF controlVars, ControlInv, ControlTypes, HostOK, EpochOK, OfEpoch, CreatesOnce, ViewOK,
              Behind, DeletedStaysAway, AnswerOK
<1> QED
  BY <1>1, <1>2, <1>3, <1>4, <1>5, <1>6, <1>7, <1>8, <1>9 DEF ControlNext

LEMMA ControlAlways == ControlSpec => []ControlInv
<1> QED
  BY ControlInitInv, ControlNextInv, PTL DEF ControlSpec

\* The window, when it is idle, when it is busy, which jobs it knows to be
\* deleted, and that none of those is shown or listed again, whatever answers
\* are still on their way.
THEOREM ViewsAreTrue == ControlSpec => []ViewIsTrue
<1>1. ControlInv => ViewIsTrue
  <2> SUFFICES ASSUME ControlInv PROVE ViewIsTrue
    OBVIOUS
  <2>1. ControlTypes /\ EpochOK /\ DeletedStaysAway
    BY DEF ControlInv
  <2>2. /\ window.epoch \in Nat /\ window.busy \in BOOLEAN /\ window.refreshing \in BOOLEAN
        /\ window.forgotten \subseteq Jobs
    BY <2>1 DEF ControlTypes, Controller
  <2>3. /\ Cardinality(window.forgotten) <= Cardinality(Jobs)
        /\ Cardinality(window.forgotten) \in Nat /\ Cardinality(Jobs) \in Nat
    BY <2>2, ControlAssumption, FS_Subset, FS_CardinalityType
  <2>4. window.epoch <= MaxOps + Cardinality(window.forgotten) /\ MaxOps \in Nat
    BY <2>1, ControlAssumption DEF EpochOK
  <2>5. window.epoch \in 0 .. MaxOps + Cardinality(Jobs)
    BY <2>2, <2>3, <2>4
  <2>6. window.busy = (\E q \in flight : q.kind \notin {"list", "refresh"} /\ q.token = window.epoch)
    BY <2>1, <2>2 DEF EpochOK
  <2>7. window.refreshing = (\E q \in flight : q.kind = "refresh" /\ q.token = window.epoch)
    BY <2>1, <2>2 DEF EpochOK
  <2>8. window.forgotten \subseteq deleted
    BY <2>1 DEF EpochOK
  <2> QED
    BY <2>1, <2>5, <2>6, <2>7, <2>8 DEF ViewIsTrue, ControlTypeOK
<1> QED
  BY <1>1, ControlAlways, PTL

\* What is shown stays, or goes; what is listed stays.
LEMMA StillForward ==
    ASSUME ControlInv, window'.current \in {window.current, Nil},
           \A j \in Jobs : j \notin window'.forgotten => window'.jobs[j] = window.jobs[j]
    PROVE  NeverBack /\ ListKeeps
<1>1. window \in Controller
  BY DEF ControlInv, ControlTypes
<1>2. NeverBack
  <2>1. window.current # Nil => window.current.v.order \in Nat
    BY <1>1 DEF Controller, JobVersion
  <2> QED
    BY <2>1 DEF NeverBack
<1>3. \A j \in Jobs : window.jobs[j] # Nil => ~Older(window.jobs[j], window.jobs[j])
  BY <1>1, NeverOlder DEF Controller, Versions, MaybeVersion
<1> QED
  BY <1>2, <1>3 DEF ListKeeps

\* An answer that counts brings nothing before what is shown.
LEMMA AnswerForward ==
    ASSUME ControlInv, NEW q \in flight, OfEpoch(q), NEW p, Brought(p, q),
           window'.current = p.current, window'.jobs = p.jobs
    PROVE  NeverBack /\ ListKeeps
<1>1. window \in Controller /\ AnswerOK(q)
  BY DEF ControlInv, ControlTypes
<1>2. NeverBack
  <2>1. window.current # Nil => window.current.v.order \in Nat
    BY <1>1 DEF Controller, JobVersion
  <2>2. CASE window'.current = window.current
    BY <2>1, <2>2 DEF NeverBack
  <2>3. CASE q.state = "ok" /\ window'.current = [id |-> q.job, v |-> q.got]
    <3>1. window.current # Nil /\ window.current.id = q.job => window.current.v.order <= q.got.order
      BY <1>1, <2>3 DEF AnswerOK, OfEpoch
    <3>2. q.got.order \in Nat
      BY <1>1, <2>3 DEF AnswerOK, OfEpoch, JobVersion
    <3> QED
      BY <2>1, <2>3, <3>1, <3>2 DEF NeverBack
  <2> QED
    BY <2>2, <2>3 DEF Brought
<1>3. ListKeeps
  BY DEF Brought, ListKeeps
<1> QED
  BY <1>2, <1>3

LEMMA PageForward ==
    ASSUME ControlInv, NEW q \in flight, Page(q)
    PROVE  NeverBack /\ ListKeeps
<1>0. ControlTypes /\ ViewOK
  BY DEF ControlInv
<1>1. window \in Controller
  BY <1>0 DEF ControlTypes
<1>2. CASE window' = window
  BY <1>2, StillForward
<1>3. CASE window' = Listed(window, q.got) /\ q.got \in Versions
  <2>1. window'.current = window.current /\ window'.forgotten = window.forgotten
    BY <1>1, <1>3, ListedIs
  <2>2. NeverBack
    <3>1. window.current # Nil => window.current.v.order \in Nat
      BY <1>1 DEF Controller, JobVersion
    <3> QED
      BY <2>1, <3>1 DEF NeverBack
  <2>3. \A j \in Jobs :
          window.known[j] # Nil /\ j \notin window.forgotten =>
             \/ q.got[j] # Nil /\ Older(window.known[j], q.got[j]) /\ window'.jobs[j] = q.got[j]
             \/ window'.jobs[j] = window.jobs[j]
    BY <1>1, <1>3, ListedIs
  <2>4. \A j \in Jobs : window.jobs[j] # Nil => window.jobs[j] \in JobVersion
    BY <1>1 DEF Controller, Versions, MaybeVersion
  <2>5. \A j \in Jobs : q.got[j] # Nil => q.got[j] \in JobVersion
    BY <1>3 DEF Versions, MaybeVersion
  <2>6. ASSUME NEW v \in JobVersion, NEW w \in JobVersion, Older(v, w) PROVE ~Older(w, v)
    BY <2>6 DEF Older, JobVersion
  <2>7. ASSUME NEW j \in Jobs, window.jobs[j] # Nil, window.known[j] # Nil, j \notin window'.forgotten
        PROVE  window'.jobs[j] # Nil /\ ~Older(window'.jobs[j], window.jobs[j])
    <3>1. window.known[j] = window.jobs[j] /\ window.jobs[j] \in JobVersion
      BY <1>0, <2>4, <2>7 DEF ViewOK
    <3>2. CASE window'.jobs[j] = window.jobs[j]
      BY <2>7, <3>1, <3>2, NeverOlder
    <3>3. CASE /\ q.got[j] # Nil /\ Older(window.known[j], q.got[j])
               /\ window'.jobs[j] = q.got[j]
      BY <2>5, <2>6, <3>1, <3>3
    <3> QED
      BY <2>1, <2>3, <2>7, <3>2, <3>3
  <2> QED
    BY <2>2, <2>7 DEF ListKeeps
<1>4. q.state = "ok" => q.got \in Versions
  <2>1. q \in ListRequest
    BY <1>0, RequestTypes DEF Page
  <2> QED
    BY <2>1 DEF ListRequest
<1> QED
  BY <1>2, <1>3, <1>4 DEF Page

LEMMA PollForward ==
    ASSUME ControlInv, NEW q \in flight, PollAnswer(q)
    PROVE  NeverBack /\ ListKeeps
<1>1. q.kind = "refresh" /\ OfEpoch(q) /\ q.token = window.epoch
  BY DEF PollAnswer, Current, OfEpoch
<1>2. PICK p : /\ p = IF q.state = "ok" /\ ~window.busy THEN Published(window, q.job, q.got) ELSE window
               /\ window' = [p EXCEPT !.refreshing = IF q.token = window.epoch THEN FALSE ELSE @]
  BY DEF PollAnswer
<1>3. Brought(p, q)
  BY <1>1, <1>2, PublishedIsBrought
<1>4. window'.current = p.current /\ window'.jobs = p.jobs
  BY <1>2, <1>3 DEF Brought, Controller
<1> QED
  BY <1>1, <1>3, <1>4, AnswerForward

LEMMA ResultForward ==
    ASSUME ControlInv, NEW q \in flight, Result(q)
    PROVE  NeverBack /\ ListKeeps
<1>1. q.kind # "list" /\ OfEpoch(q)
  BY DEF Result, Current, OfEpoch
<1>2. PICK p : p = IF q.state = "ok" /\ q.step # "control" THEN Published(window, q.job, q.got) ELSE window
  OBVIOUS
<1>3. Brought(p, q)
  BY <1>1, <1>2, PublishedIsBrought
<1>4. p \in Controller
  BY <1>3 DEF Brought
<1>5. PICK u : u = [p EXCEPT !.busy = FALSE]
  OBVIOUS
<1>6. u \in Controller /\ u.current = p.current /\ u.jobs = p.jobs
  BY <1>4, <1>5 DEF Controller
<1>7. \/ window' = p
      \/ window' = u
      \/ window' = [u EXCEPT !.listEpoch = @ + 1]
  BY <1>2, <1>5 DEF Result, WithList
<1>8. window'.current = p.current /\ window'.jobs = p.jobs
  BY <1>6, <1>7 DEF Controller
<1> QED
  BY <1>1, <1>3, <1>8, AnswerForward

\* In whatever order the answers arrive, the shown job moves only forward
\* through what the host made of it, and a listed job never goes back to a
\* version the window's clock can tell is older.
THEOREM ViewsMoveForward == ControlSpec => ViewMovesForward
<1>1. ControlInv /\ [ControlNext]_controlVars => [NeverBack /\ ListKeeps]_controlVars
  <2> SUFFICES ASSUME ControlInv, ControlNext PROVE NeverBack /\ ListKeeps
    BY DEF controlVars
  <2>0. window \in Controller
    BY DEF ControlInv, ControlTypes
  <2>1. CASE (\E j \in Jobs : Select(j) \/ Create(j)) \/ Resume \/ Relocate \/ Control
    <3>1. window' = Begun(window)
      BY <2>1, OperationsAre DEF Operation
    <3> QED
      BY <2>0, <3>1, BegunIs, StillForward
  <2>2. CASE \E j \in Jobs : Work(j) \/ Settle(j) \/ Delete(j)
    <3>1. window' = window
      BY <2>2 DEF Work, Settle, Delete
    <3> QED
      BY <3>1, StillForward
  <2>3. CASE \E j \in Jobs : Forget(j)
    <3>1. PICK j \in Jobs : window' = Forgotten(window, j)
      BY <2>3 DEF Forget
    <3>2. /\ window'.current \in {window.current, Nil}
          /\ window'.jobs = [window.jobs EXCEPT ![j] = Nil]
          /\ j \in window'.forgotten
      <4>1. /\ window'.forgotten = window.forgotten \cup {j}
            /\ window'.jobs = [window.jobs EXCEPT ![j] = Nil]
        BY <2>0, <3>1, ForgottenIs, ZenonT(40)
      <4>2. window'.current = Nil \/ window'.current = window.current
        BY <2>0, <3>1, ForgottenIs
      <4> QED
        BY <4>1, <4>2
    <3>3. \A i \in Jobs : i \notin window'.forgotten => window'.jobs[i] = window.jobs[i]
      BY <2>0, <3>2 DEF Controller, Versions
    <3> QED
      BY <3>2, <3>3, StillForward
  <2>4. CASE ClearSelection
    <3>1. PICK u : u = Begun(window)
      OBVIOUS
    <3>2. u \in Controller /\ u.jobs = window.jobs
      BY <2>0, <3>1, BegunIs
    <3>3. window' = [u EXCEPT !.current = Nil, !.busy = FALSE]
      BY <2>4, <3>1 DEF ClearSelection
    <3>4. window'.current = Nil /\ window'.jobs = window.jobs
      BY <3>2, <3>3 DEF Controller
    <3> QED
      BY <3>4, StillForward
  <2>5. CASE Refresh \/ List
    <3>1. window'.current = window.current /\ window'.jobs = window.jobs
      BY <2>0, <2>5 DEF Refresh, List, WithList, Controller
    <3> QED
      BY <3>1, StillForward
  <2>6. CASE \E q \in flight : ServeRequest(q)
    <3>1. window' = window
      BY <2>6 DEF ServeRequest
    <3> QED
      BY <3>1, StillForward
  <2>7. CASE \E q \in flight : Answer(q)
    <3>1. PICK q \in flight : Drop(q) \/ Page(q) \/ PollAnswer(q) \/ Result(q)
      BY <2>7 DEF Answer
    <3>2. CASE Drop(q)
      <4>1. window' = window
        BY <3>2 DEF Drop
      <4> QED
        BY <4>1, StillForward
    <3> QED
      BY <3>1, <3>2, PageForward, PollForward, ResultForward
  <2> QED
    BY <2>1, <2>2, <2>3, <2>4, <2>5, <2>6, <2>7 DEF ControlNext
<1> QED
  BY <1>1, ControlAlways, PTL DEF ControlSpec, ViewMovesForward

-----------------------------------------------------------------------------
(***************************************************************************)
(* ReviewSession: the edited review.                                       *)
(***************************************************************************)

\* What concerns some of the segments.
Partial(V) == UNION {[D -> V] : D \in SUBSET Segments}

\* What is known of a segment; a session, and the answer to a request.
KnownVersion == [decision : Decisions, revision : Nat]
SessionRecord == [id : Nat, known : [Segments -> KnownVersion]]

\* An operation that can be undone: what it replaced, and what it left.
HistoryEntry ==
    {e \in [before : Partial(KnownVersion), after : Partial(KnownVersion)] : DOMAIN e.before = DOMAIN e.after}

TaskRecord ==
    [kind : {"save", "refresh", "prepare"}, session : Nat, epoch : Nat, change : Partial(Decisions),
     expected : Partial(KnownVersion), undo : {None} \cup HistoryEntry, verify : BOOLEAN,
     at : {"queued", "asked", "answered"}, sent : {None} \cup Partial(Nat),
     answer : {None} \cup SessionRecord]

SavedVersion == [decision : Decisions, ours : BOOLEAN]

Editor ==
    [session : Nat, shown : [Segments -> Decisions], history : Seq(HistoryEntry), epoch : Nat,
     sources : Nat, busy : BOOLEAN, pending : {None} \cup TaskRecord, loading : BOOLEAN,
     loaded : {None} \cup SessionRecord]

\* The state of the module.
SessionTypes ==
    /\ store \in [Segments -> Seq(SavedVersion)]
    /\ bound \in Nat
    /\ session \in SessionRecord
    /\ queue \in Seq(TaskRecord)
    /\ checking \in SUBSET TaskRecord
    /\ ui \in Editor
    /\ count \in [operations : Nat, others : Nat, errors : Nat]

\* The operations of the present epoch, and the analyses of the present sources.
IsOp(t) == t.kind # "prepare" /\ OperationCurrent(t)
IsLoad(t) == t.kind = "prepare" /\ t.epoch = ui.sources

\* There is at most one of each, about which the window knows.
BusyOK ==
    /\ \A i, j \in DOMAIN queue : IsOp(queue[i]) /\ IsOp(queue[j]) => i = j
    /\ \A t, u \in checking : IsOp(t) /\ IsOp(u) => t = u
    /\ \A t \in checking, i \in DOMAIN queue : ~(IsOp(t) /\ IsOp(queue[i]))
    /\ ui.busy <=> (\E t \in UnderWay : IsOp(t))

LoadOK ==
    /\ \A i, j \in DOMAIN queue : IsLoad(queue[i]) /\ IsLoad(queue[j]) => i = j
    /\ ui.loaded # None => \A i \in DOMAIN queue : ~IsLoad(queue[i])
    /\ ui.loading <=> (ui.loaded # None \/ \E i \in DOMAIN queue : IsLoad(queue[i]))

\* Only the first task of the queue is under way.
QueueOK ==
    /\ \A i \in DOMAIN queue : i # 1 => queue[i].at = "queued"
    /\ \A t \in checking : t.at = "queued" /\ t.kind # "prepare"

\* A session is of an analysis the store was bound to.
IdsOK ==
    /\ session.id <= bound /\ ui.session <= session.id
    /\ ui.loaded # None => ui.session < ui.loaded.id
    /\ Len(ui.history) <= HistoryLimit

\* The saves between what an operation replaced and what it left are the window's.
OursBetween(e) ==
    \A s \in DOMAIN e.after :
        /\ e.after[s].revision <= Revision(s)
        /\ \A n \in e.before[s].revision + 1 .. e.after[s].revision : store[s][n].ours

\* A task concerns what it expects, and is no later than the window.
TaskOK(t) ==
    /\ DOMAIN t.change = DOMAIN t.expected
    /\ t.kind # "save" => DOMAIN t.change = {} /\ t.undo = None
    /\ t.undo # None => t.expected = t.undo.after /\ OursBetween(t.undo)
    /\ t.kind = "prepare" => t.epoch <= ui.sources
    /\ t.kind # "prepare" =>
         /\ t.session <= ui.session /\ t.epoch <= ui.epoch
         /\ ui.sources = 0 /\ t.session = ui.session => t.epoch = ui.epoch

\* What is known of a segment was saved.
Committed(k, s) ==
    /\ k.revision <= Revision(s)
    /\ k.decision = IF k.revision = 0 THEN Default ELSE store[s][k.revision].decision

\* A save is sent with what it expects, ...
AskedOK(t) ==
    t.at = "asked" /\ t.kind = "save" =>
        \A s \in DOMAIN t.change : t.sent[s] = t.expected[s].revision /\ Committed(t.expected[s], s)

\* ... and its answer tells of the version that replaced it.
ReplyOK(t) ==
    t.at = "answered" /\ t.answer # None =>
        /\ t.answer.id = bound
        /\ t.kind = "prepare" => session.id < bound
        /\ \A s \in Segments : Committed(t.answer.known[s], s)
        /\ t.kind = "save" =>
             \A s \in DOMAIN t.change :
                 /\ t.answer.known[s].decision = t.change[s]
                 /\ t.answer.known[s].revision = t.expected[s].revision + 1
                 /\ store[s][t.answer.known[s].revision].ours

\* An operation that was not saved is tried again, or given up.
PendingOK ==
    ui.pending # None =>
        /\ ui.pending.kind = "save" /\ ui.pending.at = "queued"
        /\ OperationCurrent(ui.pending) /\ TaskOK(ui.pending)
        /\ \A t \in UnderWay : IsOp(t) /\ t.kind = "save" => t.change = ui.pending.change

\* The segments of which the window may show more than is saved.
Open(s) ==
    \/ ui.pending # None /\ s \in DOMAIN ui.pending.change
    \/ \E t \in UnderWay : IsOp(t) /\ s \in DOMAIN t.change

ShownOK ==
    ui.sources = 0 /\ ui.session = session.id =>
        \A s \in Segments : Open(s) \/ ui.shown[s] = session.known[s].decision

SessionInv ==
    /\ SessionTypes /\ BusyOK /\ LoadOK /\ QueueOK /\ IdsOK /\ PendingOK /\ ShownOK
    /\ KnownIsCommitted
    /\ \A t \in UnderWay : TaskOK(t)
    /\ queue # << >> => AskedOK(queue[1]) /\ ReplyOK(queue[1])
    /\ \A i \in DOMAIN ui.history : OursBetween(ui.history[i])

-----------------------------------------------------------------------------
(* What the operators of the module return.                                *)

LEMMA NoneIsNothing ==
    /\ \A t \in TaskRecord : t # None
    /\ \A r \in SessionRecord : r # None
    /\ \A e \in HistoryEntry : e # None
<1>1. DOMAIN None = {"none"}  BY DEF None
<1>2. \A t \in TaskRecord : "kind" \in DOMAIN t  BY DEF TaskRecord
<1>3. \A r \in SessionRecord : "id" \in DOMAIN r  BY DEF SessionRecord
<1>4. \A e \in HistoryEntry : "before" \in DOMAIN e  BY DEF HistoryEntry
<1> QED  BY <1>1, <1>2, <1>3, <1>4

LEMMA PartialIs ==
    ASSUME NEW V, NEW f \in Partial(V)
    PROVE  DOMAIN f \subseteq Segments /\ \A s \in DOMAIN f : f[s] \in V
<1>1. PICK D \in SUBSET Segments : f \in [D -> V]
  BY DEF Partial
<1> QED
  BY <1>1

LEMMA PartialHas ==
    ASSUME NEW V, NEW D \in SUBSET Segments, NEW f \in [D -> V]
    PROVE  f \in Partial(V)
BY DEF Partial

LEMMA NothingIsPartial ==
    ASSUME NEW V
    PROVE  << >> \in Partial(V) /\ DOMAIN << >> = {}
<1>1. << >> \in [{} -> V]
  OBVIOUS
<1> QED
  BY <1>1, PartialHas

LEMMA TaskIs ==
    ASSUME SessionTypes, NEW kind \in {"save", "refresh", "prepare"}, NEW change \in Partial(Decisions),
           NEW expected \in Partial(KnownVersion), NEW undo \in {None} \cup HistoryEntry
    PROVE  LET t == Task(kind, change, expected, undo)
           IN  /\ t \in TaskRecord
               /\ t.kind = kind /\ t.session = ui.session /\ t.epoch = ui.epoch /\ t.change = change
               /\ t.expected = expected /\ t.undo = undo /\ t.at = "queued" /\ t.answer = None
<1>1. (undo # None) \in BOOLEAN
  OBVIOUS
<1>2. ui.session \in Nat /\ ui.epoch \in Nat
  BY DEF SessionTypes, Editor
<1> QED
  BY <1>1, <1>2 DEF Task, TaskRecord

LEMMA AnewIs ==
    ASSUME NEW t \in TaskRecord
    PROVE  /\ Anew(t) \in TaskRecord /\ Anew(t).at = "queued"
           /\ Anew(t).kind = t.kind /\ Anew(t).session = t.session /\ Anew(t).epoch = t.epoch
           /\ Anew(t).change = t.change /\ Anew(t).expected = t.expected /\ Anew(t).undo = t.undo
BY DEF Anew, TaskRecord

LEMMA LearnedIs ==
    ASSUME SessionTypes, NEW t \in TaskRecord
    PROVE  /\ Learned(t) \in SessionRecord /\ Learned(t).id = session.id
           /\ \A s \in Segments :
                Learned(t).known[s] = IF t.answer # None /\ (s \in DOMAIN t.change \/ t.kind = "refresh")
                                      THEN t.answer.known[s] ELSE session.known[s]
<1>1. session \in SessionRecord /\ t.answer \in {None} \cup SessionRecord
  BY DEF SessionTypes, TaskRecord
<1> DEFINE known == [s \in Segments |->
        IF t.answer # None /\ (s \in DOMAIN t.change \/ t.kind = "refresh")
        THEN t.answer.known[s] ELSE session.known[s]]
<1>2. Learned(t) = [session EXCEPT !.known = known]
  BY DEF Learned
<1>3. known \in [Segments -> KnownVersion]
  BY <1>1 DEF SessionRecord
<1>4. \A s \in Segments : known[s] = IF t.answer # None /\ (s \in DOMAIN t.change \/ t.kind = "refresh")
                                     THEN t.answer.known[s] ELSE session.known[s]
  OBVIOUS
<1> HIDE DEF known
<1> QED
  BY <1>1, <1>2, <1>3, <1>4 DEF SessionRecord

LEMMA UndoneIs ==
    ASSUME SessionTypes, NEW t \in TaskRecord
    PROVE  LET u == Undone(ui, t)
           IN  /\ u \in Editor
               /\ u.session = ui.session /\ u.epoch = ui.epoch /\ u.sources = ui.sources
               /\ u.shown = ui.shown /\ u.history = ui.history
               /\ u.loading = ui.loading /\ u.loaded = ui.loaded
               /\ ~OperationCurrent(t) => u = ui
               /\ OperationCurrent(t) => ~u.busy
               /\ OperationCurrent(t) /\ t.kind = "save" => u.pending = Anew(t)
               /\ OperationCurrent(t) /\ t.kind # "save" => u.pending = ui.pending
<1>1. ui \in Editor
  BY DEF SessionTypes
<1>2. CASE ~OperationCurrent(t)
  BY <1>1, <1>2 DEF Undone
<1>3. CASE OperationCurrent(t)
  <2>1. PICK a : a = [ui EXCEPT !.pending = IF t.kind = "save" THEN Anew(t) ELSE @]
    OBVIOUS
  <2>2. PICK b : b = [a EXCEPT !.busy = FALSE]
    OBVIOUS
  <2>3. /\ a \in Editor
        /\ a.session = ui.session /\ a.epoch = ui.epoch /\ a.sources = ui.sources
        /\ a.shown = ui.shown /\ a.history = ui.history /\ a.busy = ui.busy
        /\ a.loading = ui.loading /\ a.loaded = ui.loaded
        /\ a.pending = IF t.kind = "save" THEN Anew(t) ELSE ui.pending
    BY <1>1, <2>1, AnewIs DEF Editor
  <2>4. /\ b \in Editor
        /\ b.session = a.session /\ b.epoch = a.epoch /\ b.sources = a.sources
        /\ b.shown = a.shown /\ b.history = a.history /\ ~b.busy
        /\ b.loading = a.loading /\ b.loaded = a.loaded /\ b.pending = a.pending
    BY <2>2, <2>3 DEF Editor
  <2>5. Undone(ui, t) = b
    <3>1. Undone(ui, t) = [[ui EXCEPT !.busy = FALSE] EXCEPT !.pending = IF t.kind = "save" THEN Anew(t) ELSE @]
      BY <1>3 DEF Undone
    <3> QED
      BY <1>1, <2>1, <2>2, <3>1 DEF Editor
  <2> QED
    BY <1>3, <2>3, <2>4, <2>5
<1> QED
  BY <1>2, <1>3

-----------------------------------------------------------------------------
(* The queue.                                                              *)

LEMMA QueueAppend ==
    ASSUME NEW q \in Seq(TaskRecord), NEW t \in TaskRecord, NEW r, r = Append(q, t)
    PROVE  /\ r \in Seq(TaskRecord) /\ r # << >>
           /\ DOMAIN r = DOMAIN q \cup {Len(q) + 1} /\ Len(q) + 1 \notin DOMAIN q
           /\ \A i \in DOMAIN q : r[i] = q[i]
           /\ r[Len(q) + 1] = t
           /\ q # << >> => 1 \in DOMAIN q
           /\ q = << >> => r[1] = t /\ Len(q) + 1 = 1
<1>1. Len(q) \in Nat /\ DOMAIN q = 1 .. Len(q)
  OBVIOUS
<1>2. Len(r) = Len(q) + 1 /\ r \in Seq(TaskRecord) /\ DOMAIN r = 1 .. Len(q) + 1
  OBVIOUS
<1>3. (\A i \in 1 .. Len(q) : r[i] = q[i]) /\ r[Len(q) + 1] = t
  OBVIOUS
<1>4. q # << >> => Len(q) >= 1
  OBVIOUS
<1>5. q = << >> => Len(q) = 0
  OBVIOUS
<1> QED
  BY <1>1, <1>2, <1>3, <1>4, <1>5

LEMMA QueueTail ==
    ASSUME NEW q \in Seq(TaskRecord), q # << >>, NEW r, r = Tail(q)
    PROVE  /\ r \in Seq(TaskRecord)
           /\ Head(q) = q[1] /\ 1 \in DOMAIN q
           /\ \A i \in DOMAIN r : i + 1 \in DOMAIN q /\ i + 1 # 1 /\ r[i] = q[i + 1] /\ i \in Nat
           /\ \A i \in DOMAIN q : i = 1 \/ (i - 1 \in DOMAIN r /\ r[i - 1] = q[i])
           /\ r # << >> => 1 \in DOMAIN r
<1>1. Len(q) \in Nat /\ DOMAIN q = 1 .. Len(q) /\ Len(q) >= 1 /\ Head(q) = q[1]
  OBVIOUS
<1>2. r \in Seq(TaskRecord) /\ Len(r) = Len(q) - 1 /\ DOMAIN r = 1 .. Len(q) - 1
  OBVIOUS
<1>3. \A i \in 1 .. Len(q) - 1 : r[i] = q[i + 1]
  OBVIOUS
<1>4. r # << >> => Len(r) >= 1
  BY <1>2
<1>5. \A i \in DOMAIN q : i = 1 \/ (i - 1 \in DOMAIN r /\ r[i - 1] = q[i])
  BY <1>1, <1>2, <1>3
<1> QED
  BY <1>1, <1>2, <1>3, <1>4, <1>5

LEMMA QueueHead ==
    ASSUME NEW q \in Seq(TaskRecord), q # << >>, NEW t \in TaskRecord, NEW r, r = <<t>> \o Tail(q)
    PROVE  /\ r \in Seq(TaskRecord) /\ r # << >>
           /\ Head(q) = q[1] /\ 1 \in DOMAIN q
           /\ DOMAIN r = DOMAIN q
           /\ r[1] = t
           /\ \A i \in DOMAIN q : i # 1 => r[i] = q[i]
<1>1. Len(q) \in Nat /\ DOMAIN q = 1 .. Len(q) /\ Len(q) >= 1 /\ Head(q) = q[1]
  OBVIOUS
<1>2. Tail(q) \in Seq(TaskRecord) /\ Len(Tail(q)) = Len(q) - 1 /\ <<t>> \in Seq(TaskRecord) /\ Len(<<t>>) = 1
  OBVIOUS
<1>3. r \in Seq(TaskRecord) /\ Len(r) = Len(q) /\ DOMAIN r = 1 .. Len(q)
  BY <1>1, <1>2
<1>4. r[1] = t
  BY <1>1, <1>2
<1>5. \A i \in 2 .. Len(q) : r[i] = Tail(q)[i - 1] /\ Tail(q)[i - 1] = q[i]
  BY <1>1, <1>2
<1> QED
  BY <1>1, <1>3, <1>4, <1>5

-----------------------------------------------------------------------------
(* The steps of ReviewSession keep its invariant.                          *)

LEMMA StoreStays ==
    ASSUME UNCHANGED store
    PROVE  /\ \A e : OursBetween(e)' <=> OursBetween(e)
           /\ \A k, s : Committed(k, s)' <=> Committed(k, s)
BY DEF OursBetween, Committed, Revision

\* The window is at the same place: what is current stays so.
LEMMA WindowStays ==
    ASSUME UNCHANGED store, ui'.session = ui.session, ui'.epoch = ui.epoch, ui'.sources = ui.sources
    PROVE  /\ \A t : IsOp(t)' <=> IsOp(t)
           /\ \A t : OperationCurrent(t)' <=> OperationCurrent(t)
           /\ \A t : IsLoad(t)' <=> IsLoad(t)
           /\ \A t : TaskOK(t)' <=> TaskOK(t)
<1>1. \A e : OursBetween(e)' <=> OursBetween(e)
  BY StoreStays
<1> QED
  BY <1>1 DEF IsOp, OperationCurrent, IsLoad, TaskOK

\* The invariant of a window that stays at its place, in terms of its tasks.
LEMMA BusyStays ==
    ASSUME ui'.session = ui.session, ui'.epoch = ui.epoch,
           \A i, j \in DOMAIN queue' : IsOp(queue'[i]) /\ IsOp(queue'[j]) => i = j,
           \A t, u \in checking' : IsOp(t) /\ IsOp(u) => t = u,
           \A t \in checking', i \in DOMAIN queue' : ~(IsOp(t) /\ IsOp(queue'[i])),
           ui'.busy <=> (\E t \in UnderWay' : IsOp(t))
    PROVE  BusyOK'
BY DEF BusyOK, IsOp, OperationCurrent

LEMMA LoadStays ==
    ASSUME ui'.sources = ui.sources,
           \A i, j \in DOMAIN queue' : IsLoad(queue'[i]) /\ IsLoad(queue'[j]) => i = j,
           ui'.loaded # None => \A i \in DOMAIN queue' : ~IsLoad(queue'[i]),
           ui'.loading <=> (ui'.loaded # None \/ \E i \in DOMAIN queue' : IsLoad(queue'[i]))
    PROVE  LoadOK'
BY DEF LoadOK, IsLoad

\* An idle window starts an operation.
LEMMA StartStep ==
    ASSUME SessionInv, SessionTypes', UNCHANGED <<store, bound, session>>, ~ui.busy,
           NEW t \in TaskRecord, IsOp(t), t.at = "queued", TaskOK(t),
           \/ queue' = Append(queue, t) /\ checking' = checking
           \/ checking' = checking \cup {t} /\ queue' = queue,
           ui'.session = ui.session, ui'.epoch = ui.epoch, ui'.sources = ui.sources, ui'.busy,
           ui'.history = ui.history, ui'.pending = ui.pending,
           ui'.loading <=> ui.loading, ui'.loaded = ui.loaded,
           \A s \in Segments : s \notin DOMAIN t.change => ui'.shown[s] = ui.shown[s],
           ui.pending # None /\ t.kind = "save" => t.change = ui.pending.change
    PROVE  SessionInv'
<1>0. /\ SessionTypes /\ BusyOK /\ LoadOK /\ QueueOK /\ IdsOK /\ PendingOK /\ ShownOK
      /\ KnownIsCommitted
      /\ \A u \in UnderWay : TaskOK(u)
      /\ queue # << >> => AskedOK(queue[1]) /\ ReplyOK(queue[1])
      /\ \A i \in DOMAIN ui.history : OursBetween(ui.history[i])
  BY DEF SessionInv
<1>1. queue \in Seq(TaskRecord) /\ checking \subseteq TaskRecord
  BY <1>0 DEF SessionTypes
<1>2. /\ \A u : IsOp(u)' <=> IsOp(u)
      /\ \A u : OperationCurrent(u)' <=> OperationCurrent(u)
      /\ \A u : IsLoad(u)' <=> IsLoad(u)
      /\ \A u : TaskOK(u)' <=> TaskOK(u)
  BY WindowStays
<1>3. /\ \A e : OursBetween(e)' <=> OursBetween(e)
      /\ \A k, s : Committed(k, s)' <=> Committed(k, s)
  BY StoreStays
<1>4. PICK added \in BOOLEAN :
        /\ added => /\ DOMAIN queue' = DOMAIN queue \cup {Len(queue) + 1}
                    /\ Len(queue) + 1 \notin DOMAIN queue /\ queue'[Len(queue) + 1] = t
                    /\ checking' = checking
        /\ ~added => DOMAIN queue' = DOMAIN queue /\ checking' = checking \cup {t}
        /\ \A i \in DOMAIN queue : queue'[i] = queue[i]
        /\ queue' # << >> => (queue # << >> /\ queue'[1] = queue[1]) \/ queue'[1] = t
  <2>1. CASE queue' = Append(queue, t) /\ checking' = checking
    <3>1. /\ DOMAIN queue' = DOMAIN queue \cup {Len(queue) + 1} /\ Len(queue) + 1 \notin DOMAIN queue
          /\ \A i \in DOMAIN queue : queue'[i] = queue[i]
          /\ queue'[Len(queue) + 1] = t
          /\ queue # << >> => 1 \in DOMAIN queue
          /\ queue = << >> => queue'[1] = t
      BY <1>1, <2>1, QueueAppend
    <3> WITNESS TRUE \in BOOLEAN
    <3> QED
      BY <2>1, <3>1
  <2>2. CASE checking' = checking \cup {t} /\ queue' = queue
    <3> WITNESS FALSE \in BOOLEAN
    <3> QED
      BY <2>2
  <2> QED
    BY <2>1, <2>2
<1>5. \A u : u \in UnderWay' <=> (u \in UnderWay \/ u = t)
  BY <1>4 DEF UnderWay
<1>6. \A u \in UnderWay : ~IsOp(u)
  BY <1>0 DEF BusyOK
<1>7. (\A i \in DOMAIN queue : ~IsOp(queue[i])) /\ (\A u \in checking : ~IsOp(u))
  BY <1>6 DEF UnderWay
<1>8. BusyOK'
  <2>1. \A i \in DOMAIN queue' : IsOp(queue'[i]) => added /\ i = Len(queue) + 1
    BY <1>4, <1>7
  <2>2. \A u \in checking' : IsOp(u) => u = t /\ ~added
    BY <1>4, <1>7
  <2>3. \A i, j \in DOMAIN queue' : IsOp(queue'[i]) /\ IsOp(queue'[j]) => i = j
    BY <1>4, <2>1
  <2>4. \E u \in UnderWay' : IsOp(u)
    BY <1>5
  <2>5. \A u \in checking', i \in DOMAIN queue' : ~(IsOp(u) /\ IsOp(queue'[i]))
    BY <2>1, <2>2
  <2> QED
    BY <2>2, <2>3, <2>4, <2>5, BusyStays
<1>9. LoadOK'
  <2>1. ~IsLoad(t)
    BY DEF IsLoad, IsOp
  <2>2. \A i \in DOMAIN queue' : IsLoad(queue'[i]) <=> (i \in DOMAIN queue /\ IsLoad(queue[i]))
    BY <1>4, <2>1
  <2>3. DOMAIN queue \subseteq DOMAIN queue'
    BY <1>4
  <2> QED
    BY <1>0, <2>2, <2>3, LoadStays DEF LoadOK
<1>10. QueueOK'
  <2>1. t.kind # "prepare"
    BY DEF IsOp
  <2> QED
    BY <1>0, <1>4, <2>1 DEF QueueOK
<1>11. IdsOK'
  BY <1>0 DEF IdsOK
<1>12. PendingOK'
  BY <1>0, <1>2, <1>5, <1>6 DEF PendingOK
<1>13. ShownOK'
  <2>1. ASSUME NEW s \in Segments, ~Open(s)'
        PROVE  ~Open(s) /\ s \notin DOMAIN t.change
    BY <1>2, <1>5, <2>1 DEF Open
  <2> QED
    BY <1>0, <2>1 DEF ShownOK
<1>14. KnownIsCommitted'
  BY <1>0 DEF KnownIsCommitted, Revision
<1>15. \A u \in UnderWay' : TaskOK(u)'
  BY <1>0, <1>2, <1>5
<1>16. (queue # << >> => AskedOK(queue[1]) /\ ReplyOK(queue[1]))'
  <2>1. AskedOK(t) /\ ReplyOK(t)
    BY DEF AskedOK, ReplyOK
  <2>2. queue' # << >> => AskedOK(queue'[1]) /\ ReplyOK(queue'[1])
    BY <1>0, <1>4, <2>1
  <2> QED
    BY <2>2 DEF AskedOK, ReplyOK, Committed, Revision
<1>17. (\A i \in DOMAIN ui.history : OursBetween(ui.history[i]))'
  BY <1>0 DEF OursBetween, Revision
<1> QED
  BY <1>8, <1>9, <1>10, <1>11, <1>12, <1>13, <1>14, <1>15, <1>16, <1>17 DEF SessionInv

\* A task ends, at the head of the queue or among the checked ones.
Ends(t) ==
    \/ queue # << >> /\ t = queue[1] /\ queue' = Tail(queue) /\ checking' = checking
    \/ t \in checking /\ checking' = checking \ {t} /\ queue' = queue /\ session' = session

LEMMA EndStep ==
    ASSUME SessionInv, UNCHANGED <<store, bound>>, NEW t, Ends(t),
           ui'.session = ui.session, ui'.epoch = ui.epoch, ui'.sources = ui.sources,
           IsOp(t) => ~ui'.busy, ~IsOp(t) => (ui'.busy <=> ui.busy),
           IsLoad(t) => (ui'.loading <=> ui'.loaded # None),
           ~IsLoad(t) => (ui'.loading <=> ui.loading) /\ ui'.loaded = ui.loaded
    PROVE  /\ BusyOK' /\ LoadOK' /\ QueueOK'
           /\ (\A u \in UnderWay : TaskOK(u))'
           /\ (queue # << >> => AskedOK(queue[1]) /\ ReplyOK(queue[1]))'
           /\ UnderWay' \subseteq UnderWay /\ t \in UnderWay
           /\ IsOp(t) => \A u \in UnderWay' : ~IsOp(u)
           /\ \A u \in UnderWay \ UnderWay' : u = t
<1>0. /\ SessionTypes /\ BusyOK /\ LoadOK /\ QueueOK
      /\ \A u \in UnderWay : TaskOK(u)
      /\ queue # << >> => AskedOK(queue[1]) /\ ReplyOK(queue[1])
  BY DEF SessionInv
<1>1. queue \in Seq(TaskRecord) /\ checking \subseteq TaskRecord
  BY <1>0 DEF SessionTypes
<1>2. \A u : TaskOK(u)' <=> TaskOK(u)
  BY WindowStays
<1>3. CASE queue # << >> /\ t = queue[1] /\ queue' = Tail(queue) /\ checking' = checking
  <2>1. /\ 1 \in DOMAIN queue
        /\ \A i \in DOMAIN queue' : i + 1 \in DOMAIN queue /\ i + 1 # 1 /\ queue'[i] = queue[i + 1] /\ i \in Nat
        /\ \A i \in DOMAIN queue : i = 1 \/ (i - 1 \in DOMAIN queue' /\ queue'[i - 1] = queue[i])
        /\ queue' # << >> => 1 \in DOMAIN queue'
    BY <1>1, <1>3, QueueTail
  <2>2. /\ UnderWay' \subseteq UnderWay /\ t \in UnderWay
        /\ \A u \in UnderWay \ UnderWay' : u = t
    <3>1. UnderWay' = checking \cup {queue'[i] : i \in DOMAIN queue'}
      BY <1>3 DEF UnderWay
    <3>2. UnderWay = checking \cup {queue[i] : i \in DOMAIN queue}
      BY DEF UnderWay
    <3>3. \A i \in DOMAIN queue' : queue'[i] \in UnderWay
      BY <2>1, <3>2
    <3>4. \A i \in DOMAIN queue : queue[i] = t \/ queue[i] \in UnderWay'
      BY <1>3, <2>1, <3>1
    <3> QED
      BY <1>3, <2>1, <3>1, <3>2, <3>3, <3>4
  <2>3. IsOp(t) => \A u \in UnderWay' : ~IsOp(u)
    <3>1. ASSUME IsOp(t), NEW i \in DOMAIN queue', IsOp(queue'[i]) PROVE FALSE
      BY <1>0, <1>3, <2>1, <3>1 DEF BusyOK
    <3>2. ASSUME IsOp(t), NEW u \in checking, IsOp(u) PROVE FALSE
      BY <1>0, <1>3, <2>1, <3>2 DEF BusyOK
    <3> QED
      BY <1>3, <3>1, <3>2 DEF UnderWay
  <2>4. BusyOK'
    <3>1. \A i, j \in DOMAIN queue' : IsOp(queue'[i]) /\ IsOp(queue'[j]) => i = j
      <4>1. ASSUME NEW i \in DOMAIN queue', NEW j \in DOMAIN queue', IsOp(queue'[i]), IsOp(queue'[j])
            PROVE  i = j
        <5>1. i + 1 = j + 1
          BY <1>0, <2>1, <4>1 DEF BusyOK
        <5> QED
          BY <2>1, <5>1
      <4> QED
        BY <4>1
    <3>2. \A u, v \in checking' : IsOp(u) /\ IsOp(v) => u = v
      BY <1>0, <1>3 DEF BusyOK
    <3>3. \A u \in checking', i \in DOMAIN queue' : ~(IsOp(u) /\ IsOp(queue'[i]))
      BY <1>0, <1>3, <2>1 DEF BusyOK
    <3>4. ui'.busy <=> (\E u \in UnderWay' : IsOp(u))
      BY <1>0, <2>2, <2>3 DEF BusyOK
    <3> QED
      BY <3>1, <3>2, <3>3, <3>4, BusyStays
  <2>5. LoadOK'
    <3>1. \A i, j \in DOMAIN queue' : IsLoad(queue'[i]) /\ IsLoad(queue'[j]) => i = j
      <4>1. ASSUME NEW i \in DOMAIN queue', NEW j \in DOMAIN queue', IsLoad(queue'[i]), IsLoad(queue'[j])
            PROVE  i = j
        <5>1. i + 1 = j + 1
          BY <1>0, <2>1, <4>1 DEF LoadOK
        <5> QED
          BY <2>1, <5>1
      <4> QED
        BY <4>1
    <3>2. CASE IsLoad(t)
      <4>1. \A i \in DOMAIN queue' : ~IsLoad(queue'[i])
        BY <1>0, <1>3, <2>1, <3>2 DEF LoadOK
      <4> QED
        BY <3>2, <4>1, LoadStays
    <3>3. CASE ~IsLoad(t)
      <4>1. (\E i \in DOMAIN queue' : IsLoad(queue'[i])) <=> (\E i \in DOMAIN queue : IsLoad(queue[i]))
        BY <1>3, <2>1, <3>3
      <4> QED
        BY <1>0, <3>1, <3>3, <4>1, LoadStays DEF LoadOK
    <3> QED
      BY <3>2, <3>3
  <2>6. QueueOK'
    BY <1>0, <1>3, <2>1 DEF QueueOK
  <2>7. queue' # << >> => queue'[1].at = "queued"
    BY <1>0, <2>1, ZenonT(40) DEF QueueOK
  <2>8. (queue # << >> => AskedOK(queue[1]) /\ ReplyOK(queue[1]))'
    BY <2>7 DEF AskedOK, ReplyOK
  <2>9. (\A u \in UnderWay : TaskOK(u))'
    BY <1>0, <1>2, <2>2
  <2> QED
    BY <2>2, <2>3, <2>4, <2>5, <2>6, <2>8, <2>9
<1>4. CASE t \in checking /\ checking' = checking \ {t} /\ queue' = queue /\ session' = session
  <2>1. /\ UnderWay' \subseteq UnderWay /\ t \in UnderWay
        /\ \A u \in UnderWay \ UnderWay' : u = t
    BY <1>4 DEF UnderWay
  <2>2. IsOp(t) => \A u \in UnderWay' : ~IsOp(u)
    BY <1>0, <1>4 DEF UnderWay, BusyOK
  <2>3. BusyOK'
    <3>1. ui'.busy <=> (\E u \in UnderWay' : IsOp(u))
      BY <1>0, <2>1, <2>2 DEF BusyOK
    <3> QED
      BY <1>0, <1>4, <3>1, BusyStays DEF BusyOK
  <2>4. ~IsLoad(t)
    BY <1>0, <1>4 DEF QueueOK, IsLoad
  <2>5. LoadOK'
    BY <1>0, <1>4, <2>4, LoadStays DEF LoadOK
  <2>6. QueueOK'
    BY <1>0, <1>4 DEF QueueOK
  <2>7. (queue # << >> => AskedOK(queue[1]) /\ ReplyOK(queue[1]))'
    BY <1>0, <1>4 DEF AskedOK, ReplyOK, Committed, Revision
  <2>8. (\A u \in UnderWay : TaskOK(u))'
    BY <1>0, <1>2, <2>1
  <2> QED
    BY <2>1, <2>2, <2>3, <2>5, <2>6, <2>7, <2>8
<1> QED
  BY <1>3, <1>4 DEF Ends

\* A task that could not be done.
LEMMA UndoneStep ==
    ASSUME SessionInv, UNCHANGED <<store, bound>>, NEW t, Ends(t), t.kind # "prepare",
           ui' = Undone(ui, t), count' \in [operations : Nat, others : Nat, errors : Nat],
           \/ session' = session
           \/ /\ t.kind = "save" /\ t.session = session.id /\ session' = Learned(t)
              /\ t.at = "answered" /\ ReplyOK(t)
    PROVE  SessionInv'
<1>0. /\ SessionTypes /\ BusyOK /\ LoadOK /\ QueueOK /\ IdsOK /\ PendingOK /\ ShownOK
      /\ KnownIsCommitted
      /\ \A u \in UnderWay : TaskOK(u)
      /\ \A i \in DOMAIN ui.history : OursBetween(ui.history[i])
  BY DEF SessionInv
<1>1. queue \in Seq(TaskRecord) /\ checking \subseteq TaskRecord /\ session \in SessionRecord
  BY <1>0 DEF SessionTypes
<1>2. t \in TaskRecord
  BY <1>1, QueueTail DEF Ends
<1>3. /\ ui' \in Editor
      /\ ui'.session = ui.session /\ ui'.epoch = ui.epoch /\ ui'.sources = ui.sources
      /\ ui'.shown = ui.shown /\ ui'.history = ui.history
      /\ ui'.loading = ui.loading /\ ui'.loaded = ui.loaded
      /\ ~OperationCurrent(t) => ui' = ui
      /\ OperationCurrent(t) => ~ui'.busy
      /\ OperationCurrent(t) /\ t.kind = "save" => ui'.pending = Anew(t)
      /\ OperationCurrent(t) /\ t.kind # "save" => ui'.pending = ui.pending
  BY <1>0, <1>2, UndoneIs
<1>4. IsOp(t) <=> OperationCurrent(t)
  BY DEF IsOp
<1>5. ~IsLoad(t)
  BY DEF IsLoad
<1>6. /\ BusyOK' /\ LoadOK' /\ QueueOK'
      /\ (\A u \in UnderWay : TaskOK(u))'
      /\ (queue # << >> => AskedOK(queue[1]) /\ ReplyOK(queue[1]))'
      /\ UnderWay' \subseteq UnderWay /\ t \in UnderWay
      /\ IsOp(t) => \A u \in UnderWay' : ~IsOp(u)
      /\ \A u \in UnderWay \ UnderWay' : u = t
  BY <1>3, <1>4, <1>5, EndStep
<1>7. /\ Learned(t) \in SessionRecord /\ Learned(t).id = session.id
      /\ \A s \in Segments :
           Learned(t).known[s] = IF t.answer # None /\ (s \in DOMAIN t.change \/ t.kind = "refresh")
                                 THEN t.answer.known[s] ELSE session.known[s]
  BY <1>0, <1>2, LearnedIs
<1>8. SessionTypes'
  <2>1. queue' \in Seq(TaskRecord) /\ checking' \subseteq TaskRecord
    BY <1>1, QueueTail DEF Ends
  <2> QED
    BY <1>0, <1>1, <1>3, <1>7, <2>1 DEF SessionTypes
<1>9. IdsOK'
  BY <1>0, <1>3, <1>7 DEF IdsOK
<1>10. KnownIsCommitted'
  <2>1. \A s \in Segments : Committed(session.known[s], s)
    BY <1>0 DEF KnownIsCommitted, Committed
  <2>2. \A s \in Segments : Committed(session'.known[s], s)
    <3>1. CASE session' = session
      BY <2>1, <3>1
    <3>2. CASE session' = Learned(t) /\ t.at = "answered" /\ ReplyOK(t)
      BY <1>7, <2>1, <3>2 DEF ReplyOK
    <3> QED
      BY <3>1, <3>2
  <2> QED
    BY <2>2 DEF KnownIsCommitted, Committed, Revision
<1>11. (\A i \in DOMAIN ui.history : OursBetween(ui.history[i]))'
  BY <1>0, <1>3 DEF OursBetween, Revision
<1>12. \A u : TaskOK(u)' <=> TaskOK(u)
  BY <1>3, WindowStays
<1>13. PendingOK'
  <2>1. CASE OperationCurrent(t) /\ t.kind = "save"
    <3>1. PICK p : p = Anew(t)
      OBVIOUS
    <3>2. /\ ui'.pending = p
          /\ p.at = "queued" /\ p.kind = t.kind /\ p.session = t.session /\ p.epoch = t.epoch
          /\ p.change = t.change /\ p.expected = t.expected /\ p.undo = t.undo
      BY <1>2, <1>3, <2>1, <3>1, AnewIs
    <3>3. TaskOK(p)
      BY <1>0, <1>6, <3>2 DEF TaskOK
    <3>4. OperationCurrent(p) /\ p.kind = "save"
      BY <2>1, <3>2 DEF OperationCurrent
    <3>5. TaskOK(p)' /\ OperationCurrent(p)'
      BY <1>3, <1>12, <3>3, <3>4 DEF OperationCurrent
    <3>6. \A u \in UnderWay' : ~IsOp(u)'
      BY <1>3, <1>4, <1>6, <2>1 DEF IsOp, OperationCurrent
    <3>7. TaskOK(ui.pending)' /\ OperationCurrent(ui.pending)'
      BY <3>2, <3>5 DEF TaskOK, OperationCurrent, OursBetween, Revision
    <3> QED
      BY <3>2, <3>4, <3>6, <3>7 DEF PendingOK
  <2>2. CASE ~(OperationCurrent(t) /\ t.kind = "save")
    <3>1. ui'.pending = ui.pending
      BY <1>3, <2>2
    <3>2. \A u \in UnderWay' : IsOp(u)' => IsOp(u) /\ u \in UnderWay
      BY <1>3, <1>6 DEF IsOp, OperationCurrent
    <3>3. ui.pending # None => TaskOK(ui.pending)' /\ OperationCurrent(ui.pending)'
      BY <1>0, <1>3, <3>1 DEF PendingOK, TaskOK, OperationCurrent, OursBetween, Revision
    <3> QED
      BY <1>0, <3>1, <3>2, <3>3 DEF PendingOK
  <2> QED
    BY <2>1, <2>2
<1>14. ShownOK'
  <2> SUFFICES ASSUME ui.sources = 0, ui.session = session.id, NEW s \in Segments, ~Open(s)'
               PROVE  ui.shown[s] = session'.known[s].decision
    BY <1>3, <1>7 DEF ShownOK
  <2>1. CASE OperationCurrent(t) /\ t.kind = "save"
    <3>1. ui'.pending # None /\ ui'.pending.change = t.change
      BY <1>2, <1>3, <2>1, AnewIs, NoneIsNothing
    <3>2. s \notin DOMAIN t.change
      BY <3>1 DEF Open
    <3>3. ui.pending # None => ui.pending.change = t.change
      BY <1>0, <1>4, <1>6, <2>1 DEF PendingOK
    <3>4. \A u \in UnderWay : IsOp(u) => u = t
      BY <1>4, <1>6, <2>1
    <3>5. ~Open(s)
      BY <3>2, <3>3, <3>4 DEF Open
    <3>6. session'.known[s] = session.known[s]
      BY <1>7, <2>1, <3>2
    <3> QED
      BY <1>0, <3>5, <3>6 DEF ShownOK
  <2>2. CASE ~(OperationCurrent(t) /\ t.kind = "save")
    <3>1. session' = session
      <4>1. t.kind = "save" /\ t.session = session.id => OperationCurrent(t)
        BY <1>0, <1>6 DEF TaskOK, OperationCurrent
      <4> QED
        BY <2>2, <4>1
    <3>2. ui'.pending = ui.pending
      BY <1>3, <2>2
    <3>3. ~Open(s)
      <4>1. ASSUME NEW u \in UnderWay, IsOp(u), s \in DOMAIN u.change
            PROVE  u \in UnderWay' /\ IsOp(u)'
        <5>1. u # t
          BY <1>0, <1>4, <1>6, <2>2, <4>1 DEF TaskOK
        <5> QED
          BY <1>3, <1>6, <4>1, <5>1 DEF IsOp, OperationCurrent
      <4> QED
        BY <3>2, <4>1 DEF Open
    <3> QED
      BY <1>0, <3>1, <3>3 DEF ShownOK
  <2> QED
    BY <2>1, <2>2
<1> QED
  BY <1>6, <1>8, <1>9, <1>10, <1>11, <1>13, <1>14 DEF SessionInv

-----------------------------------------------------------------------------
(* The user's operations.                                                  *)

LEMMA ShowsIs ==
    ASSUME NEW u \in Editor, NEW change \in Partial(Decisions)
    PROVE  LET v == Shows(u, change)
           IN  /\ v \in Editor
               /\ v.session = u.session /\ v.epoch = u.epoch /\ v.sources = u.sources
               /\ v.busy = u.busy /\ v.history = u.history /\ v.pending = u.pending
               /\ v.loading = u.loading /\ v.loaded = u.loaded
               /\ \A s \in Segments : v.shown[s] = IF s \in DOMAIN change THEN change[s] ELSE u.shown[s]
<1> DEFINE shown == [s \in Segments |-> IF s \in DOMAIN change THEN change[s] ELSE u.shown[s]]
<1>1. Shows(u, change) = [u EXCEPT !.shown = shown]
  BY DEF Shows
<1>2. shown \in [Segments -> Decisions]
  BY PartialIs DEF Editor
<1>3. \A s \in Segments : shown[s] = IF s \in DOMAIN change THEN change[s] ELSE u.shown[s]
  OBVIOUS
<1> HIDE DEF shown
<1> QED
  BY <1>1, <1>2, <1>3 DEF Editor

LEMMA BusyIs ==
    ASSUME NEW u \in Editor
    PROVE  LET v == [u EXCEPT !.busy = TRUE]
           IN  /\ v \in Editor /\ v.busy
               /\ v.session = u.session /\ v.epoch = u.epoch /\ v.sources = u.sources
               /\ v.shown = u.shown /\ v.history = u.history /\ v.pending = u.pending
               /\ v.loading = u.loading /\ v.loaded = u.loaded
<1>1. PICK v : v = [u EXCEPT !.busy = TRUE]
  OBVIOUS
<1>2. /\ v \in Editor /\ v.busy
      /\ v.session = u.session /\ v.epoch = u.epoch /\ v.sources = u.sources
      /\ v.shown = u.shown /\ v.history = u.history /\ v.pending = u.pending
      /\ v.loading = u.loading /\ v.loaded = u.loaded
  BY <1>1 DEF Editor
<1> QED
  BY <1>1, <1>2

LEMMA CountedIs ==
    ASSUME SessionTypes, Counted \/ Wrong \/ UNCHANGED count
    PROVE  count' \in [operations : Nat, others : Nat, errors : Nat]
<1>1. count \in [operations : Nat, others : Nat, errors : Nat]
  BY DEF SessionTypes
<1>2. CASE Counted
  BY <1>1, <1>2 DEF Counted
<1>3. CASE Wrong
  BY <1>1, <1>3 DEF Wrong
<1> QED
  BY <1>1, <1>2, <1>3

\* A new task of the window is no later than the window.
LEMMA NewTaskOK ==
    ASSUME SessionInv, NEW t \in TaskRecord, t.session = ui.session, t.epoch = ui.epoch,
           t.kind # "prepare", DOMAIN t.change = DOMAIN t.expected,
           t.kind = "refresh" => DOMAIN t.change = {} /\ t.undo = None,
           t.undo # None => t.expected = t.undo.after /\ OursBetween(t.undo)
    PROVE  TaskOK(t) /\ IsOp(t)
<1>1. ui.session \in Nat /\ ui.epoch \in Nat /\ t.kind \in {"save", "refresh", "prepare"}
  BY DEF SessionInv, SessionTypes, Editor, TaskRecord
<1> QED
  BY <1>1 DEF TaskOK, IsOp, OperationCurrent

LEMMA QueuedTypes ==
    ASSUME SessionTypes, NEW t \in TaskRecord,
           \/ queue' = Append(queue, t) /\ checking' = checking
           \/ checking' = checking \cup {t} /\ queue' = queue,
           UNCHANGED <<store, bound, session>>, ui' \in Editor,
           count' \in [operations : Nat, others : Nat, errors : Nat]
    PROVE  SessionTypes'
<1>1. queue \in Seq(TaskRecord) /\ checking \subseteq TaskRecord
  BY DEF SessionTypes
<1>2. queue' \in Seq(TaskRecord) /\ checking' \subseteq TaskRecord
  BY <1>1, QueueAppend
<1> QED
  BY <1>2 DEF SessionTypes

LEMMA SubmitInv ==
    ASSUME SessionInv, NEW change \in Changes, Submit(change)
    PROVE  SessionInv'
<1>0. SessionTypes /\ ui \in Editor /\ session \in SessionRecord
  BY DEF SessionInv, SessionTypes
<1> DEFINE expected == [s \in DOMAIN change |-> session.known[s]]
<1>1. /\ ~ui.busy /\ ui.pending = None /\ Counted
      /\ UNCHANGED <<store, bound, session>>
  BY DEF Submit, Idle
<1>2. PICK save : save = Task("save", change, expected, None)
  OBVIOUS
<1>3. change \in Partial(Decisions) /\ expected \in Partial(KnownVersion)
  <2>1. PICK D \in SUBSET Segments : change \in [D -> Decisions]
    BY DEF Changes
  <2>2. expected \in [D -> KnownVersion]
    BY <1>0, <2>1 DEF SessionRecord
  <2> QED
    BY <2>1, <2>2, PartialHas
<1>4. DOMAIN expected = DOMAIN change
  OBVIOUS
<1>5. \/ /\ ui' = [Shows(ui, change) EXCEPT !.busy = TRUE]
         /\ queue' = Append(queue, save) /\ UNCHANGED checking
      \/ /\ ui' = [ui EXCEPT !.busy = TRUE]
         /\ checking' = checking \cup {[save EXCEPT !.verify = TRUE]} /\ UNCHANGED queue
  BY <1>2 DEF Submit
<1> HIDE DEF expected
<1>6. /\ save \in TaskRecord
      /\ save.kind = "save" /\ save.session = ui.session /\ save.epoch = ui.epoch
      /\ save.change = change /\ save.expected = expected /\ save.undo = None /\ save.at = "queued"
  BY <1>0, <1>2, <1>3, TaskIs
<1>7. count' \in [operations : Nat, others : Nat, errors : Nat]
  BY <1>0, <1>1, CountedIs
<1>8. CASE /\ ui' = [Shows(ui, change) EXCEPT !.busy = TRUE]
           /\ queue' = Append(queue, save) /\ UNCHANGED checking
  <2>1. PICK v : v = Shows(ui, change)
    OBVIOUS
  <2>2. /\ v \in Editor
        /\ v.session = ui.session /\ v.epoch = ui.epoch /\ v.sources = ui.sources
        /\ v.history = ui.history /\ v.pending = ui.pending
        /\ v.loading = ui.loading /\ v.loaded = ui.loaded
        /\ \A s \in Segments : s \notin DOMAIN change => v.shown[s] = ui.shown[s]
    BY <1>0, <1>3, <2>1, ShowsIs
  <2>3. /\ ui' \in Editor /\ ui'.busy
        /\ ui'.session = v.session /\ ui'.epoch = v.epoch /\ ui'.sources = v.sources
        /\ ui'.shown = v.shown /\ ui'.history = v.history /\ ui'.pending = v.pending
        /\ ui'.loading = v.loading /\ ui'.loaded = v.loaded
    BY <1>8, <2>1, <2>2, BusyIs
  <2>4. SessionTypes'
    BY <1>0, <1>1, <1>6, <1>7, <1>8, <2>3, QueuedTypes
  <2>5. TaskOK(save) /\ IsOp(save)
    BY <1>4, <1>6, NewTaskOK
  <2> QED
    BY <1>1, <1>6, <1>8, <2>2, <2>3, <2>4, <2>5, StartStep
<1>9. CASE /\ ui' = [ui EXCEPT !.busy = TRUE]
           /\ checking' = checking \cup {[save EXCEPT !.verify = TRUE]} /\ UNCHANGED queue
  <2>1. PICK t : t = [save EXCEPT !.verify = TRUE]
    OBVIOUS
  <2>2. /\ t \in TaskRecord
        /\ t.kind = "save" /\ t.session = ui.session /\ t.epoch = ui.epoch
        /\ t.change = change /\ t.expected = expected /\ t.undo = None /\ t.at = "queued"
    BY <1>6, <2>1 DEF TaskRecord
  <2>3. /\ ui' \in Editor /\ ui'.busy
        /\ ui'.session = ui.session /\ ui'.epoch = ui.epoch /\ ui'.sources = ui.sources
        /\ ui'.shown = ui.shown /\ ui'.history = ui.history /\ ui'.pending = ui.pending
        /\ ui'.loading = ui.loading /\ ui'.loaded = ui.loaded
    BY <1>0, <1>9, BusyIs
  <2>4. checking' = checking \cup {t} /\ queue' = queue
    BY <1>9, <2>1
  <2>5. SessionTypes'
    BY <1>0, <1>1, <1>7, <2>2, <2>3, <2>4, QueuedTypes
  <2>6. TaskOK(t) /\ IsOp(t)
    BY <1>4, <2>2, NewTaskOK
  <2> QED
    BY <1>1, <2>2, <2>3, <2>4, <2>5, <2>6, StartStep
<1> QED
  BY <1>5, <1>8, <1>9

\* An operation the window makes busy with, as it is.
LEMMA BeginsInv ==
    ASSUME SessionInv, ~ui.busy, Counted, UNCHANGED <<store, bound, session>>,
           ui' = [ui EXCEPT !.busy = TRUE],
           NEW t \in TaskRecord, IsOp(t), t.at = "queued", TaskOK(t),
           ui.pending # None /\ t.kind = "save" => t.change = ui.pending.change,
           \/ queue' = Append(queue, t) /\ checking' = checking
           \/ checking' = checking \cup {t} /\ queue' = queue
    PROVE  SessionInv'
<1>0. SessionTypes /\ ui \in Editor
  BY DEF SessionInv, SessionTypes
<1>1. /\ ui' \in Editor /\ ui'.busy
      /\ ui'.session = ui.session /\ ui'.epoch = ui.epoch /\ ui'.sources = ui.sources
      /\ ui'.shown = ui.shown /\ ui'.history = ui.history /\ ui'.pending = ui.pending
      /\ ui'.loading = ui.loading /\ ui'.loaded = ui.loaded
  BY <1>0, BusyIs
<1>2. SessionTypes'
  BY <1>0, <1>1, CountedIs, QueuedTypes
<1> QED
  BY <1>1, <1>2, StartStep

LEMMA UndoInv ==
    ASSUME SessionInv, Undo
    PROVE  SessionInv'
<1>0. SessionTypes /\ ui \in Editor /\ \A i \in DOMAIN ui.history : OursBetween(ui.history[i])
  BY DEF SessionInv, SessionTypes
<1>1. PICK last : last = ui.history[Len(ui.history)]
  OBVIOUS
<1> DEFINE change == [s \in DOMAIN last.before |-> last.before[s].decision]
<1>2. PICK t : t = Task("save", change, last.after, last)
  OBVIOUS
<1>3. /\ ~ui.busy /\ ui.pending = None /\ ui.history # << >> /\ Counted
      /\ UNCHANGED <<store, bound, session>>
      /\ ui' = [ui EXCEPT !.busy = TRUE]
      /\ checking' = checking \cup {t} /\ queue' = queue
  BY <1>1, <1>2 DEF Undo, Idle
<1>4. last \in HistoryEntry /\ OursBetween(last)
  <2>1. ui.history \in Seq(HistoryEntry)
    BY <1>0 DEF Editor
  <2>2. Len(ui.history) \in DOMAIN ui.history
    BY <1>3, <2>1
  <2> QED
    BY <1>0, <1>1, <2>1, <2>2
<1>5. /\ last.before \in Partial(KnownVersion) /\ last.after \in Partial(KnownVersion)
      /\ DOMAIN last.before = DOMAIN last.after
  BY <1>4 DEF HistoryEntry
<1>6. change \in Partial(Decisions) /\ DOMAIN change = DOMAIN last.after
  <2>1. DOMAIN last.before \subseteq Segments /\ \A s \in DOMAIN last.before : last.before[s] \in KnownVersion
    BY <1>5, PartialIs
  <2>2. change \in [DOMAIN last.before -> Decisions]
    BY <2>1 DEF KnownVersion
  <2> QED
    BY <1>5, <2>1, <2>2, PartialHas
<1> HIDE DEF change
<1>7. /\ t \in TaskRecord
      /\ t.kind = "save" /\ t.session = ui.session /\ t.epoch = ui.epoch
      /\ t.change = change /\ t.expected = last.after /\ t.undo = last /\ t.at = "queued"
  BY <1>0, <1>2, <1>4, <1>5, <1>6, TaskIs
<1>8. TaskOK(t) /\ IsOp(t)
  BY <1>4, <1>6, <1>7, NewTaskOK
<1> QED
  BY <1>3, <1>7, <1>8, BeginsInv

LEMMA RetryInv ==
    ASSUME SessionInv, Retry
    PROVE  SessionInv'
<1>0. SessionTypes /\ ui \in Editor /\ PendingOK
  BY DEF SessionInv, SessionTypes
<1>1. /\ ui.pending # None /\ ~ui.busy /\ Counted
      /\ UNCHANGED <<store, bound, session>>
      /\ ui' = [ui EXCEPT !.busy = TRUE]
      /\ \/ queue' = Append(queue, ui.pending) /\ checking' = checking
         \/ checking' = checking \cup {ui.pending} /\ queue' = queue
  BY DEF Retry
<1>2. ui.pending \in TaskRecord
  BY <1>0, <1>1 DEF Editor
<1>3. TaskOK(ui.pending) /\ IsOp(ui.pending) /\ ui.pending.at = "queued"
  BY <1>0, <1>1 DEF PendingOK, IsOp
<1> QED
  BY <1>1, <1>2, <1>3, BeginsInv

LEMMA DiscardInv ==
    ASSUME SessionInv, Discard
    PROVE  SessionInv'
<1>0. SessionTypes
  BY DEF SessionInv
<1>1. PICK t : t = Task("refresh", << >>, << >>, None)
  OBVIOUS
<1>2. /\ ~ui.busy /\ Counted
      /\ UNCHANGED <<store, bound, session>>
      /\ ui' = [ui EXCEPT !.busy = TRUE]
      /\ checking' = checking \cup {t} /\ queue' = queue
  BY <1>1 DEF Discard
<1>3. << >> \in Partial(Decisions) /\ << >> \in Partial(KnownVersion) /\ DOMAIN << >> = {}
  BY NothingIsPartial
<1>4. /\ t \in TaskRecord
      /\ t.kind = "refresh" /\ t.session = ui.session /\ t.epoch = ui.epoch
      /\ t.change = << >> /\ t.expected = << >> /\ t.undo = None /\ t.at = "queued"
  BY <1>0, <1>1, <1>3, TaskIs
<1>5. TaskOK(t) /\ IsOp(t)
  BY <1>3, <1>4, NewTaskOK
<1> QED
  BY <1>2, <1>4, <1>5, BeginsInv

LEMMA UnderWayTypes ==
    ASSUME SessionTypes
    PROVE  /\ UnderWay \subseteq TaskRecord
           /\ \A t \in UnderWay : t.epoch \in Nat /\ t.session \in Nat
<1>1. queue \in Seq(TaskRecord) /\ checking \subseteq TaskRecord
  BY DEF SessionTypes
<1>2. \A i \in DOMAIN queue : queue[i] \in TaskRecord
  BY <1>1
<1>3. UnderWay \subseteq TaskRecord
  BY <1>1, <1>2 DEF UnderWay
<1> QED
  BY <1>3 DEF TaskRecord

LEMMA AnalyseInv ==
    ASSUME SessionInv, Analyse
    PROVE  SessionInv'
<1>0. /\ SessionTypes /\ BusyOK /\ LoadOK /\ QueueOK /\ IdsOK /\ PendingOK /\ ShownOK
      /\ KnownIsCommitted
      /\ \A u \in UnderWay : TaskOK(u)
      /\ queue # << >> => AskedOK(queue[1]) /\ ReplyOK(queue[1])
      /\ \A i \in DOMAIN ui.history : OursBetween(ui.history[i])
      /\ ui \in Editor /\ queue \in Seq(TaskRecord)
  BY DEF SessionInv, SessionTypes
<1>1. PICK new : new = Task("prepare", << >>, << >>, None)
  OBVIOUS
<1>2. PICK t : t = [new EXCEPT !.epoch = ui.sources]
  OBVIOUS
<1>3. /\ ~ui.loading /\ ui' = [ui EXCEPT !.loading = TRUE]
      /\ queue' = Append(queue, t)
      /\ UNCHANGED <<store, bound, session, checking, count>>
  BY <1>1, <1>2 DEF Analyse
<1>4. << >> \in Partial(Decisions) /\ << >> \in Partial(KnownVersion) /\ DOMAIN << >> = {}
  BY NothingIsPartial
<1>5. /\ new \in TaskRecord
      /\ new.kind = "prepare" /\ new.change = << >> /\ new.expected = << >> /\ new.undo = None
      /\ new.at = "queued"
  BY <1>0, <1>1, <1>4, TaskIs
<1>6. /\ t \in TaskRecord /\ t.epoch = ui.sources
      /\ t.kind = "prepare" /\ t.change = << >> /\ t.expected = << >> /\ t.undo = None
      /\ t.at = "queued"
  BY <1>0, <1>2, <1>5 DEF TaskRecord, Editor
<1>7. /\ ui' \in Editor /\ ui'.loading
      /\ ui'.session = ui.session /\ ui'.epoch = ui.epoch /\ ui'.sources = ui.sources
      /\ ui'.shown = ui.shown /\ ui'.history = ui.history /\ ui'.pending = ui.pending
      /\ ui'.busy = ui.busy /\ ui'.loaded = ui.loaded
  BY <1>0, <1>3 DEF Editor
<1>8. /\ queue' \in Seq(TaskRecord)
      /\ DOMAIN queue' = DOMAIN queue \cup {Len(queue) + 1} /\ Len(queue) + 1 \notin DOMAIN queue
      /\ \A i \in DOMAIN queue : queue'[i] = queue[i]
      /\ queue'[Len(queue) + 1] = t
      /\ queue # << >> => 1 \in DOMAIN queue
      /\ queue = << >> => queue'[1] = t /\ Len(queue) + 1 = 1
  BY <1>0, <1>3, <1>6, QueueAppend
<1>9. SessionTypes'
  BY <1>0, <1>3, <1>7, <1>8 DEF SessionTypes
<1>10. ~IsOp(t) /\ IsLoad(t)
  BY <1>6 DEF IsOp, IsLoad
<1>11. \A u : u \in UnderWay' <=> (u \in UnderWay \/ u = t)
  BY <1>3, <1>8 DEF UnderWay
<1>12. BusyOK'
  <2>1. \A i \in DOMAIN queue' : IsOp(queue'[i]) => i \in DOMAIN queue /\ IsOp(queue[i])
    BY <1>8, <1>10
  <2>2. ui'.busy <=> (\E u \in UnderWay' : IsOp(u))
    BY <1>0, <1>7, <1>10, <1>11 DEF BusyOK
  <2> QED
    BY <1>0, <1>3, <1>7, <2>1, <2>2, BusyStays DEF BusyOK
<1>13. LoadOK'
  <2>1. ui.loaded = None /\ \A i \in DOMAIN queue : ~IsLoad(queue[i])
    BY <1>0, <1>3 DEF LoadOK
  <2>2. \A i \in DOMAIN queue' : IsLoad(queue'[i]) <=> i = Len(queue) + 1
    BY <1>8, <1>10, <2>1
  <2> QED
    BY <1>7, <1>8, <2>1, <2>2, LoadStays
<1>14. QueueOK'
  BY <1>0, <1>3, <1>6, <1>8 DEF QueueOK
<1>15. IdsOK'
  BY <1>0, <1>3, <1>7 DEF IdsOK
<1>16. \A u : TaskOK(u)' <=> TaskOK(u)
  BY <1>3, <1>7, WindowStays
<1>17. TaskOK(t)
  <2>1. ui.sources \in Nat
    BY <1>0 DEF Editor
  <2> QED
    BY <1>4, <1>6, <2>1 DEF TaskOK
<1>18. \A u \in UnderWay' : TaskOK(u)'
  BY <1>0, <1>11, <1>16, <1>17
<1>19. PendingOK'
  <2>1. \A u \in UnderWay' : IsOp(u)' => IsOp(u) /\ u \in UnderWay
    BY <1>7, <1>10, <1>11 DEF IsOp, OperationCurrent
  <2>2. ui.pending # None => TaskOK(ui.pending)' /\ OperationCurrent(ui.pending)'
    BY <1>0, <1>3, <1>7 DEF PendingOK, TaskOK, OperationCurrent, OursBetween, Revision
  <2> QED
    BY <1>0, <1>7, <2>1, <2>2 DEF PendingOK
<1>20. ShownOK'
  <2>1. ASSUME NEW s \in Segments, ~Open(s)' PROVE ~Open(s)
    BY <1>7, <1>11, <2>1 DEF Open, IsOp, OperationCurrent
  <2> QED
    BY <1>0, <1>3, <1>7, <2>1 DEF ShownOK
<1>21. KnownIsCommitted'
  BY <1>0, <1>3 DEF KnownIsCommitted, Revision
<1>22. (queue # << >> => AskedOK(queue[1]) /\ ReplyOK(queue[1]))'
  <2>1. AskedOK(t) /\ ReplyOK(t)
    BY <1>6 DEF AskedOK, ReplyOK
  <2>2. AskedOK(queue'[1]) /\ ReplyOK(queue'[1])
    BY <1>0, <1>8, <2>1
  <2> QED
    BY <1>3, <2>2 DEF AskedOK, ReplyOK, Committed, Revision
<1>23. (\A i \in DOMAIN ui.history : OursBetween(ui.history[i]))'
  BY <1>0, <1>3, <1>7 DEF OursBetween, Revision
<1> QED
  BY <1>9, <1>12, <1>13, <1>14, <1>15, <1>18, <1>19, <1>20, <1>21, <1>22, <1>23 DEF SessionInv

LEMMA OutdatedIs ==
    ASSUME NEW u \in Editor
    PROVE  LET v == Outdated(u)
           IN  /\ v \in Editor
               /\ v.epoch = u.epoch + 1 /\ v.history = << >> /\ v.pending = None /\ ~v.busy
               /\ v.session = u.session /\ v.sources = u.sources /\ v.shown = u.shown
               /\ v.loading = u.loading /\ v.loaded = u.loaded
<1>1. PICK a : a = [u EXCEPT !.epoch = @ + 1]
  OBVIOUS
<1>2. PICK b : b = [a EXCEPT !.history = << >>]
  OBVIOUS
<1>3. PICK c : c = [b EXCEPT !.pending = None]
  OBVIOUS
<1>4. PICK d : d = [c EXCEPT !.busy = FALSE]
  OBVIOUS
<1>5. << >> \in Seq(HistoryEntry)
  OBVIOUS
<1>6. /\ a \in Editor
      /\ a.epoch = u.epoch + 1 /\ a.busy = u.busy /\ a.session = u.session
      /\ a.sources = u.sources /\ a.shown = u.shown /\ a.history = u.history
      /\ a.pending = u.pending /\ a.loading = u.loading /\ a.loaded = u.loaded
  BY <1>1, SMTT(30) DEF Editor
<1>7. /\ b \in Editor /\ b.history = << >>
      /\ b.epoch = a.epoch /\ b.busy = a.busy /\ b.session = a.session
      /\ b.sources = a.sources /\ b.shown = a.shown
      /\ b.pending = a.pending /\ b.loading = a.loading /\ b.loaded = a.loaded
  BY <1>2, <1>5, <1>6 DEF Editor
<1>8. /\ c \in Editor /\ c.pending = None
      /\ c.epoch = b.epoch /\ c.busy = b.busy /\ c.session = b.session
      /\ c.sources = b.sources /\ c.shown = b.shown /\ c.history = b.history
      /\ c.loading = b.loading /\ c.loaded = b.loaded
  BY <1>3, <1>7 DEF Editor
<1>9. /\ d \in Editor /\ ~d.busy
      /\ d.epoch = c.epoch /\ d.pending = c.pending /\ d.session = c.session
      /\ d.sources = c.sources /\ d.shown = c.shown /\ d.history = c.history
      /\ d.loading = c.loading /\ d.loaded = c.loaded
  BY <1>4, <1>8 DEF Editor
<1>10. Outdated(u) = d
  BY <1>1, <1>2, <1>3, <1>4 DEF Outdated
<1> QED
  BY <1>6, <1>7, <1>8, <1>9, <1>10

\* The operations under way become outdated.
LEMMA OutdateStep ==
    ASSUME SessionInv, UNCHANGED <<store, bound, session, queue, checking, count>>,
           ui' \in Editor, ui'.epoch = ui.epoch + 1, ui'.history = << >>, ui'.pending = None,
           ~ui'.busy, ~ui'.loading, ui'.loaded = None, ui'.session <= session.id,
           \A t \in UnderWay : t.kind = "prepare" => t.epoch < ui'.sources
                                                     \/ (ui'.sources = ui.sources /\ ~IsLoad(t)),
           \A t \in UnderWay : t.kind # "prepare" =>
                ui'.sources # 0 \/ (t.session < ui'.session),
           ui.session <= ui'.session, ui.sources <= ui'.sources,
           \/ ui'.sources # 0
           \/ \A s \in Segments : ui'.shown[s] = session.known[s].decision
    PROVE  SessionInv'
<1>0. /\ SessionTypes /\ BusyOK /\ LoadOK /\ QueueOK /\ IdsOK
      /\ KnownIsCommitted
      /\ \A u \in UnderWay : TaskOK(u)
      /\ queue # << >> => AskedOK(queue[1]) /\ ReplyOK(queue[1])
      /\ ui \in Editor /\ queue \in Seq(TaskRecord) /\ checking \subseteq TaskRecord
  BY DEF SessionInv, SessionTypes
<1>1. UnderWay' = UnderWay
  BY DEF UnderWay
<1>2. \A t \in UnderWay : t.epoch \in Nat /\ t.session \in Nat
  BY <1>0, UnderWayTypes
<1>3. ui.epoch \in Nat /\ ui.session \in Nat /\ ui.sources \in Nat /\ ui'.session \in Nat /\ ui'.sources \in Nat
  BY <1>0 DEF Editor
<1>4. \A t \in UnderWay : t.kind # "prepare" => t.epoch < ui'.epoch
  BY <1>0, <1>2, <1>3 DEF TaskOK
<1>5. \A t \in UnderWay : ~IsOp(t)'
  BY <1>2, <1>3, <1>4 DEF IsOp, OperationCurrent
<1>6. \A t \in UnderWay : ~IsLoad(t)'
  BY <1>2, <1>3 DEF IsLoad
<1>7. \A i \in DOMAIN queue : queue[i] \in UnderWay
  BY DEF UnderWay
<1>8. BusyOK'
  <2>1. \A i \in DOMAIN queue : ~IsOp(queue[i])'
    BY <1>5, <1>7 DEF IsOp, OperationCurrent
  <2>2. \A t \in checking : ~IsOp(t)'
    BY <1>5 DEF UnderWay
  <2> QED
    BY <1>1, <1>5, <2>1, <2>2 DEF BusyOK
<1>9. LoadOK'
  <2>1. \A i \in DOMAIN queue : ~IsLoad(queue[i])'
    BY <1>6, <1>7 DEF IsLoad
  <2> QED
    BY <2>1 DEF LoadOK
<1>10. QueueOK'
  BY <1>0 DEF QueueOK
<1>11. IdsOK'
  <2>1. Len(ui'.history) = 0
    OBVIOUS
  <2> QED
    BY <1>0, <2>1, SessionAssumption DEF IdsOK
<1>12. PendingOK'
  BY DEF PendingOK
<1>13. ShownOK'
  BY DEF ShownOK
<1>14. KnownIsCommitted'
  BY <1>0 DEF KnownIsCommitted, Revision
<1>15. ASSUME NEW t \in UnderWay PROVE TaskOK(t)'
  <2>1. TaskOK(t) /\ t.epoch \in Nat /\ t.session \in Nat
    BY <1>0, <1>2
  <2>2. t.undo # None => t.expected = t.undo.after /\ OursBetween(t.undo)'
    BY <2>1, StoreStays DEF TaskOK
  <2>3. t.kind = "prepare" => t.epoch <= ui'.sources
    BY <1>3, <2>1 DEF TaskOK
  <2>4. t.kind # "prepare" =>
          /\ t.session <= ui'.session /\ t.epoch <= ui'.epoch
          /\ ui'.sources = 0 /\ t.session = ui'.session => t.epoch = ui'.epoch
    BY <1>3, <2>1 DEF TaskOK
  <2> QED
    BY <2>1, <2>2, <2>3, <2>4 DEF TaskOK
<1>16. (queue # << >> => AskedOK(queue[1]) /\ ReplyOK(queue[1]))'
  BY <1>0 DEF AskedOK, ReplyOK, Committed, Revision
<1>17. (\A i \in DOMAIN ui.history : OursBetween(ui.history[i]))'
  <2>1. DOMAIN ui'.history = {}
    OBVIOUS
  <2> QED
    BY <2>1
<1>18. SessionTypes'
  BY <1>0 DEF SessionTypes
<1> QED
  BY <1>1, <1>8, <1>9, <1>10, <1>11, <1>12, <1>13, <1>14, <1>15, <1>16, <1>17, <1>18 DEF SessionInv

LEMMA SourceChangedInv ==
    ASSUME SessionInv, SourceChanged
    PROVE  SessionInv'
<1>0. /\ SessionTypes /\ ui \in Editor /\ IdsOK /\ \A u \in UnderWay : TaskOK(u)
      /\ queue \in Seq(TaskRecord) /\ checking \subseteq TaskRecord
  BY DEF SessionInv, SessionTypes
<1>1. PICK u : u = Outdated(ui)
  OBVIOUS
<1>2. PICK a : a = [u EXCEPT !.sources = @ + 1]
  OBVIOUS
<1>3. PICK b : b = [a EXCEPT !.loaded = None]
  OBVIOUS
<1>4. PICK c : c = [b EXCEPT !.loading = FALSE]
  OBVIOUS
<1>5. /\ u \in Editor
      /\ u.epoch = ui.epoch + 1 /\ u.history = << >> /\ u.pending = None /\ ~u.busy
      /\ u.session = ui.session /\ u.sources = ui.sources
  BY <1>0, <1>1, OutdatedIs
<1>6. /\ a \in Editor /\ a.sources = ui.sources + 1
      /\ a.epoch = u.epoch /\ a.history = u.history /\ a.pending = u.pending /\ a.busy = u.busy
      /\ a.session = u.session
  BY <1>2, <1>5 DEF Editor
<1>7. /\ b \in Editor /\ b.loaded = None /\ b.sources = a.sources
      /\ b.epoch = a.epoch /\ b.history = a.history /\ b.pending = a.pending /\ b.busy = a.busy
      /\ b.session = a.session
  BY <1>3, <1>6 DEF Editor
<1>8. /\ c \in Editor /\ ~c.loading /\ c.loaded = b.loaded /\ c.sources = b.sources
      /\ c.epoch = b.epoch /\ c.history = b.history /\ c.pending = b.pending /\ c.busy = b.busy
      /\ c.session = b.session
  BY <1>4, <1>7 DEF Editor
<1>9. /\ ui' = c
      /\ UNCHANGED <<store, bound, session, queue, checking, count>>
  <2>1. ui' = [[[u EXCEPT !.sources = @ + 1] EXCEPT !.loading = FALSE] EXCEPT !.loaded = None]
    BY <1>1 DEF SourceChanged
  <2>2. ui' = c
    BY <1>2, <1>3, <1>4, <1>5, <2>1 DEF Editor
  <2> QED
    BY <2>2 DEF SourceChanged
<1>10. \A t \in UnderWay : t.kind = "prepare" => t.epoch < ui.sources + 1
  <2>1. \A t \in UnderWay : t.epoch \in Nat
    BY <1>0, UnderWayTypes
  <2>2. ui.sources \in Nat
    BY <1>0 DEF Editor
  <2> QED
    BY <1>0, <2>1, <2>2 DEF TaskOK
<1>11. ui.session \in Nat /\ ui.sources \in Nat /\ ui.session <= session.id
  BY <1>0 DEF Editor, IdsOK
<1> QED
  BY <1>5, <1>6, <1>7, <1>8, <1>9, <1>10, <1>11, OutdateStep

LEMMA CommitInv ==
    ASSUME SessionInv, Commit
    PROVE  SessionInv'
<1>0. /\ SessionTypes /\ ui \in Editor /\ IdsOK /\ LoadOK /\ QueueOK /\ \A u \in UnderWay : TaskOK(u)
      /\ queue \in Seq(TaskRecord) /\ checking \subseteq TaskRecord /\ session \in SessionRecord
  BY DEF SessionInv, SessionTypes
<1> DEFINE shown == [s \in Segments |-> session.known[s].decision]
<1>1. PICK u : u = Outdated(ui)
  OBVIOUS
<1>2. PICK a : a = [u EXCEPT !.session = session.id, !.shown = shown]
  OBVIOUS
<1>3. PICK b : b = [a EXCEPT !.loaded = None]
  OBVIOUS
<1>4. PICK c : c = [b EXCEPT !.loading = FALSE]
  OBVIOUS
<1>5. shown \in [Segments -> Decisions] /\ \A s \in Segments : shown[s] = session.known[s].decision
  BY <1>0 DEF SessionRecord, KnownVersion
<1>6. /\ ui.loaded # None /\ ui.loaded.id = session.id
      /\ UNCHANGED <<store, bound, session, queue, checking, count>>
  BY DEF Commit
<1>7. ui' = [Outdated(ui) EXCEPT !.session = session.id, !.loading = FALSE, !.loaded = None,
                                 !.shown = shown]
  BY DEF Commit
<1> HIDE DEF shown
<1>8. /\ u \in Editor
      /\ u.epoch = ui.epoch + 1 /\ u.history = << >> /\ u.pending = None /\ ~u.busy
      /\ u.sources = ui.sources
  BY <1>0, <1>1, OutdatedIs
<1>9. /\ a \in Editor /\ a.session = session.id /\ a.shown = shown
      /\ a.epoch = u.epoch /\ a.history = u.history /\ a.pending = u.pending /\ a.busy = u.busy
      /\ a.sources = u.sources
  BY <1>0, <1>2, <1>5, <1>8 DEF Editor, SessionRecord
<1>10. /\ b \in Editor /\ b.loaded = None /\ b.session = a.session /\ b.shown = a.shown
       /\ b.epoch = a.epoch /\ b.history = a.history /\ b.pending = a.pending /\ b.busy = a.busy
       /\ b.sources = a.sources
  BY <1>3, <1>9 DEF Editor
<1>11. /\ c \in Editor /\ ~c.loading /\ c.loaded = None /\ c.session = b.session /\ c.shown = b.shown
       /\ c.epoch = b.epoch /\ c.history = b.history /\ c.pending = b.pending /\ c.busy = b.busy
       /\ c.sources = b.sources
  BY <1>4, <1>10 DEF Editor
<1>12. ui' = c
  <2>1. ui' = [[[[u EXCEPT !.session = session.id] EXCEPT !.loading = FALSE] EXCEPT !.loaded = None]
                 EXCEPT !.shown = shown]
    BY <1>1, <1>7
  <2> QED
    BY <1>2, <1>3, <1>4, <1>8, <2>1 DEF Editor
<1>13. /\ ui.session < session.id /\ ui.session \in Nat /\ session.id \in Nat /\ ui.sources \in Nat
  BY <1>0, <1>6 DEF IdsOK, Editor, SessionRecord
<1>14. \A t \in UnderWay : t.kind # "prepare" => t.session < session.id
  <2>1. \A t \in UnderWay : t.session \in Nat
    BY <1>0, UnderWayTypes
  <2> QED
    BY <1>0, <1>13, <2>1 DEF TaskOK
<1>15. \A t \in UnderWay : t.kind = "prepare" => ~IsLoad(t)
  BY <1>0, <1>6 DEF UnderWay, LoadOK, QueueOK
<1> QED
  BY <1>5, <1>6, <1>8, <1>9, <1>10, <1>11, <1>12, <1>13, <1>14, <1>15, OutdateStep

-----------------------------------------------------------------------------
(* The queue goes on.                                                      *)

LEMMA CheckedInv ==
    ASSUME SessionInv, NEW t \in checking, Checked(t)
    PROVE  SessionInv'
<1>0. /\ SessionTypes /\ BusyOK /\ LoadOK /\ QueueOK /\ IdsOK /\ PendingOK /\ ShownOK
      /\ KnownIsCommitted
      /\ \A u \in UnderWay : TaskOK(u)
      /\ queue # << >> => AskedOK(queue[1]) /\ ReplyOK(queue[1])
      /\ \A i \in DOMAIN ui.history : OursBetween(ui.history[i])
      /\ queue \in Seq(TaskRecord) /\ t \in TaskRecord
  BY DEF SessionInv, SessionTypes
<1>1. /\ checking' = checking \ {t}
      /\ UNCHANGED <<store, bound, session>>
      /\ \/ OperationCurrent(t) /\ queue' = Append(queue, t) /\ UNCHANGED <<ui, count>>
         \/ /\ Wrong \/ UNCHANGED count
            /\ ui' = Undone(ui, t) /\ UNCHANGED queue
  BY DEF Checked
<1>2. t.kind # "prepare" /\ t.at = "queued"
  BY <1>0 DEF QueueOK
<1>3. CASE /\ Wrong \/ UNCHANGED count
           /\ ui' = Undone(ui, t) /\ UNCHANGED queue
  BY <1>0, <1>1, <1>2, <1>3, CountedIs, UndoneStep DEF Ends
<1>4. CASE OperationCurrent(t) /\ queue' = Append(queue, t) /\ UNCHANGED <<ui, count>>
  <2>1. /\ queue' \in Seq(TaskRecord)
        /\ DOMAIN queue' = DOMAIN queue \cup {Len(queue) + 1} /\ Len(queue) + 1 \notin DOMAIN queue
        /\ \A i \in DOMAIN queue : queue'[i] = queue[i]
        /\ queue'[Len(queue) + 1] = t
        /\ queue # << >> => 1 \in DOMAIN queue
        /\ queue = << >> => queue'[1] = t /\ Len(queue) + 1 = 1
    BY <1>0, <1>4, QueueAppend
  <2>2. UnderWay' = UnderWay
    <3>1. UnderWay' = checking' \cup {queue'[i] : i \in DOMAIN queue'}
      BY DEF UnderWay
    <3>2. {queue'[i] : i \in DOMAIN queue'} = {queue[i] : i \in DOMAIN queue} \cup {t}
      BY <2>1
    <3> QED
      BY <1>1, <3>1, <3>2 DEF UnderWay
  <2>3. IsOp(t)
    BY <1>2, <1>4 DEF IsOp
  <2>4. BusyOK'
    <3>1. \A u \in checking' : ~IsOp(u)
      BY <1>0, <1>1, <2>3 DEF BusyOK
    <3>2. \A i \in DOMAIN queue' : IsOp(queue'[i]) => i = Len(queue) + 1
      BY <1>0, <2>1, <2>3 DEF BusyOK
    <3>3. ui'.busy <=> (\E u \in UnderWay' : IsOp(u))
      BY <1>0, <1>4, <2>2 DEF BusyOK
    <3> QED
      BY <1>4, <3>1, <3>2, <3>3, BusyStays
  <2>5. LoadOK'
    <3>1. ~IsLoad(t)
      BY <1>2 DEF IsLoad
    <3>2. \A i \in DOMAIN queue' : IsLoad(queue'[i]) <=> (i \in DOMAIN queue /\ IsLoad(queue[i]))
      BY <2>1, <3>1
    <3> QED
      BY <1>0, <1>4, <2>1, <3>2, LoadStays DEF LoadOK
  <2>6. QueueOK'
    BY <1>0, <1>1, <1>2, <2>1 DEF QueueOK
  <2>7. (queue # << >> => AskedOK(queue[1]) /\ ReplyOK(queue[1]))'
    <3>1. AskedOK(t) /\ ReplyOK(t)
      BY <1>2 DEF AskedOK, ReplyOK
    <3>2. AskedOK(queue'[1]) /\ ReplyOK(queue'[1])
      BY <1>0, <2>1, <3>1
    <3> QED
      BY <1>1, <3>2 DEF AskedOK, ReplyOK, Committed, Revision
  <2>8. SessionTypes'
    BY <1>0, <1>1, <1>4, <2>1 DEF SessionTypes
  <2>9. IdsOK' /\ KnownIsCommitted'
    BY <1>0, <1>1, <1>4 DEF IdsOK, KnownIsCommitted, Revision
  <2>10. PendingOK'
    BY <1>0, <1>1, <1>4, <2>2 DEF PendingOK, IsOp, OperationCurrent, TaskOK, OursBetween, Revision
  <2>11. ShownOK'
    BY <1>0, <1>1, <1>4, <2>2 DEF ShownOK, Open, IsOp, OperationCurrent
  <2>12. (\A u \in UnderWay : TaskOK(u))'
    BY <1>0, <1>1, <1>4, <2>2, WindowStays
  <2>13. (\A i \in DOMAIN ui.history : OursBetween(ui.history[i]))'
    BY <1>0, <1>1, <1>4 DEF OursBetween, Revision
  <2> QED
    BY <2>4, <2>5, <2>6, <2>7, <2>8, <2>9, <2>10, <2>11, <2>12, <2>13 DEF SessionInv
<1> QED
  BY <1>1, <1>3, <1>4

\* An analysis ends.
LEMMA PrepareStep ==
    ASSUME SessionInv, UNCHANGED <<store, bound>>, NEW t, queue # << >>, t = queue[1],
           t.kind = "prepare", queue' = Tail(queue), checking' = checking,
           count' \in [operations : Nat, others : Nat, errors : Nat],
           ui' \in Editor,
           ui'.session = ui.session, ui'.epoch = ui.epoch, ui'.sources = ui.sources,
           ui'.shown = ui.shown, ui'.history = ui.history, ui'.busy = ui.busy,
           ui'.pending = ui.pending,
           \/ ui'.loaded = ui.loaded /\ (ui'.loading <=> ui.loading /\ t.epoch # ui.sources)
           \/ /\ t.epoch = ui.sources /\ ui.loading /\ ui'.loading
              /\ t.answer # None /\ t.at = "answered" /\ ui'.loaded = t.answer,
           \/ session' = session
           \/ t.answer # None /\ t.at = "answered" /\ session' = t.answer
    PROVE  SessionInv'
<1>0. /\ SessionTypes /\ BusyOK /\ LoadOK /\ QueueOK /\ IdsOK /\ PendingOK /\ ShownOK
      /\ KnownIsCommitted
      /\ \A u \in UnderWay : TaskOK(u)
      /\ ReplyOK(t)
      /\ \A i \in DOMAIN ui.history : OursBetween(ui.history[i])
      /\ queue \in Seq(TaskRecord)
  BY DEF SessionInv, SessionTypes
<1>1. t \in TaskRecord /\ queue' \in Seq(TaskRecord) /\ 1 \in DOMAIN queue
  BY <1>0, QueueTail
<1>2. ~IsOp(t) /\ (IsLoad(t) <=> t.epoch = ui.sources)
  BY DEF IsOp, IsLoad
<1>3. IsLoad(t) => ui.loading /\ ui.loaded = None
  BY <1>0, <1>1 DEF LoadOK
<1>4. /\ IsLoad(t) => (ui'.loading <=> ui'.loaded # None)
      /\ ~IsLoad(t) => (ui'.loading <=> ui.loading) /\ ui'.loaded = ui.loaded
  BY <1>2, <1>3
<1>5. /\ BusyOK' /\ LoadOK' /\ QueueOK'
      /\ (\A u \in UnderWay : TaskOK(u))'
      /\ (queue # << >> => AskedOK(queue[1]) /\ ReplyOK(queue[1]))'
      /\ UnderWay' \subseteq UnderWay
      /\ \A u \in UnderWay \ UnderWay' : u = t
  BY <1>2, <1>4, EndStep DEF Ends
<1>6. t.answer # None => t.answer \in SessionRecord
  BY <1>1 DEF TaskRecord
<1>7. SessionTypes'
  BY <1>0, <1>1, <1>6 DEF SessionTypes
<1>8. ui.session \in Nat /\ session.id \in Nat /\ bound \in Nat
  BY <1>0 DEF SessionTypes, Editor, SessionRecord
<1>9. t.answer # None /\ t.at = "answered" => t.answer.id = bound /\ session.id < bound /\ ui.session < bound
  BY <1>0, <1>8 DEF ReplyOK, IdsOK
<1>10. IdsOK'
  BY <1>0, <1>8, <1>9 DEF IdsOK
<1>11. KnownIsCommitted'
  <2>1. \A s \in Segments : Committed(session.known[s], s)
    BY <1>0 DEF KnownIsCommitted, Committed
  <2>2. \A s \in Segments : Committed(session'.known[s], s)
    BY <1>0, <2>1 DEF ReplyOK
  <2> QED
    BY <2>2 DEF KnownIsCommitted, Committed, Revision
<1>12. (\A i \in DOMAIN ui.history : OursBetween(ui.history[i]))'
  BY <1>0 DEF OursBetween, Revision
<1>13. PendingOK'
  <2>1. \A u \in UnderWay' : IsOp(u)' => IsOp(u) /\ u \in UnderWay
    BY <1>5 DEF IsOp, OperationCurrent
  <2>2. ui.pending # None => TaskOK(ui.pending)' /\ OperationCurrent(ui.pending)'
    BY <1>0 DEF PendingOK, TaskOK, OperationCurrent, OursBetween, Revision
  <2> QED
    BY <1>0, <2>1, <2>2 DEF PendingOK
<1>14. ShownOK'
  <2>1. CASE session' = session
    <3>1. ASSUME NEW u \in UnderWay, IsOp(u) PROVE u \in UnderWay' /\ IsOp(u)'
      BY <1>2, <1>5, <3>1 DEF IsOp, OperationCurrent
    <3>2. ASSUME NEW s \in Segments, ~Open(s)' PROVE ~Open(s)
      BY <3>1, <3>2 DEF Open
    <3> QED
      BY <1>0, <2>1, <3>2 DEF ShownOK
  <2>2. CASE t.answer # None /\ t.at = "answered" /\ session' = t.answer
    BY <1>8, <1>9, <2>2 DEF ShownOK
  <2> QED
    BY <2>1, <2>2
<1> QED
  BY <1>5, <1>7, <1>10, <1>11, <1>12, <1>13, <1>14 DEF SessionInv

LEMMA LoadingIs ==
    ASSUME NEW u \in Editor, NEW loading \in BOOLEAN
    PROVE  LET v == [u EXCEPT !.loading = loading]
           IN  /\ v \in Editor /\ v.loading = loading
               /\ v.session = u.session /\ v.epoch = u.epoch /\ v.sources = u.sources
               /\ v.shown = u.shown /\ v.history = u.history /\ v.busy = u.busy
               /\ v.pending = u.pending /\ v.loaded = u.loaded
<1>1. PICK v : v = [u EXCEPT !.loading = loading]
  OBVIOUS
<1>2. /\ v \in Editor /\ v.loading = loading
      /\ v.session = u.session /\ v.epoch = u.epoch /\ v.sources = u.sources
      /\ v.shown = u.shown /\ v.history = u.history /\ v.busy = u.busy
      /\ v.pending = u.pending /\ v.loaded = u.loaded
  BY <1>1 DEF Editor
<1> QED
  BY <1>1, <1>2

\* What the end of an analysis makes of the window.
LEMMA EndedIs ==
    ASSUME SessionTypes, NEW t, t.kind = "prepare"
    PROVE  LET v == Ended(t)
           IN  /\ v \in Editor
               /\ v.loading <=> ui.loading /\ t.epoch # ui.sources
               /\ v.session = ui.session /\ v.epoch = ui.epoch /\ v.sources = ui.sources
               /\ v.shown = ui.shown /\ v.history = ui.history /\ v.busy = ui.busy
               /\ v.pending = ui.pending /\ v.loaded = ui.loaded
<1>1. ui \in Editor /\ ui.loading \in BOOLEAN
  BY DEF SessionTypes, Editor
<1>2. CASE t.epoch = ui.sources
  <2>1. Ended(t) = [ui EXCEPT !.loading = FALSE]
    BY <1>2 DEF Ended
  <2> QED
    BY <1>1, <1>2, <2>1, LoadingIs, ZenonT(40)
<1>3. CASE t.epoch # ui.sources
  <2>1. Ended(t) = [ui EXCEPT !.loading = ui.loading]
    BY <1>3 DEF Ended
  <2> QED
    BY <1>1, <1>3, <2>1, LoadingIs
<1> QED
  BY <1>2, <1>3

LEMMA PrepareReceivedInv ==
    ASSUME SessionInv, queue # << >>, queue[1].at = "answered", PrepareReceived(queue[1]),
           queue' = Tail(queue), UNCHANGED <<store, bound, checking>>
    PROVE  SessionInv'
<1>0. SessionTypes /\ ui \in Editor /\ queue \in Seq(TaskRecord)
  BY DEF SessionInv, SessionTypes
<1>1. PICK t : t = queue[1]
  OBVIOUS
<1>2. /\ t.kind = "prepare" /\ t.at = "answered"
      /\ session' = IF t.answer # None THEN t.answer ELSE session
      /\ ui' = IF t.answer # None /\ t.epoch = ui.sources /\ ui.loading
               THEN [ui EXCEPT !.loaded = t.answer] ELSE Ended(t)
      /\ count' \in [operations : Nat, others : Nat, errors : Nat]
  BY <1>0, <1>1, CountedIs DEF PrepareReceived
<1>3. t \in TaskRecord
  BY <1>0, <1>1, QueueTail
<1>4. CASE t.answer # None /\ t.epoch = ui.sources /\ ui.loading
  <2>1. /\ ui' \in Editor /\ ui'.loaded = t.answer
        /\ ui'.session = ui.session /\ ui'.epoch = ui.epoch /\ ui'.sources = ui.sources
        /\ ui'.shown = ui.shown /\ ui'.history = ui.history /\ ui'.busy = ui.busy
        /\ ui'.pending = ui.pending /\ ui'.loading = ui.loading
    BY <1>0, <1>2, <1>3, <1>4 DEF Editor, TaskRecord
  <2> QED
    BY <1>1, <1>2, <1>4, <2>1, PrepareStep
<1>5. CASE ~(t.answer # None /\ t.epoch = ui.sources /\ ui.loading)
  <2>1. ui' = Ended(t)
    BY <1>2, <1>5
  <2>2. /\ ui' \in Editor /\ ui'.loaded = ui.loaded
        /\ ui'.session = ui.session /\ ui'.epoch = ui.epoch /\ ui'.sources = ui.sources
        /\ ui'.shown = ui.shown /\ ui'.history = ui.history /\ ui'.busy = ui.busy
        /\ ui'.pending = ui.pending
        /\ (ui'.loading <=> ui.loading /\ t.epoch # ui.sources)
    <3>1. PICK v : v = Ended(t)
      OBVIOUS
    <3>2. /\ v \in Editor /\ v.loaded = ui.loaded
          /\ v.session = ui.session /\ v.epoch = ui.epoch /\ v.sources = ui.sources
          /\ v.shown = ui.shown /\ v.history = ui.history /\ v.busy = ui.busy
          /\ v.pending = ui.pending
          /\ (v.loading <=> ui.loading /\ t.epoch # ui.sources)
      BY <1>0, <1>2, <3>1, EndedIs
    <3> QED
      BY <2>1, <3>1, <3>2
  <2> QED
    BY <1>1, <1>2, <2>2, PrepareStep
<1> QED
  BY <1>4, <1>5

-----------------------------------------------------------------------------
(* The store grows, and the head of the queue moves on.                    *)

\* What was saved stays.
Grown ==
    \A s \in Segments :
        /\ Len(store[s]) <= Len(store'[s])
        /\ \A n \in 1 .. Len(store[s]) : store'[s][n] = store[s][n]

\* The same operation, whatever became of its request.
Same(r, t) ==
    /\ r.kind = t.kind /\ r.session = t.session /\ r.epoch = t.epoch
    /\ r.change = t.change /\ r.expected = t.expected /\ r.undo = t.undo

LEMMA GrownKeeps ==
    ASSUME SessionTypes, SessionTypes', Grown
    PROVE  /\ \A e \in HistoryEntry : OursBetween(e) => OursBetween(e)'
           /\ \A k \in KnownVersion, s \in Segments : Committed(k, s) => Committed(k, s)'
<1>1. \A s \in Segments : Len(store[s]) \in Nat /\ Len(store'[s]) \in Nat
  BY DEF SessionTypes
<1>2. ASSUME NEW e \in HistoryEntry, OursBetween(e) PROVE OursBetween(e)'
  <2> SUFFICES ASSUME NEW s \in DOMAIN e.after
               PROVE  /\ e.after[s].revision <= Len(store'[s])
                      /\ \A n \in e.before[s].revision + 1 .. e.after[s].revision : store'[s][n].ours
    BY DEF OursBetween, Revision
  <2>1. e.before \in Partial(KnownVersion) /\ e.after \in Partial(KnownVersion) /\ s \in DOMAIN e.before
    BY DEF HistoryEntry
  <2>2. s \in Segments /\ e.before[s] \in KnownVersion /\ e.after[s] \in KnownVersion
    BY <2>1, PartialIs
  <2>3. e.before[s].revision \in Nat /\ e.after[s].revision \in Nat
    BY <2>2 DEF KnownVersion
  <2>4. /\ e.after[s].revision <= Len(store[s])
        /\ \A n \in e.before[s].revision + 1 .. e.after[s].revision : store[s][n].ours
    BY <1>2 DEF OursBetween, Revision
  <2>5. Len(store[s]) <= Len(store'[s]) /\ \A n \in 1 .. Len(store[s]) : store'[s][n] = store[s][n]
    BY <2>2 DEF Grown
  <2>6. Len(store[s]) \in Nat /\ Len(store'[s]) \in Nat
    BY <1>1, <2>2
  <2>7. e.before[s].revision + 1 .. e.after[s].revision \subseteq 1 .. Len(store[s])
    BY <2>3, <2>4, <2>6
  <2> QED
    BY <2>3, <2>4, <2>5, <2>6, <2>7
<1>3. ASSUME NEW k \in KnownVersion, NEW s \in Segments, Committed(k, s) PROVE Committed(k, s)'
  <2>1. k.revision \in Nat
    BY DEF KnownVersion
  <2>2. Len(store[s]) <= Len(store'[s]) /\ \A n \in 1 .. Len(store[s]) : store'[s][n] = store[s][n]
    BY DEF Grown
  <2> QED
    BY <1>1, <1>3, <2>1, <2>2 DEF Committed, Revision
<1> QED
  BY <1>2, <1>3

LEMMA TaskSame ==
    ASSUME NEW r, NEW t, Same(r, t)
    PROVE  /\ IsOp(r) <=> IsOp(t)
           /\ IsLoad(r) <=> IsLoad(t)
           /\ TaskOK(r) <=> TaskOK(t)
BY DEF Same, IsOp, IsLoad, OperationCurrent, TaskOK

LEMMA GrowStep ==
    ASSUME SessionInv, SessionTypes', Grown, UNCHANGED <<session, checking, ui>>, bound <= bound',
           DOMAIN queue' = DOMAIN queue,
           \A i \in DOMAIN queue : Same(queue'[i], queue[i]) /\ (i # 1 => queue'[i] = queue[i]),
           (queue # << >> => AskedOK(queue[1]) /\ ReplyOK(queue[1]))'
    PROVE  SessionInv'
<1>0. /\ SessionTypes /\ BusyOK /\ LoadOK /\ QueueOK /\ IdsOK /\ PendingOK /\ ShownOK
      /\ KnownIsCommitted
      /\ \A u \in UnderWay : TaskOK(u)
      /\ \A i \in DOMAIN ui.history : OursBetween(ui.history[i])
      /\ ui \in Editor /\ session \in SessionRecord /\ bound \in Nat /\ bound' \in Nat
  BY DEF SessionInv, SessionTypes
<1>1. /\ \A e \in HistoryEntry : OursBetween(e) => OursBetween(e)'
      /\ \A k \in KnownVersion, s \in Segments : Committed(k, s) => Committed(k, s)'
  BY <1>0, GrownKeeps
<1>2. \A i \in DOMAIN queue : /\ IsOp(queue'[i]) <=> IsOp(queue[i])
                              /\ IsLoad(queue'[i]) <=> IsLoad(queue[i])
                              /\ TaskOK(queue'[i]) <=> TaskOK(queue[i])
  BY TaskSame
<1>3. /\ \A t : IsOp(t)' <=> IsOp(t)
      /\ \A t : OperationCurrent(t)' <=> OperationCurrent(t)
  BY DEF IsOp, OperationCurrent
<1>4. ASSUME NEW t \in UnderWay' PROVE \E u \in UnderWay : Same(t, u)
  BY DEF UnderWay, Same
<1>5. ASSUME NEW u \in UnderWay PROVE \E t \in UnderWay' : Same(t, u)
  BY DEF UnderWay, Same
<1>6. BusyOK'
  <2>1. \A i, j \in DOMAIN queue' : IsOp(queue'[i]) /\ IsOp(queue'[j]) => i = j
    BY <1>0, <1>2 DEF BusyOK
  <2>2. \A t \in checking', i \in DOMAIN queue' : ~(IsOp(t) /\ IsOp(queue'[i]))
    BY <1>0, <1>2 DEF BusyOK
  <2>3. (\E t \in UnderWay' : IsOp(t)) <=> (\E t \in UnderWay : IsOp(t))
    BY <1>4, <1>5, TaskSame
  <2> QED
    BY <1>0, <2>1, <2>2, <2>3, BusyStays DEF BusyOK
<1>7. LoadOK'
  BY <1>0, <1>2, LoadStays DEF LoadOK
<1>8. QueueOK'
  BY <1>0 DEF QueueOK
<1>9. IdsOK'
  <2>1. session.id \in Nat
    BY <1>0 DEF SessionRecord
  <2> QED
    BY <1>0, <2>1 DEF IdsOK
<1>10. ASSUME NEW t \in TaskRecord, TaskOK(t) PROVE TaskOK(t)'
  <2>1. t.undo # None => OursBetween(t.undo)'
    BY <1>1, <1>10 DEF TaskRecord, TaskOK
  <2> QED
    BY <1>10, <2>1 DEF TaskOK
<1>11. (\A u \in UnderWay : TaskOK(u))'
  <2>1. ASSUME NEW t \in UnderWay' PROVE TaskOK(t)'
    <3>1. PICK u \in UnderWay : Same(t, u)
      BY <1>4
    <3>2. TaskOK(t)
      BY <1>0, <3>1, TaskSame
    <3>3. t \in TaskRecord
      BY UnderWayTypes, <1>0 DEF SessionTypes, UnderWay
    <3> QED
      BY <1>10, <3>2, <3>3
  <2> QED
    BY <2>1
<1>12. PendingOK'
  <2> SUFFICES ASSUME ui.pending # None
               PROVE  /\ ui.pending.kind = "save" /\ ui.pending.at = "queued"
                      /\ OperationCurrent(ui.pending)' /\ TaskOK(ui.pending)'
                      /\ \A t \in UnderWay' : IsOp(t)' /\ t.kind = "save" => t.change = ui.pending.change
    BY DEF PendingOK
  <2>1. PICK p : p = ui.pending
    OBVIOUS
  <2>2. p \in TaskRecord /\ OperationCurrent(p) /\ TaskOK(p) /\ p.kind = "save" /\ p.at = "queued"
    BY <1>0, <2>1 DEF PendingOK, Editor
  <2>3. OperationCurrent(p)' /\ TaskOK(p)'
    BY <1>3, <1>10, <2>2
  <2>4. OperationCurrent(ui.pending)' /\ TaskOK(ui.pending)'
    BY <2>1, <2>3 DEF OperationCurrent, TaskOK, OursBetween, Revision
  <2>5. ASSUME NEW t \in UnderWay', IsOp(t)', t.kind = "save" PROVE t.change = p.change
    <3>1. PICK u \in UnderWay : Same(t, u)
      BY <1>4
    <3>2. IsOp(u) /\ u.kind = "save"
      BY <1>3, <2>5, <3>1, TaskSame DEF Same
    <3> QED
      BY <1>0, <2>1, <3>1, <3>2 DEF PendingOK, Same
  <2> QED
    BY <2>1, <2>2, <2>4, <2>5
<1>13. ShownOK'
  <2>1. ASSUME NEW s \in Segments, ~Open(s)' PROVE ~Open(s)
    <3>1. ASSUME NEW u \in UnderWay, IsOp(u), s \in DOMAIN u.change PROVE FALSE
      <4>1. PICK t \in UnderWay' : Same(t, u)
        BY <1>5
      <4>2. IsOp(t)' /\ s \in DOMAIN t.change
        BY <1>3, <3>1, <4>1, TaskSame DEF Same
      <4> QED
        BY <2>1, <4>2 DEF Open
    <3> QED
      BY <2>1, <3>1 DEF Open
  <2> QED
    BY <1>0, <2>1 DEF ShownOK
<1>14. KnownIsCommitted'
  <2>1. \A s \in Segments : session.known[s] \in KnownVersion /\ Committed(session.known[s], s)
    BY <1>0 DEF KnownIsCommitted, Committed, SessionRecord
  <2>2. \A s \in Segments : Committed(session.known[s], s)'
    BY <1>1, <2>1 DEF Committed, Revision
  <2> QED
    BY <2>2 DEF KnownIsCommitted, Committed
<1>15. (\A i \in DOMAIN ui.history : OursBetween(ui.history[i]))'
  <2>1. \A i \in DOMAIN ui.history : ui.history[i] \in HistoryEntry
    BY <1>0 DEF Editor
  <2> QED
    BY <1>0, <1>1, <2>1 DEF OursBetween, Revision
<1> QED
  BY <1>6, <1>7, <1>8, <1>9, <1>11, <1>12, <1>13, <1>14, <1>15 DEF SessionInv
\* The head of the queue is asked, or answered.
LEMMA HeadStep ==
    ASSUME SessionInv, UNCHANGED <<session, checking, ui>>, bound' \in Nat, bound <= bound',
           store' \in [Segments -> Seq(SavedVersion)], Grown,
           count' \in [operations : Nat, others : Nat, errors : Nat],
           NEW r \in TaskRecord, queue # << >>, Same(r, queue[1]), queue' = <<r>> \o Tail(queue),
           AskedOK(r)', ReplyOK(r)'
    PROVE  SessionInv'
<1>0. SessionTypes /\ queue \in Seq(TaskRecord)
  BY DEF SessionInv, SessionTypes
<1>1. /\ queue' \in Seq(TaskRecord) /\ 1 \in DOMAIN queue /\ DOMAIN queue' = DOMAIN queue
      /\ queue'[1] = r
      /\ \A i \in DOMAIN queue : i # 1 => queue'[i] = queue[i]
  BY <1>0, QueueHead
<1>2. SessionTypes'
  BY <1>0, <1>1 DEF SessionTypes
<1>3. \A i \in DOMAIN queue : Same(queue'[i], queue[i]) /\ (i # 1 => queue'[i] = queue[i])
  BY <1>1 DEF Same
<1>4. (queue # << >> => AskedOK(queue[1]) /\ ReplyOK(queue[1]))'
  <2>1. AskedOK(queue[1])'
    BY <1>1 DEF AskedOK, Committed, Revision
  <2>2. ReplyOK(queue[1])'
    BY <1>1 DEF ReplyOK, Committed, Revision
  <2> QED
    BY <2>1, <2>2
<1> QED
  BY <1>1, <1>2, <1>3, <1>4, GrowStep

LEMMA StoredStays ==
    ASSUME SessionTypes, UNCHANGED <<store, bound>>
    PROVE  /\ bound' \in Nat /\ bound <= bound'
           /\ store' \in [Segments -> Seq(SavedVersion)] /\ Grown
<1>1. \A s \in Segments : Len(store[s]) \in Nat
  BY DEF SessionTypes
<1> QED
  BY <1>1 DEF SessionTypes, Grown

LEMMA BeginInv ==
    ASSUME SessionInv, Begin
    PROVE  SessionInv'
<1>0. /\ SessionTypes /\ QueueOK /\ LoadOK /\ KnownIsCommitted /\ \A u \in UnderWay : TaskOK(u)
      /\ ui \in Editor /\ queue \in Seq(TaskRecord) /\ session \in SessionRecord
      /\ count \in [operations : Nat, others : Nat, errors : Nat]
  BY DEF SessionInv, SessionTypes
<1>1. PICK t : t = queue[1]
  OBVIOUS
<1>2. queue # << >> /\ Head(queue) = t /\ t \in TaskRecord /\ 1 \in DOMAIN queue /\ t \in UnderWay
  <2>1. queue # << >>
    BY DEF Begin
  <2> QED
    BY <1>0, <1>1, <2>1, QueueTail DEF UnderWay
<1>3. /\ t.at = "queued" /\ UNCHANGED <<store, bound, session, checking>>
      /\ \/ /\ MaySend(t)
            /\ Asked(t, [s \in DOMAIN t.change |-> session.known[s].revision])
            /\ UNCHANGED <<ui, count>>
         \/ /\ \/ ~MaySend(t) /\ UNCHANGED count
               \/ t.kind = "save" /\ Wrong
            /\ ui' = Ended(t) /\ queue' = Rest
  BY <1>2 DEF Begin
<1>4. CASE /\ MaySend(t)
           /\ Asked(t, [s \in DOMAIN t.change |-> session.known[s].revision])
           /\ UNCHANGED <<ui, count>>
  <2>1. PICK sent : sent = [s \in DOMAIN t.change |-> session.known[s].revision]
    OBVIOUS
  <2>2. PICK r : r = [t EXCEPT !.at = "asked", !.sent = sent]
    OBVIOUS
  <2>3. DOMAIN t.change \subseteq Segments
    BY <1>2, PartialIs DEF TaskRecord
  <2>4. \A s \in Segments : session.known[s] \in KnownVersion /\ session.known[s].revision \in Nat
    BY <1>0 DEF SessionRecord, KnownVersion
  <2>5. sent \in Partial(Nat) /\ \A s \in DOMAIN t.change : sent[s] = session.known[s].revision
    <3>1. sent \in [DOMAIN t.change -> Nat]
      BY <2>1, <2>3, <2>4
    <3>2. sent \in Partial(Nat)
      BY <2>3, <3>1, PartialHas
    <3> QED
      BY <2>1, <3>2
  <2>6. r \in TaskRecord /\ Same(r, t) /\ r.at = "asked" /\ r.sent = sent
    BY <1>2, <2>2, <2>5 DEF TaskRecord, Same
  <2>7. queue' = <<r>> \o Tail(queue)
    BY <1>4, <2>1, <2>2 DEF Asked, Rest
  <2>8. AskedOK(r)
    <3> SUFFICES ASSUME r.kind = "save", NEW s \in DOMAIN r.change
                 PROVE  r.sent[s] = r.expected[s].revision /\ Committed(r.expected[s], s)
      BY DEF AskedOK
    <3>1. s \in DOMAIN t.change /\ s \in Segments /\ r.expected[s] = t.expected[s]
      BY <2>3, <2>6 DEF Same
    <3>2. session.known[s] = t.expected[s]
      BY <1>4, <2>6, <3>1 DEF MaySend, Expected, Same
    <3>3. Committed(session.known[s], s)
      BY <1>0, <3>1 DEF KnownIsCommitted, Committed
    <3> QED
      BY <2>5, <2>6, <3>1, <3>2, <3>3
  <2>9. AskedOK(r)' /\ ReplyOK(r)'
    BY <1>3, <2>6, <2>8 DEF AskedOK, ReplyOK, Committed, Revision
  <2> QED
    BY <1>0, <1>1, <1>2, <1>3, <1>4, <2>6, <2>7, <2>9, StoredStays, HeadStep
<1>5. CASE /\ \/ ~MaySend(t) /\ UNCHANGED count
              \/ t.kind = "save" /\ Wrong
           /\ ui' = Ended(t) /\ queue' = Rest
  <2>1. Ends(t) /\ queue' = Tail(queue)
    BY <1>1, <1>2, <1>3, <1>5 DEF Ends, Rest
  <2>2. count' \in [operations : Nat, others : Nat, errors : Nat]
    BY <1>0, <1>5, CountedIs
  <2>3. CASE t.kind # "prepare"
    <3>1. ui' = Undone(ui, t)
      BY <1>5, <2>3 DEF Ended
    <3> QED
      BY <1>3, <2>1, <2>2, <2>3, <3>1, UndoneStep
  <2>4. CASE t.kind = "prepare"
    <3>1. PICK v : v = Ended(t)
      OBVIOUS
    <3>2. /\ v \in Editor
          /\ (v.loading <=> ui.loading /\ t.epoch # ui.sources)
          /\ v.session = ui.session /\ v.epoch = ui.epoch /\ v.sources = ui.sources
          /\ v.shown = ui.shown /\ v.history = ui.history /\ v.busy = ui.busy
          /\ v.pending = ui.pending /\ v.loaded = ui.loaded
      BY <1>0, <2>4, <3>1, EndedIs
    <3> QED
      BY <1>1, <1>2, <1>3, <1>5, <2>1, <2>2, <2>4, <3>1, <3>2, PrepareStep
  <2> QED
    BY <2>3, <2>4
<1> QED
  BY <1>3, <1>4, <1>5
\* What a request that is carried out makes of the store.
LEMMA SavedIs ==
    ASSUME SessionTypes, NEW t \in TaskRecord,
           store' = [s \in Segments |-> IF s \in DOMAIN t.change THEN Append(store[s], Version(t, s)) ELSE store[s]]
    PROVE  /\ store' \in [Segments -> Seq(SavedVersion)] /\ Grown
           /\ \A s \in DOMAIN t.change : /\ s \in Segments /\ Len(store'[s]) = Len(store[s]) + 1
                                         /\ store'[s][Len(store[s]) + 1] = Version(t, s)
           /\ \A s \in Segments : s \notin DOMAIN t.change => store'[s] = store[s]
<1>1. DOMAIN t.change \subseteq Segments /\ \A s \in DOMAIN t.change : t.change[s] \in Decisions
  BY PartialIs DEF TaskRecord
<1>2. \A s \in DOMAIN t.change : Version(t, s) \in SavedVersion
  BY <1>1 DEF Version, SavedVersion
<1>3. \A s \in Segments : store[s] \in Seq(SavedVersion)
  BY DEF SessionTypes
<1>4. ASSUME NEW s \in Segments
      PROVE  /\ store'[s] \in Seq(SavedVersion)
             /\ Len(store[s]) <= Len(store'[s])
             /\ \A n \in 1 .. Len(store[s]) : store'[s][n] = store[s][n]
             /\ s \in DOMAIN t.change => /\ Len(store'[s]) = Len(store[s]) + 1
                                         /\ store'[s][Len(store[s]) + 1] = Version(t, s)
             /\ s \notin DOMAIN t.change => store'[s] = store[s]
  <2>1. CASE s \in DOMAIN t.change
    <3>1. PICK v : v = Version(t, s)
      OBVIOUS
    <3>2. store'[s] = Append(store[s], v) /\ v \in SavedVersion
      BY <1>2, <2>1, <3>1
    <3>3. store[s] \in Seq(SavedVersion)
      BY <1>3
    <3>4. /\ store'[s] \in Seq(SavedVersion) /\ Len(store'[s]) = Len(store[s]) + 1
          /\ \A n \in 1 .. Len(store[s]) : store'[s][n] = store[s][n]
          /\ store'[s][Len(store[s]) + 1] = v
      BY <3>2, <3>3
    <3> QED
      BY <2>1, <3>1, <3>3, <3>4
  <2>2. CASE s \notin DOMAIN t.change
    BY <1>3, <2>2
  <2> QED
    BY <2>1, <2>2
<1>5. store' \in [Segments -> Seq(SavedVersion)]
  BY <1>4
<1> QED
  BY <1>1, <1>4, <1>5 DEF Grown

\* What the engine answers is what is saved.
LEMMA SnapshotIs ==
    ASSUME store' \in [Segments -> Seq(SavedVersion)], NEW known, known = Snapshot'
    PROVE  /\ known \in [Segments -> KnownVersion]
           /\ \A s \in Segments :
                /\ Len(store'[s]) \in Nat /\ known[s].revision = Len(store'[s])
                /\ Len(store'[s]) = 0 => known[s].decision = Default
                /\ Len(store'[s]) > 0 => known[s].decision = store'[s][Len(store'[s])].decision
<1>1. ASSUME NEW s \in Segments
      PROVE  /\ Len(store'[s]) \in Nat /\ Saved(s)' \in Decisions
             /\ Len(store'[s]) = 0 => Saved(s)' = Default
             /\ Len(store'[s]) > 0 => Saved(s)' = store'[s][Len(store'[s])].decision
  <2>1. PICK q : q = store'[s]
    OBVIOUS
  <2>2. q \in Seq(SavedVersion)
    BY <2>1
  <2>3. Saved(s)' = IF q = << >> THEN Default ELSE q[Len(q)].decision
    BY <2>1 DEF Saved, Revision
  <2>4. CASE q = << >>
    BY <2>1, <2>3, <2>4, SessionAssumption
  <2>5. CASE q # << >>
    <3>1. Len(q) \in Nat /\ Len(q) > 0 /\ q[Len(q)] \in SavedVersion
      BY <2>2, <2>5
    <3> QED
      BY <2>1, <2>3, <2>5, <3>1 DEF SavedVersion
  <2> QED
    BY <2>4, <2>5
<1>2. known = [s \in Segments |-> [decision |-> Saved(s)', revision |-> Len(store'[s])]]
  BY DEF Snapshot, Revision
<1>3. known \in [Segments -> KnownVersion]
  BY <1>1, <1>2 DEF KnownVersion
<1>4. \A s \in Segments : known[s].decision = Saved(s)' /\ known[s].revision = Len(store'[s])
  BY <1>1, <1>2
<1> QED
  BY <1>1, <1>3, <1>4

LEMMA ServeReviewInv ==
    ASSUME SessionInv, Serve
    PROVE  SessionInv'
<1>0. /\ SessionTypes /\ QueueOK /\ IdsOK /\ \A u \in UnderWay : TaskOK(u)
      /\ ui \in Editor /\ queue \in Seq(TaskRecord) /\ session \in SessionRecord
      /\ count \in [operations : Nat, others : Nat, errors : Nat]
      /\ bound \in Nat /\ session.id \in Nat
  BY DEF SessionInv, SessionTypes, SessionRecord
<1>1. PICK t : t = queue[1]
  OBVIOUS
<1>2. queue # << >> /\ Head(queue) = t /\ t \in TaskRecord /\ 1 \in DOMAIN queue /\ t \in UnderWay
  <2>1. queue # << >>
    BY DEF Serve
  <2> QED
    BY <1>0, <1>1, <2>1, QueueTail DEF UnderWay
<1>3. TaskOK(t) /\ AskedOK(t) /\ t.at = "asked" /\ UNCHANGED <<session, checking, ui>>
  BY <1>0, <1>1, <1>2 DEF SessionInv, Serve
<1>4. count' \in [operations : Nat, others : Nat, errors : Nat]
  BY <1>0, <1>2, CountedIs DEF Serve
<1>5. \/ /\ Accepts(t)
         /\ store' = [s \in Segments |->
                        IF s \in DOMAIN t.change THEN Append(store[s], Version(t, s)) ELSE store[s]]
         /\ bound' = IF t.kind = "prepare" THEN bound + 1 ELSE bound
         /\ Answered(t, [id |-> bound', known |-> Snapshot']) \/ Answered(t, None)
      \/ Answered(t, None) /\ UNCHANGED <<store, bound>>
  BY <1>2 DEF Serve
<1>6. /\ bound' \in Nat /\ bound <= bound'
      /\ store' \in [Segments -> Seq(SavedVersion)] /\ Grown
  BY <1>0, <1>2, <1>5, SavedIs, StoredStays
<1>7. PICK a : (a = None \/ (a = [id |-> bound', known |-> Snapshot'] /\ Accepts(t)
                             /\ store' = [s \in Segments |->
                                  IF s \in DOMAIN t.change THEN Append(store[s], Version(t, s)) ELSE store[s]]
                             /\ bound' = IF t.kind = "prepare" THEN bound + 1 ELSE bound))
                /\ Answered(t, a)
  BY <1>5
<1>8. PICK r : r = [t EXCEPT !.at = "answered", !.answer = a]
  OBVIOUS
<1>9. PICK known : known = Snapshot'
  OBVIOUS
<1>10. /\ known \in [Segments -> KnownVersion]
       /\ \A s \in Segments :
            /\ Len(store'[s]) \in Nat /\ known[s].revision = Len(store'[s])
            /\ Len(store'[s]) = 0 => known[s].decision = Default
            /\ Len(store'[s]) > 0 => known[s].decision = store'[s][Len(store'[s])].decision
  BY <1>6, <1>9, SnapshotIs
<1>11. a \in {None} \cup SessionRecord
  BY <1>6, <1>7, <1>9, <1>10 DEF SessionRecord
<1>12. r \in TaskRecord /\ Same(r, t) /\ r.at = "answered" /\ r.answer = a
  BY <1>2, <1>8, <1>11 DEF TaskRecord, Same
<1>13. queue' = <<r>> \o Tail(queue)
  BY <1>7, <1>8 DEF Answered, Rest
<1>14. AskedOK(r)'
  BY <1>12 DEF AskedOK
<1>15. ReplyOK(r)'
  <2> SUFFICES ASSUME a # None
               PROVE  /\ a.id = bound'
                      /\ r.kind = "prepare" => session'.id < bound'
                      /\ \A s \in Segments : Committed(a.known[s], s)'
                      /\ r.kind = "save" =>
                           \A s \in DOMAIN r.change :
                               /\ a.known[s].decision = r.change[s]
                               /\ a.known[s].revision = r.expected[s].revision + 1
                               /\ store'[s][a.known[s].revision].ours
    BY <1>12 DEF ReplyOK
  <2>1. /\ a.id = bound' /\ a.known = known /\ Accepts(t)
        /\ store' = [s \in Segments |->
                       IF s \in DOMAIN t.change THEN Append(store[s], Version(t, s)) ELSE store[s]]
        /\ bound' = IF t.kind = "prepare" THEN bound + 1 ELSE bound
    BY <1>7, <1>9
  <2>2. \A s \in DOMAIN t.change : /\ s \in Segments /\ Len(store'[s]) = Len(store[s]) + 1
                                   /\ store'[s][Len(store[s]) + 1] = Version(t, s)
    BY <1>0, <1>2, <2>1, SavedIs
  <2>3. \A s \in Segments : Len(store[s]) \in Nat
    BY <1>0 DEF SessionTypes
  <2>4. \A s \in Segments : Committed(a.known[s], s)'
    BY <1>10, <2>1 DEF Committed, Revision
  <2>5. t.kind = "prepare" => session'.id < bound'
    BY <1>0, <1>3, <2>1 DEF IdsOK
  <2>6. ASSUME t.kind = "save", NEW s \in DOMAIN t.change
        PROVE  /\ a.known[s].decision = t.change[s]
               /\ a.known[s].revision = t.expected[s].revision + 1
               /\ store'[s][a.known[s].revision].ours
    <3>1. /\ s \in Segments /\ Len(store'[s]) = Len(store[s]) + 1 /\ Len(store[s]) \in Nat
          /\ store'[s][Len(store[s]) + 1] = Version(t, s)
      BY <2>2, <2>3, <2>6
    <3>2. Len(store[s]) = t.expected[s].revision
      BY <1>3, <2>1, <2>6 DEF Accepts, AskedOK, Revision
    <3>3. a.known[s].revision = Len(store[s]) + 1 /\ a.known[s].decision = Version(t, s).decision
      BY <1>10, <2>1, <3>1
    <3> QED
      BY <3>1, <3>2, <3>3 DEF Version
  <2> QED
    BY <1>12, <2>1, <2>4, <2>5, <2>6 DEF Same
<1> QED
  BY <1>1, <1>2, <1>3, <1>4, <1>6, <1>12, <1>13, <1>14, <1>15, HeadStep
-----------------------------------------------------------------------------
(* The history of operations.                                              *)

LEMMA RecordedIs ==
    ASSUME NEW history \in Seq(HistoryEntry), NEW t, NEW after, Len(history) <= HistoryLimit,
           [before |-> t.expected, after |-> after] \in HistoryEntry
    PROVE  LET r == Recorded(history, t, after)
           IN  /\ r \in Seq(HistoryEntry) /\ Len(r) <= HistoryLimit
               /\ \A i \in DOMAIN r : \/ r[i] = [before |-> t.expected, after |-> after]
                                      \/ \E j \in DOMAIN history : r[i] = history[j]
<1>1. PICK e : e = [before |-> t.expected, after |-> after]
  OBVIOUS
<1>2. PICK longer : longer = Append(history, e)
  OBVIOUS
<1>3. /\ longer \in Seq(HistoryEntry) /\ Len(longer) = Len(history) + 1 /\ Len(history) \in Nat
      /\ \A i \in 1 .. Len(longer) : longer[i] = e \/ (i \in DOMAIN history /\ longer[i] = history[i])
  BY <1>1, <1>2
<1>4. PICK m \in {1, 2} : m = IF Len(longer) > HistoryLimit THEN 2 ELSE 1
  OBVIOUS
<1>5. PICK r : r = SubSeq(longer, m, Len(longer))
  OBVIOUS
<1>6. /\ r \in Seq(HistoryEntry) /\ Len(r) = Len(longer) - m + 1
      /\ \A i \in 1 .. Len(r) : r[i] = longer[i + m - 1]
  <2>1. Len(longer) \in Nat /\ Len(longer) >= 1 /\ longer \in Seq(HistoryEntry)
    BY <1>3
  <2>2. CASE m = 1
    BY <1>5, <2>1, <2>2
  <2>3. CASE m = 2
    <3>1. r = SubSeq(longer, 2, Len(longer))
      BY <1>5, <2>3
    <3>2. DOMAIN r = 1 .. Len(longer) - 1
      BY <2>1, <3>1
    <3>3. \A i \in 1 .. Len(longer) - 1 : r[i] = longer[i + 1] /\ i + 1 \in 1 .. Len(longer)
      BY <2>1, <3>1
    <3>4. Len(r) = Len(longer) - 1 /\ r \in Seq(HistoryEntry)
      <4>1. Len(longer) - 1 \in Nat /\ \A i \in 1 .. Len(longer) - 1 : longer[i + 1] \in HistoryEntry
        BY <2>1
      <4>2. r = [i \in 1 .. Len(longer) - 1 |-> longer[i + 1]]
        BY <2>1, <3>1
      <4>3. r \in [1 .. Len(longer) - 1 -> HistoryEntry]
        BY <4>1, <4>2
      <4> QED
        BY <3>2, <4>1, <4>3
    <3> QED
      BY <2>3, <3>2, <3>3, <3>4
  <2> QED
    BY <2>2, <2>3
<1>7. Len(r) <= HistoryLimit
  BY <1>3, <1>4, <1>6, SessionAssumption
<1>8. \A i \in DOMAIN r : r[i] = e \/ \E j \in DOMAIN history : r[i] = history[j]
  <2>1. ASSUME NEW i \in DOMAIN r PROVE i + m - 1 \in 1 .. Len(longer) /\ r[i] = longer[i + m - 1]
    BY <1>3, <1>4, <1>6
  <2> QED
    BY <1>3, <2>1
<1>9. Recorded(history, t, after) = r
  BY <1>1, <1>2, <1>4, <1>5 DEF Recorded
<1> QED
  BY <1>1, <1>6, <1>7, <1>8, <1>9

LEMMA RebasedIs ==
    ASSUME NEW history \in Seq(HistoryEntry), NEW last \in HistoryEntry, NEW after \in Partial(KnownVersion),
           DOMAIN after = DOMAIN last.before, Len(history) <= HistoryLimit,
           NEW r, r = Rebased(history, last, after)
    PROVE  /\ r \in Seq(HistoryEntry) /\ Len(r) <= HistoryLimit
           /\ \A i \in DOMAIN r :
                /\ i \in DOMAIN history /\ r[i].before = history[i].before
                /\ DOMAIN r[i].after = DOMAIN history[i].after
                /\ \A s \in DOMAIN r[i].after :
                     \/ r[i].after[s] = history[i].after[s]
                     \/ /\ s \in DOMAIN last.before /\ history[i].after[s] = last.before[s]
                        /\ r[i].after[s] = after[s]
<1> DEFINE rest == SubSeq(history, 1, Len(history) - 1)
           touching(s) == {i \in DOMAIN rest : s \in DOMAIN rest[i].after}
           latest(s) == CHOOSE i \in touching(s) : \A j \in touching(s) : j <= i
           moved(i, s) == s \in DOMAIN last.before /\ i = latest(s)
                          /\ rest[i].after[s] = last.before[s]
           next(i) == [s \in DOMAIN rest[i].after |-> IF moved(i, s) THEN after[s] ELSE rest[i].after[s]]
           based == [i \in DOMAIN rest |-> [rest[i] EXCEPT !.after = next(i)]]
<1>1. r = based
  BY DEF Rebased
<1>2. \A i, s : moved(i, s) => s \in DOMAIN last.before /\ rest[i].after[s] = last.before[s]
  OBVIOUS
<1>3. /\ rest \in Seq(HistoryEntry) /\ Len(rest) <= Len(history) /\ DOMAIN rest = 1 .. Len(rest)
      /\ Len(rest) \in Nat /\ Len(history) \in Nat
      /\ \A i \in DOMAIN rest : i \in DOMAIN history /\ rest[i] = history[i]
  <2>1. CASE history = << >>
    BY <2>1
  <2>2. CASE history # << >>
    <3>1. Len(history) - 1 \in Nat /\ Len(history) - 1 <= Len(history) /\ Len(history) \in Nat
      BY <2>2
    <3> QED
      BY <3>1
  <2> QED
    BY <2>1, <2>2
<1> HIDE DEF moved, rest
<1>4. ASSUME NEW i \in DOMAIN rest
      PROVE  /\ next(i) \in Partial(KnownVersion) /\ DOMAIN next(i) = DOMAIN history[i].after
             /\ \A s \in DOMAIN history[i].after :
                  \/ next(i)[s] = history[i].after[s]
                  \/ /\ s \in DOMAIN last.before /\ history[i].after[s] = last.before[s]
                     /\ next(i)[s] = after[s]
  <2>1. rest[i] = history[i] /\ history[i] \in HistoryEntry
    BY <1>3
  <2>2. DOMAIN history[i].after \subseteq Segments /\ \A s \in DOMAIN history[i].after : history[i].after[s] \in KnownVersion
    BY <2>1, PartialIs DEF HistoryEntry
  <2>3. \A s \in DOMAIN after : after[s] \in KnownVersion
    BY PartialIs
  <2>4. DOMAIN next(i) = DOMAIN history[i].after
    BY <2>1
  <2>5. \A s \in DOMAIN history[i].after :
          \/ next(i)[s] = history[i].after[s]
          \/ /\ s \in DOMAIN last.before /\ history[i].after[s] = last.before[s]
             /\ next(i)[s] = after[s]
    BY <1>2, <2>1
  <2>6. next(i) \in [DOMAIN history[i].after -> KnownVersion]
    BY <2>1, <2>2, <2>3, <2>5
  <2>7. next(i) \in Partial(KnownVersion)
    BY <2>2, <2>6, PartialHas
  <2> QED
    BY <2>4, <2>5, <2>7
<1> HIDE DEF next
<1>5. ASSUME NEW i \in DOMAIN rest
      PROVE  based[i] \in HistoryEntry /\ based[i].before = history[i].before /\ based[i].after = next(i)
  <2>1. rest[i] = history[i] /\ history[i] \in HistoryEntry
    BY <1>3
  <2>2. based[i] = [rest[i] EXCEPT !.after = next(i)]
    OBVIOUS
  <2> QED
    BY <1>4, <2>1, <2>2 DEF HistoryEntry
<1>6. based \in Seq(HistoryEntry) /\ Len(based) = Len(rest) /\ DOMAIN based = DOMAIN rest
  <2>1. based \in [1 .. Len(rest) -> HistoryEntry]
    BY <1>3, <1>5
  <2> HIDE DEF based
  <2> QED
    BY <1>3, <2>1
<1> HIDE DEF based
<1>7. \A i \in DOMAIN r :
        /\ i \in DOMAIN history /\ r[i].before = history[i].before
        /\ DOMAIN r[i].after = DOMAIN history[i].after
        /\ \A s \in DOMAIN r[i].after :
             \/ r[i].after[s] = history[i].after[s]
             \/ /\ s \in DOMAIN last.before /\ history[i].after[s] = last.before[s]
                /\ r[i].after[s] = after[s]
  BY <1>1, <1>3, <1>4, <1>5, <1>6
<1>8. r \in Seq(HistoryEntry) /\ Len(r) <= HistoryLimit
  BY <1>1, <1>3, <1>6, SessionAssumption
<1> QED
  BY <1>7, <1>8

\* What a finished operation makes of the window.
LEMMA DoneIs ==
    ASSUME NEW u \in Editor, NEW t \in TaskRecord, NEW known \in [Segments -> KnownVersion],
           DOMAIN t.change = DOMAIN t.expected, Len(u.history) <= HistoryLimit,
           t.undo # None => DOMAIN t.undo.after = DOMAIN t.change,
           NEW v, v = Done(u, t, known), NEW after, after = [s \in DOMAIN t.change |-> known[s]]
    PROVE  /\ v \in Editor /\ ~v.busy /\ v.pending = None
           /\ v.session = u.session /\ v.epoch = u.epoch /\ v.sources = u.sources
           /\ v.loading = u.loading /\ v.loaded = u.loaded
           /\ \A s \in Segments : v.shown[s] = IF s \in DOMAIN t.change THEN t.change[s] ELSE u.shown[s]
           /\ Len(v.history) <= HistoryLimit
           /\ v.history = IF t.undo = None THEN Recorded(u.history, t, after)
                          ELSE Rebased(u.history, t.undo, after)
           /\ after \in Partial(KnownVersion) /\ [before |-> t.expected, after |-> after] \in HistoryEntry
           /\ t.undo # None => t.undo \in HistoryEntry /\ DOMAIN after = DOMAIN t.undo.before
<1>1. t.change \in Partial(Decisions) /\ t.expected \in Partial(KnownVersion) /\ t.undo \in {None} \cup HistoryEntry
  BY DEF TaskRecord
<1>2. DOMAIN t.change \subseteq Segments
  BY <1>1, PartialIs
<1>3. after \in Partial(KnownVersion) /\ DOMAIN after = DOMAIN t.change
  BY <1>2, PartialHas
<1>4. [before |-> t.expected, after |-> after] \in HistoryEntry
  BY <1>1, <1>3 DEF HistoryEntry
<1>5. t.undo # None => t.undo \in HistoryEntry /\ DOMAIN after = DOMAIN t.undo.before
  BY <1>1, <1>3 DEF HistoryEntry
<1>6. u.history \in Seq(HistoryEntry)
  BY DEF Editor
<1>7. PICK h : h = IF t.undo = None THEN Recorded(u.history, t, after) ELSE Rebased(u.history, t.undo, after)
  OBVIOUS
<1>8. h \in Seq(HistoryEntry) /\ Len(h) <= HistoryLimit
  <2>1. CASE t.undo = None
    BY <1>4, <1>6, <1>7, <2>1, RecordedIs
  <2>2. CASE t.undo # None
    BY <1>3, <1>5, <1>6, <1>7, <2>2, RebasedIs
  <2> QED
    BY <2>1, <2>2
<1>9. PICK a : a = Shows(u, t.change)
  OBVIOUS
<1>10. /\ a \in Editor
       /\ a.session = u.session /\ a.epoch = u.epoch /\ a.sources = u.sources
       /\ a.busy = u.busy /\ a.history = u.history /\ a.pending = u.pending
       /\ a.loading = u.loading /\ a.loaded = u.loaded
       /\ \A s \in Segments : a.shown[s] = IF s \in DOMAIN t.change THEN t.change[s] ELSE u.shown[s]
  BY <1>1, <1>9, ShowsIs
<1>11. PICK b : b = [a EXCEPT !.pending = None, !.history = h]
  OBVIOUS
<1>12. /\ b \in Editor /\ b.pending = None /\ b.history = h
       /\ b.session = a.session /\ b.epoch = a.epoch /\ b.sources = a.sources
       /\ b.shown = a.shown /\ b.loading = a.loading /\ b.loaded = a.loaded
  BY <1>8, <1>10, <1>11 DEF Editor
<1>13. PICK w : w = [b EXCEPT !.busy = FALSE]
  OBVIOUS
<1>14. /\ w \in Editor /\ ~w.busy /\ w.pending = b.pending /\ w.history = b.history
       /\ w.session = b.session /\ w.epoch = b.epoch /\ w.sources = b.sources
       /\ w.shown = b.shown /\ w.loading = b.loading /\ w.loaded = b.loaded
  BY <1>12, <1>13 DEF Editor
<1>15. Done(u, t, known) = w
  <2>1. Done(u, t, known) =
          [a EXCEPT !.busy = FALSE, !.pending = None,
                    !.history = IF t.undo = None THEN Recorded(@, t, after) ELSE Rebased(@, t.undo, after)]
    BY <1>9 DEF Done
  <2>2. Done(u, t, known) = [[[a EXCEPT !.busy = FALSE] EXCEPT !.pending = None] EXCEPT !.history = h]
    <3>1. PICK c : c = [[a EXCEPT !.busy = FALSE] EXCEPT !.pending = None]
      OBVIOUS
    <3>2. c.history = a.history
      BY <1>10, <3>1 DEF Editor
    <3>3. Done(u, t, known) =
            [c EXCEPT !.history = IF t.undo = None THEN Recorded(@, t, after) ELSE Rebased(@, t.undo, after)]
      BY <2>1, <3>1
    <3>4. h = IF t.undo = None THEN Recorded(c.history, t, after) ELSE Rebased(c.history, t.undo, after)
      BY <1>7, <1>10, <3>2
    <3> QED
      BY <3>1, <3>3, <3>4
  <2> QED
    BY <1>10, <1>11, <1>13, <2>2 DEF Editor
<1>16. w.history = IF t.undo = None THEN Recorded(u.history, t, after) ELSE Rebased(u.history, t.undo, after)
  BY <1>7, <1>12, <1>14
<1> QED
  BY <1>3, <1>4, <1>5, <1>8, <1>10, <1>12, <1>14, <1>15, <1>16
\* What an operation replaced and what it left are the window's once it is saved.
LEMMA SavedIsOurs ==
    ASSUME SessionTypes, NEW t \in TaskRecord, t.kind = "save", t.at = "answered", t.answer # None,
           TaskOK(t), ReplyOK(t), NEW known, \A s \in DOMAIN t.change : known[s] = t.answer.known[s],
           NEW after, after = [s \in DOMAIN t.change |-> known[s]]
    PROVE  /\ OursBetween([before |-> t.expected, after |-> after])
           /\ \A e \in HistoryEntry : \A s \in DOMAIN e.after :
                t.undo # None /\ OursBetween(e) /\ s \in DOMAIN t.undo.before /\ e.after[s] = t.undo.before[s]
                  => /\ after[s].revision <= Revision(s)
                     /\ \A n \in e.before[s].revision + 1 .. after[s].revision : store[s][n].ours
<1>1. /\ t.change \in Partial(Decisions) /\ t.expected \in Partial(KnownVersion)
      /\ t.answer \in SessionRecord /\ t.undo \in {None} \cup HistoryEntry
  BY DEF TaskRecord
<1>2. ASSUME NEW s \in DOMAIN t.change
      PROVE  /\ s \in Segments /\ after[s].revision = t.expected[s].revision + 1
             /\ after[s].revision <= Len(store[s]) /\ store[s][after[s].revision].ours
             /\ t.expected[s] \in KnownVersion /\ t.expected[s].revision \in Nat /\ after[s].revision \in Nat
  <2>1. s \in Segments /\ s \in DOMAIN t.expected
    BY <1>1, PartialIs DEF TaskOK
  <2>2. t.expected[s] \in KnownVersion /\ t.expected[s].revision \in Nat
    <3>1. t.expected[s] \in KnownVersion
      BY <1>1, <2>1, PartialIs
    <3> QED
      BY <3>1 DEF KnownVersion
  <2>3. after[s] = t.answer.known[s]
    OBVIOUS
  <2>4. Committed(t.answer.known[s], s) /\ t.answer.known[s].revision = t.expected[s].revision + 1
        /\ store[s][t.answer.known[s].revision].ours
    BY <2>1 DEF ReplyOK
  <2>5. t.answer.known[s].revision <= Len(store[s])
    BY <2>4 DEF Committed, Revision
  <2> QED
    BY <2>1, <2>2, <2>3, <2>4, <2>5
<1>3. OursBetween([before |-> t.expected, after |-> after])
  <2>1. ASSUME NEW s \in DOMAIN t.change
        PROVE  /\ after[s].revision <= Revision(s)
               /\ \A n \in t.expected[s].revision + 1 .. after[s].revision : store[s][n].ours
    <3>1. \A n \in t.expected[s].revision + 1 .. after[s].revision : n = after[s].revision
      <4>1. /\ after[s].revision = t.expected[s].revision + 1
            /\ t.expected[s].revision \in Nat /\ after[s].revision \in Nat
        BY <1>2
      <4> QED
        BY <4>1
    <3> QED
      BY <1>2, <3>1 DEF Revision
  <2>2. DOMAIN after = DOMAIN t.change
    OBVIOUS
  <2> QED
    BY <2>1, <2>2 DEF OursBetween
<1>4. ASSUME NEW e \in HistoryEntry, NEW s \in DOMAIN e.after,
             t.undo # None, OursBetween(e), s \in DOMAIN t.undo.before, e.after[s] = t.undo.before[s]
      PROVE  /\ after[s].revision <= Revision(s)
             /\ \A n \in e.before[s].revision + 1 .. after[s].revision : store[s][n].ours
  <2>1. /\ e.before \in Partial(KnownVersion) /\ e.after \in Partial(KnownVersion) /\ s \in DOMAIN e.before
        /\ t.undo.before \in Partial(KnownVersion) /\ t.undo.after \in Partial(KnownVersion)
        /\ DOMAIN t.undo.before = DOMAIN t.undo.after
    BY <1>1, <1>4 DEF HistoryEntry
  <2>2. /\ e.before[s] \in KnownVersion /\ e.after[s] \in KnownVersion
        /\ t.undo.before[s] \in KnownVersion /\ t.undo.after[s] \in KnownVersion
    BY <1>4, <2>1, PartialIs
  <2>3. /\ e.before[s].revision \in Nat /\ e.after[s].revision \in Nat
        /\ t.undo.before[s].revision \in Nat /\ t.undo.after[s].revision \in Nat
    BY <2>2 DEF KnownVersion
  <2>4. t.expected = t.undo.after /\ OursBetween(t.undo) /\ s \in DOMAIN t.change /\ s \in DOMAIN t.undo.after
    BY <1>4, <2>1 DEF TaskOK
  <2>5. /\ after[s].revision = t.undo.after[s].revision + 1
        /\ after[s].revision <= Len(store[s]) /\ store[s][after[s].revision].ours
    BY <1>2, <2>4
  <2>6. \A n \in e.before[s].revision + 1 .. t.undo.before[s].revision : store[s][n].ours
    BY <1>4 DEF OursBetween
  <2>7. \A n \in t.undo.before[s].revision + 1 .. t.undo.after[s].revision : store[s][n].ours
    BY <2>4 DEF OursBetween
  <2>8. ASSUME NEW n \in e.before[s].revision + 1 .. after[s].revision
        PROVE  \/ n \in e.before[s].revision + 1 .. t.undo.before[s].revision
               \/ n \in t.undo.before[s].revision + 1 .. t.undo.after[s].revision
               \/ n = after[s].revision
    BY <2>3, <2>5, SMTT(30)
  <2> QED
    BY <2>5, <2>6, <2>7, <2>8 DEF Revision
<1> QED
  BY <1>3, <1>4

\* An operation of the window was saved.
LEMMA DoneStep ==
    ASSUME SessionInv, UNCHANGED <<store, bound, checking>>, NEW t, queue # << >>, t = queue[1],
           queue' = Tail(queue), t.kind = "save", t.at = "answered", t.answer # None,
           OperationCurrent(t), t.session = session.id, session' = Learned(t),
           ui' = Done(ui, t, session'.known), UNCHANGED count
    PROVE  SessionInv'
<1>0. /\ SessionTypes /\ BusyOK /\ LoadOK /\ QueueOK /\ IdsOK /\ PendingOK /\ ShownOK
      /\ KnownIsCommitted
      /\ \A u \in UnderWay : TaskOK(u)
      /\ ReplyOK(t)
      /\ \A i \in DOMAIN ui.history : OursBetween(ui.history[i])
      /\ queue \in Seq(TaskRecord) /\ ui \in Editor
  BY DEF SessionInv, SessionTypes
<1>1. t \in TaskRecord /\ queue' \in Seq(TaskRecord) /\ 1 \in DOMAIN queue /\ t \in UnderWay /\ TaskOK(t)
  <2>1. t \in TaskRecord /\ queue' \in Seq(TaskRecord) /\ 1 \in DOMAIN queue
    BY <1>0, QueueTail
  <2> QED
    BY <1>0, <2>1 DEF UnderWay
<1>2. /\ Learned(t) \in SessionRecord /\ Learned(t).id = session.id
      /\ \A s \in Segments :
           Learned(t).known[s] = IF t.answer # None /\ (s \in DOMAIN t.change \/ t.kind = "refresh")
                                 THEN t.answer.known[s] ELSE session.known[s]
  BY <1>0, <1>1, LearnedIs
<1>3. PICK known : known = session'.known
  OBVIOUS
<1>4. /\ session' \in SessionRecord /\ session'.id = session.id /\ known \in [Segments -> KnownVersion]
      /\ \A s \in Segments : known[s] = IF s \in DOMAIN t.change THEN t.answer.known[s] ELSE session.known[s]
  BY <1>2, <1>3 DEF SessionRecord
<1>5. /\ DOMAIN t.change = DOMAIN t.expected /\ DOMAIN t.change \subseteq Segments
      /\ t.undo # None => DOMAIN t.undo.after = DOMAIN t.change
      /\ Len(ui.history) <= HistoryLimit
  BY <1>0, <1>1, PartialIs DEF TaskOK, TaskRecord, IdsOK
<1>6. PICK after : after = [s \in DOMAIN t.change |-> known[s]]
  OBVIOUS
<1>7. /\ ui' \in Editor /\ ~ui'.busy /\ ui'.pending = None
      /\ ui'.session = ui.session /\ ui'.epoch = ui.epoch /\ ui'.sources = ui.sources
      /\ ui'.loading = ui.loading /\ ui'.loaded = ui.loaded
      /\ \A s \in Segments : ui'.shown[s] = IF s \in DOMAIN t.change THEN t.change[s] ELSE ui.shown[s]
      /\ Len(ui'.history) <= HistoryLimit
      /\ ui'.history = IF t.undo = None THEN Recorded(ui.history, t, after)
                       ELSE Rebased(ui.history, t.undo, after)
      /\ after \in Partial(KnownVersion) /\ [before |-> t.expected, after |-> after] \in HistoryEntry
      /\ t.undo # None => t.undo \in HistoryEntry /\ DOMAIN after = DOMAIN t.undo.before
  <2>1. PICK v : v = Done(ui, t, known)
    OBVIOUS
  <2>2. /\ v \in Editor /\ ~v.busy /\ v.pending = None
        /\ v.session = ui.session /\ v.epoch = ui.epoch /\ v.sources = ui.sources
        /\ v.loading = ui.loading /\ v.loaded = ui.loaded
        /\ \A s \in Segments : v.shown[s] = IF s \in DOMAIN t.change THEN t.change[s] ELSE ui.shown[s]
        /\ Len(v.history) <= HistoryLimit
        /\ v.history = IF t.undo = None THEN Recorded(ui.history, t, after)
                       ELSE Rebased(ui.history, t.undo, after)
        /\ after \in Partial(KnownVersion) /\ [before |-> t.expected, after |-> after] \in HistoryEntry
        /\ t.undo # None => t.undo \in HistoryEntry /\ DOMAIN after = DOMAIN t.undo.before
    BY <1>0, <1>1, <1>4, <1>5, <1>6, <2>1, DoneIs
  <2>3. ui' = v
    BY <1>3, <2>1
  <2> QED
    BY <2>2, <2>3
<1>8. IsOp(t) /\ ~IsLoad(t)
  BY DEF IsOp, IsLoad
<1>9. /\ BusyOK' /\ LoadOK' /\ QueueOK'
      /\ (\A u \in UnderWay : TaskOK(u))'
      /\ (queue # << >> => AskedOK(queue[1]) /\ ReplyOK(queue[1]))'
      /\ UnderWay' \subseteq UnderWay
      /\ \A u \in UnderWay' : ~IsOp(u)
      /\ \A u \in UnderWay \ UnderWay' : u = t
  BY <1>7, <1>8, EndStep DEF Ends
<1>10. SessionTypes'
  BY <1>0, <1>1, <1>4, <1>7 DEF SessionTypes
<1>11. IdsOK'
  BY <1>0, <1>4, <1>7 DEF IdsOK
<1>12. KnownIsCommitted'
  <2>1. \A s \in Segments : Committed(session.known[s], s)
    BY <1>0 DEF KnownIsCommitted, Committed
  <2>2. \A s \in Segments : Committed(known[s], s)
    BY <1>0, <1>4, <2>1 DEF ReplyOK
  <2> QED
    BY <1>3, <2>2 DEF KnownIsCommitted, Committed, Revision
<1>13. PendingOK'
  BY <1>7 DEF PendingOK
<1>14. ShownOK'
  <2> SUFFICES ASSUME ui.sources = 0, ui.session = session.id, NEW s \in Segments
               PROVE  ui'.shown[s] = session'.known[s].decision
    BY <1>4, <1>7 DEF ShownOK
  <2>1. CASE s \in DOMAIN t.change
    <3>1. t.answer.known[s].decision = t.change[s]
      BY <1>0, <2>1 DEF ReplyOK
    <3> QED
      BY <1>3, <1>4, <1>7, <2>1, <3>1
  <2>2. CASE s \notin DOMAIN t.change
    <3>1. ui.pending # None => ui.pending.change = t.change
      BY <1>0, <1>1, <1>8 DEF PendingOK
    <3>2. \A u \in UnderWay : IsOp(u) => u = t
      BY <1>9
    <3>3. ~Open(s)
      BY <2>2, <3>1, <3>2 DEF Open
    <3> QED
      BY <1>0, <1>3, <1>4, <1>7, <2>2, <3>3 DEF ShownOK
  <2> QED
    BY <2>1, <2>2
<1>15. (\A i \in DOMAIN ui.history : OursBetween(ui.history[i]))'
  <2>1. \A s \in DOMAIN t.change : known[s] = t.answer.known[s]
    BY <1>4, <1>5
  <2>2. /\ OursBetween([before |-> t.expected, after |-> after])
        /\ \A e \in HistoryEntry : \A s \in DOMAIN e.after :
             t.undo # None /\ OursBetween(e) /\ s \in DOMAIN t.undo.before /\ e.after[s] = t.undo.before[s]
               => /\ after[s].revision <= Revision(s)
                  /\ \A n \in e.before[s].revision + 1 .. after[s].revision : store[s][n].ours
    BY <1>0, <1>1, <1>6, <2>1, SavedIsOurs, SMTT(30)
  <2>3. ui.history \in Seq(HistoryEntry) /\ \A i \in DOMAIN ui.history : ui.history[i] \in HistoryEntry
    BY <1>0 DEF Editor
  <2>4. ASSUME NEW i \in DOMAIN ui'.history PROVE OursBetween(ui'.history[i])
    <3>1. PICK r : r = ui'.history
      OBVIOUS
    <3>2. CASE t.undo = None
      <4>1. r[i] = [before |-> t.expected, after |-> after] \/ \E j \in DOMAIN ui.history : r[i] = ui.history[j]
        BY <1>5, <1>7, <2>3, <2>4, <3>1, <3>2, RecordedIs
      <4> QED
        BY <1>0, <2>2, <3>1, <4>1
    <3>3. CASE t.undo # None
      <4>1. /\ i \in DOMAIN ui.history /\ r[i].before = ui.history[i].before
            /\ DOMAIN r[i].after = DOMAIN ui.history[i].after
            /\ \A s \in DOMAIN r[i].after :
                 \/ r[i].after[s] = ui.history[i].after[s]
                 \/ /\ s \in DOMAIN t.undo.before /\ ui.history[i].after[s] = t.undo.before[s]
                    /\ r[i].after[s] = after[s]
        <5>1. PICK h : h = ui.history
          OBVIOUS
        <5>2. PICK last : last = t.undo
          OBVIOUS
        <5>3. /\ h \in Seq(HistoryEntry) /\ Len(h) <= HistoryLimit /\ last \in HistoryEntry
              /\ after \in Partial(KnownVersion) /\ DOMAIN after = DOMAIN last.before
              /\ r = Rebased(h, last, after) /\ i \in DOMAIN r
          BY <1>5, <1>7, <2>3, <2>4, <3>1, <3>3, <5>1, <5>2
        <5>4. \A j \in DOMAIN r :
                /\ j \in DOMAIN h /\ r[j].before = h[j].before
                /\ DOMAIN r[j].after = DOMAIN h[j].after
                /\ \A s \in DOMAIN r[j].after :
                     \/ r[j].after[s] = h[j].after[s]
                     \/ /\ s \in DOMAIN last.before /\ h[j].after[s] = last.before[s]
                        /\ r[j].after[s] = after[s]
          BY <5>3, RebasedIs
        <5> QED
          BY <5>1, <5>2, <5>3, <5>4
      <4>2. PICK e : e = ui.history[i]
        OBVIOUS
      <4>3. e \in HistoryEntry /\ OursBetween(e)
        BY <1>0, <2>3, <4>1, <4>2
      <4>4. ASSUME NEW s \in DOMAIN r[i].after
            PROVE  /\ r[i].after[s].revision <= Revision(s)
                   /\ \A n \in r[i].before[s].revision + 1 .. r[i].after[s].revision : store[s][n].ours
        <5>1. CASE r[i].after[s] = e.after[s]
          BY <4>1, <4>2, <4>3, <4>4, <5>1 DEF OursBetween
        <5>2. CASE s \in DOMAIN t.undo.before /\ e.after[s] = t.undo.before[s] /\ r[i].after[s] = after[s]
          BY <2>2, <3>3, <4>1, <4>2, <4>3, <4>4, <5>2
        <5> QED
          BY <4>1, <4>2, <4>4, <5>1, <5>2
      <4> QED
        BY <3>1, <4>4 DEF OursBetween
    <3> QED
      BY <3>2, <3>3
  <2> QED
    <3>1. PICK h : h = ui'.history
      OBVIOUS
    <3>2. \A i \in DOMAIN h : OursBetween(h[i])
      BY <2>4, <3>1
    <3>3. \A i \in DOMAIN h : OursBetween(h[i])'
      BY <3>2, StoreStays
    <3>4. ASSUME NEW i \in DOMAIN h PROVE OursBetween(ui.history[i])'
      <4>1. PICK e : e = h[i]
        OBVIOUS
      <4>2. OursBetween(e)' /\ ui'.history[i] = e
        BY <3>1, <3>3, <4>1
      <4> QED
        BY <4>2 DEF OursBetween, Revision
    <3> QED
      BY <3>1, <3>4
<1> QED
  BY <1>9, <1>10, <1>11, <1>12, <1>13, <1>14, <1>15 DEF SessionInv
LEMMA SaveReceivedInv ==
    ASSUME SessionInv, queue # << >>, queue[1].at = "answered", SaveReceived(queue[1]),
           queue' = Tail(queue), UNCHANGED <<store, bound, checking>>
    PROVE  SessionInv'
<1>0. SessionTypes /\ ReplyOK(queue[1])
  BY DEF SessionInv
<1>1. PICK t : t = queue[1]
  OBVIOUS
<1>2. /\ t.kind = "save" /\ t.at = "answered" /\ ReplyOK(t)
      /\ session' = IF t.session = session.id THEN Learned(t) ELSE session
      /\ \/ /\ t.answer # None /\ OperationCurrent(t) /\ t.session = session.id
            /\ ui' = Done(ui, t, session'.known) /\ UNCHANGED count
         \/ /\ Wrong \/ UNCHANGED count
            /\ ui' = Undone(ui, t)
  BY <1>0, <1>1 DEF SaveReceived
<1>3. CASE /\ t.answer # None /\ OperationCurrent(t) /\ t.session = session.id
           /\ ui' = Done(ui, t, session'.known) /\ UNCHANGED count
  BY <1>1, <1>2, <1>3, DoneStep
<1>4. CASE /\ Wrong \/ UNCHANGED count
           /\ ui' = Undone(ui, t)
  <2>1. Ends(t)
    BY <1>1 DEF Ends
  <2>2. count' \in [operations : Nat, others : Nat, errors : Nat]
    BY <1>0, <1>4, CountedIs
  <2>3. t.kind # "prepare"
    BY <1>2
  <2> QED
    BY <1>2, <1>4, <2>1, <2>2, <2>3, UndoneStep
<1> QED
  BY <1>2, <1>3, <1>4

\* What a refresh makes of the window.
LEMMA RefreshedIs ==
    ASSUME NEW u \in Editor, NEW known \in [Segments -> KnownVersion], NEW v, v = Refreshed(u, known)
    PROVE  /\ v \in Editor /\ ~v.busy /\ v.pending = None
           /\ v.session = u.session /\ v.epoch = u.epoch /\ v.sources = u.sources
           /\ v.loading = u.loading /\ v.loaded = u.loaded /\ v.history = u.history
           /\ \A s \in Segments : v.shown[s] = known[s].decision
<1>1. PICK shown : shown = [s \in Segments |-> known[s].decision]
  OBVIOUS
<1>2. shown \in [Segments -> Decisions] /\ \A s \in Segments : shown[s] = known[s].decision
  BY <1>1 DEF KnownVersion
<1>3. PICK a : a = [u EXCEPT !.pending = None, !.shown = shown]
  OBVIOUS
<1>4. /\ a \in Editor /\ a.pending = None /\ a.shown = shown
      /\ a.session = u.session /\ a.epoch = u.epoch /\ a.sources = u.sources
      /\ a.loading = u.loading /\ a.loaded = u.loaded /\ a.history = u.history
  BY <1>2, <1>3 DEF Editor
<1>5. PICK b : b = [a EXCEPT !.busy = FALSE]
  OBVIOUS
<1>6. /\ b \in Editor /\ ~b.busy /\ b.pending = a.pending /\ b.shown = a.shown
      /\ b.session = a.session /\ b.epoch = a.epoch /\ b.sources = a.sources
      /\ b.loading = a.loading /\ b.loaded = a.loaded /\ b.history = a.history
  BY <1>4, <1>5 DEF Editor
<1>7. v = b
  <2>1. v = [[[u EXCEPT !.busy = FALSE] EXCEPT !.pending = None] EXCEPT !.shown = shown]
    BY <1>1 DEF Refreshed
  <2> QED
    BY <1>3, <1>5, <2>1 DEF Editor
<1> QED
  BY <1>2, <1>4, <1>6, <1>7

LEMMA RefreshReceivedInv ==
    ASSUME SessionInv, queue # << >>, queue[1].at = "answered", RefreshReceived(queue[1]),
           queue' = Tail(queue), UNCHANGED <<store, bound, checking>>
    PROVE  SessionInv'
<1>0. /\ SessionTypes /\ BusyOK /\ LoadOK /\ QueueOK /\ IdsOK
      /\ KnownIsCommitted
      /\ ReplyOK(queue[1])
      /\ \A i \in DOMAIN ui.history : OursBetween(ui.history[i])
      /\ queue \in Seq(TaskRecord) /\ ui \in Editor
  BY DEF SessionInv, SessionTypes
<1>1. PICK t : t = queue[1]
  OBVIOUS
<1>2. /\ t.kind = "refresh" /\ t.at = "answered" /\ ReplyOK(t) /\ UNCHANGED count
      /\ IF t.answer # None /\ OperationCurrent(t)
         THEN session' = Learned(t) /\ ui' = Refreshed(ui, session'.known)
         ELSE UNCHANGED session /\ ui' = Undone(ui, t)
  BY <1>0, <1>1 DEF RefreshReceived
<1>3. t \in TaskRecord /\ queue' \in Seq(TaskRecord)
  BY <1>0, <1>1, QueueTail
<1>4. Ends(t) /\ t.kind # "prepare"
  BY <1>1, <1>2 DEF Ends
<1>5. CASE ~(t.answer # None /\ OperationCurrent(t))
  <2>1. count' \in [operations : Nat, others : Nat, errors : Nat]
    BY <1>0, <1>2 DEF SessionTypes
  <2>2. session' = session /\ ui' = Undone(ui, t)
    BY <1>2, <1>5
  <2> QED
    BY <1>4, <2>1, <2>2, UndoneStep
<1>6. CASE t.answer # None /\ OperationCurrent(t)
  <2>1. /\ Learned(t) \in SessionRecord /\ Learned(t).id = session.id
        /\ \A s \in Segments : Learned(t).known[s] = t.answer.known[s]
    BY <1>0, <1>2, <1>3, <1>6, LearnedIs
  <2>2. PICK known : known = session'.known
    OBVIOUS
  <2>3. /\ session' \in SessionRecord /\ session'.id = session.id /\ known \in [Segments -> KnownVersion]
        /\ \A s \in Segments : known[s] = t.answer.known[s]
    BY <1>2, <1>6, <2>1, <2>2 DEF SessionRecord
  <2>4. /\ ui' \in Editor /\ ~ui'.busy /\ ui'.pending = None
        /\ ui'.session = ui.session /\ ui'.epoch = ui.epoch /\ ui'.sources = ui.sources
        /\ ui'.loading = ui.loading /\ ui'.loaded = ui.loaded /\ ui'.history = ui.history
        /\ \A s \in Segments : ui'.shown[s] = known[s].decision
    <3>1. PICK v : v = Refreshed(ui, known)
      OBVIOUS
    <3>2. /\ v \in Editor /\ ~v.busy /\ v.pending = None
          /\ v.session = ui.session /\ v.epoch = ui.epoch /\ v.sources = ui.sources
          /\ v.loading = ui.loading /\ v.loaded = ui.loaded /\ v.history = ui.history
          /\ \A s \in Segments : v.shown[s] = known[s].decision
      BY <1>0, <2>3, <3>1, RefreshedIs
    <3>3. ui' = v
      BY <1>2, <1>6, <2>2, <3>1
    <3> QED
      BY <3>2, <3>3
  <2>5. IsOp(t) /\ ~IsLoad(t)
    BY <1>4, <1>6 DEF IsOp, IsLoad
  <2>6. /\ BusyOK' /\ LoadOK' /\ QueueOK'
        /\ (\A u \in UnderWay : TaskOK(u))'
        /\ (queue # << >> => AskedOK(queue[1]) /\ ReplyOK(queue[1]))'
    BY <1>4, <2>4, <2>5, EndStep
  <2>7. SessionTypes'
    BY <1>0, <1>2, <1>3, <2>3, <2>4 DEF SessionTypes
  <2>8. IdsOK'
    BY <1>0, <2>3, <2>4 DEF IdsOK
  <2>9. KnownIsCommitted'
    <3>1. \A s \in Segments : Committed(known[s], s)
      BY <1>2, <1>6, <2>3 DEF ReplyOK
    <3> QED
      BY <2>2, <3>1 DEF KnownIsCommitted, Committed, Revision
  <2>10. PendingOK'
    BY <2>4 DEF PendingOK
  <2>11. ShownOK'
    BY <2>2, <2>4 DEF ShownOK
  <2>12. (\A i \in DOMAIN ui.history : OursBetween(ui.history[i]))'
    BY <1>0, <2>4 DEF OursBetween, Revision
  <2> QED
    BY <2>6, <2>7, <2>8, <2>9, <2>10, <2>11, <2>12 DEF SessionInv
<1> QED
  BY <1>5, <1>6

LEMMA ReceiveReviewInv ==
    ASSUME SessionInv, Receive
    PROVE  SessionInv'
<1>1. queue # << >> /\ queue \in Seq(TaskRecord)
  BY DEF Receive, SessionInv, SessionTypes
<1>2. Head(queue) = queue[1]
  BY <1>1
<1>3. /\ queue[1].at = "answered" /\ queue' = Tail(queue) /\ UNCHANGED <<store, bound, checking>>
      /\ SaveReceived(queue[1]) \/ RefreshReceived(queue[1]) \/ PrepareReceived(queue[1])
  BY <1>2 DEF Receive, Rest
<1> QED
  BY <1>1, <1>3, SaveReceivedInv, RefreshReceivedInv, PrepareReceivedInv

LEMMA OtherInv ==
    ASSUME SessionInv, NEW s \in Segments, NEW d \in Decisions, Other(s, d)
    PROVE  SessionInv'
<1>0. SessionTypes /\ store \in [Segments -> Seq(SavedVersion)] /\ queue \in Seq(TaskRecord)
  BY DEF SessionInv, SessionTypes
<1>1. /\ store' = [store EXCEPT ![s] = Append(@, [decision |-> d, ours |-> FALSE])]
      /\ count' = [count EXCEPT !.others = @ + 1]
      /\ UNCHANGED <<bound, session, queue, checking, ui>>
  BY DEF Other
<1>2. PICK v : v = [decision |-> d, ours |-> FALSE]
  OBVIOUS
<1>3. v \in SavedVersion
  BY <1>2 DEF SavedVersion
<1>4. ASSUME NEW r \in Segments
      PROVE  /\ store'[r] \in Seq(SavedVersion) /\ Len(store[r]) \in Nat
             /\ Len(store[r]) <= Len(store'[r])
             /\ \A n \in 1 .. Len(store[r]) : store'[r][n] = store[r][n]
  <2>1. store[r] \in Seq(SavedVersion)
    BY <1>0
  <2>2. CASE r = s
    <3>1. store'[r] = Append(store[r], v)
      BY <1>0, <1>1, <1>2, <2>2
    <3> QED
      BY <1>3, <2>1, <3>1
  <2>3. CASE r # s
    <3>1. store'[r] = store[r]
      BY <1>0, <1>1, <2>3
    <3> QED
      BY <2>1, <3>1
  <2> QED
    BY <2>2, <2>3
<1>5. store' \in [Segments -> Seq(SavedVersion)] /\ Grown
  <2>1. store' = [r \in Segments |-> store'[r]]
    BY <1>0, <1>1
  <2>2. store' \in [Segments -> Seq(SavedVersion)]
    BY <1>4, <2>1
  <2> QED
    BY <1>4, <2>2 DEF Grown
<1>6. SessionTypes'
  <2>1. count' \in [operations : Nat, others : Nat, errors : Nat]
    <3>1. count \in [operations : Nat, others : Nat, errors : Nat] /\ count' = [count EXCEPT !.others = @ + 1]
      BY <1>0, <1>1 DEF SessionTypes
    <3> QED
      BY <3>1
  <2> QED
    BY <1>0, <1>1, <1>5, <2>1 DEF SessionTypes
<1>7. /\ \A e \in HistoryEntry : OursBetween(e) => OursBetween(e)'
      /\ \A k \in KnownVersion, r \in Segments : Committed(k, r) => Committed(k, r)'
  BY <1>0, <1>5, <1>6, GrownKeeps
<1>8. (queue # << >> => AskedOK(queue[1]) /\ ReplyOK(queue[1]))'
  <2> SUFFICES ASSUME queue # << >>, NEW t, t = queue[1]
               PROVE  AskedOK(t)' /\ ReplyOK(t)'
    BY <1>1, ZenonT(40) DEF AskedOK, ReplyOK, Committed, Revision
  <2>1. t \in TaskRecord /\ AskedOK(t) /\ ReplyOK(t)
    <3>1. 1 \in DOMAIN queue
      BY <1>0
    <3> QED
      BY <1>0, <3>1 DEF SessionInv
  <2>2. AskedOK(t)'
    <3> SUFFICES ASSUME t.at = "asked", t.kind = "save", NEW r \in DOMAIN t.change
                 PROVE  t.sent[r] = t.expected[r].revision /\ Committed(t.expected[r], r)'
      BY DEF AskedOK
    <3>1. TaskOK(t) /\ t.expected \in Partial(KnownVersion)
      <4>1. t \in UnderWay
        BY <1>0 DEF UnderWay
      <4> QED
        BY <2>1, <4>1 DEF SessionInv, TaskRecord
    <3>2. r \in Segments /\ t.expected[r] \in KnownVersion
      BY <3>1, PartialIs DEF TaskOK
    <3> QED
      BY <1>7, <2>1, <3>2 DEF AskedOK
  <2>3. ReplyOK(t)'
    <3> SUFFICES ASSUME t.at = "answered", t.answer # None
                 PROVE  /\ t.answer.id = bound' /\ (t.kind = "prepare" => session'.id < bound')
                        /\ \A r \in Segments : Committed(t.answer.known[r], r)'
                        /\ t.kind = "save" => \A r \in DOMAIN t.change :
                             /\ t.answer.known[r].decision = t.change[r]
                             /\ t.answer.known[r].revision = t.expected[r].revision + 1
                             /\ store'[r][t.answer.known[r].revision].ours
      BY DEF ReplyOK
    <3>1. t.answer.id = bound' /\ (t.kind = "prepare" => session'.id < bound')
      BY <1>1, <2>1 DEF ReplyOK
    <3>2. \A r \in Segments : Committed(t.answer.known[r], r) /\ t.answer.known[r] \in KnownVersion
      BY <2>1 DEF ReplyOK, TaskRecord, SessionRecord
    <3>3. \A r \in Segments : Committed(t.answer.known[r], r)'
      BY <1>7, <3>2
    <3>4. ASSUME t.kind = "save", NEW r \in DOMAIN t.change
          PROVE  /\ t.answer.known[r].decision = t.change[r]
                 /\ t.answer.known[r].revision = t.expected[r].revision + 1
                 /\ store'[r][t.answer.known[r].revision].ours
      <4>1. /\ t.answer.known[r].decision = t.change[r]
            /\ t.answer.known[r].revision = t.expected[r].revision + 1
            /\ store[r][t.answer.known[r].revision].ours
        BY <2>1, <3>4 DEF ReplyOK
      <4>2. r \in Segments /\ t.expected[r].revision \in Nat
        <5>1. t \in UnderWay
          BY <1>0 DEF UnderWay
        <5>2. TaskOK(t) /\ t.expected \in Partial(KnownVersion)
          BY <2>1, <5>1 DEF SessionInv, TaskRecord
        <5>3. r \in Segments /\ t.expected[r] \in KnownVersion
          BY <3>4, <5>2, PartialIs DEF TaskOK
        <5> QED
          BY <5>3 DEF KnownVersion
      <4>3. t.answer.known[r].revision \in 1 .. Len(store[r])
        <5>1. t.answer.known[r].revision <= Len(store[r]) /\ Len(store[r]) \in Nat
          BY <1>4, <3>2, <4>2 DEF Committed, Revision
        <5>2. t.answer.known[r].revision = t.expected[r].revision + 1 /\ t.expected[r].revision \in Nat
          BY <4>1, <4>2
        <5> QED
          BY <5>1, <5>2
      <4> QED
        BY <1>5, <4>1, <4>2, <4>3 DEF Grown
    <3> QED
      BY <3>1, <3>3, <3>4
  <2> QED
    BY <2>2, <2>3
<1>9. bound <= bound' /\ \A i \in DOMAIN queue : Same(queue'[i], queue[i]) /\ (i # 1 => queue'[i] = queue[i])
  BY <1>0, <1>1 DEF SessionTypes, Same
<1> QED
  BY <1>1, <1>5, <1>6, <1>8, <1>9, GrowStep
-----------------------------------------------------------------------------
(* The invariant of ReviewSession, and what it gives.                      *)

LEMMA SessionInitInv ==
    ASSUME SessionInit
    PROVE  SessionInv
<1>1. /\ store = [s \in Segments |-> << >>] /\ bound = 0
      /\ queue = << >> /\ checking = {}
      /\ session = [id |-> 0, known |-> Snapshot]
      /\ ui = [session |-> 0, shown |-> [s \in Segments |-> Default], history |-> << >>, epoch |-> 0,
               sources |-> 0, busy |-> FALSE, pending |-> None, loading |-> FALSE, loaded |-> None]
      /\ count = [operations |-> 0, others |-> 0, errors |-> 0]
  BY DEF SessionInit
<1>2. \A s \in Segments : store[s] = << >> /\ Revision(s) = 0 /\ Saved(s) = Default
  BY <1>1 DEF Revision, Saved
<1>3. \A s \in Segments : Snapshot[s] = [decision |-> Default, revision |-> 0]
  BY <1>2 DEF Snapshot
<1>4. Snapshot \in [Segments -> KnownVersion]
  BY <1>2, SessionAssumption DEF Snapshot, KnownVersion
<1>5. store \in [Segments -> Seq(SavedVersion)]
  BY <1>1
<1>6. session \in SessionRecord /\ session.id = 0
      /\ \A s \in Segments : session.known[s].decision = Default /\ session.known[s].revision = 0
  BY <1>1, <1>3, <1>4 DEF SessionRecord
<1>7. /\ ui.session = 0 /\ ui.history = << >> /\ ui.epoch = 0 /\ ui.sources = 0 /\ ~ui.busy
      /\ ui.pending = None /\ ~ui.loading /\ ui.loaded = None
      /\ \A s \in Segments : ui.shown[s] = Default
  BY <1>1
<1>8. ui \in Editor
  BY <1>1, SessionAssumption DEF Editor
<1>9. SessionTypes
  <2>1. queue \in Seq(TaskRecord)
    BY <1>1
  <2> QED
    BY <1>1, <1>5, <1>6, <1>8, <2>1 DEF SessionTypes
<1>10. DOMAIN queue = {} /\ UnderWay = {}
  BY <1>1 DEF UnderWay
<1>11. BusyOK /\ LoadOK /\ QueueOK
  BY <1>1, <1>7, <1>10 DEF BusyOK, LoadOK, QueueOK
<1>12. IdsOK
  BY <1>1, <1>6, <1>7, SessionAssumption DEF IdsOK
<1>13. PendingOK /\ ShownOK
  BY <1>6, <1>7 DEF PendingOK, ShownOK
<1>14. KnownIsCommitted
  <2>1. ASSUME NEW s \in Segments PROVE Committed(session.known[s], s)
    <3>1. session.known[s].revision = 0 /\ session.known[s].decision = Default /\ Revision(s) = 0
      BY <1>2, <1>6
    <3> QED
      BY <3>1 DEF Committed
  <2> QED
    BY <2>1 DEF KnownIsCommitted, Committed
<1>15. \A i \in DOMAIN ui.history : OursBetween(ui.history[i])
  BY <1>7
<1> QED
  BY <1>1, <1>9, <1>10, <1>11, <1>12, <1>13, <1>14, <1>15 DEF SessionInv

LEMMA SessionNextInv ==
    ASSUME SessionInv, [SessionNext]_sessionVars
    PROVE  SessionInv'
<1>1. CASE \E change \in Changes : Submit(change)
  BY <1>1, SubmitInv
<1>2. CASE Undo
  BY <1>2, UndoInv
<1>3. CASE Retry
  BY <1>3, RetryInv
<1>4. CASE Discard
  BY <1>4, DiscardInv
<1>5. CASE Analyse
  BY <1>5, AnalyseInv
<1>6. CASE SourceChanged
  BY <1>6, SourceChangedInv
<1>7. CASE Commit
  BY <1>7, CommitInv
<1>8. CASE \E t \in checking : Checked(t)
  BY <1>8, CheckedInv
<1>9. CASE Begin
  BY <1>9, BeginInv
<1>10. CASE Serve
  BY <1>10, ServeReviewInv
<1>11. CASE Receive
  BY <1>11, ReceiveReviewInv
<1>12. CASE \E s \in Segments, d \in Decisions : Other(s, d)
  BY <1>12, OtherInv
<1>13. CASE UNCHANGED sessionVars
  <2>1. SessionTypes /\ UNCHANGED <<store, bound, session, queue, checking, ui, count>>
    BY <1>13 DEF sessionVars, SessionInv
  <2>2. bound' \in Nat /\ bound <= bound' /\ store' \in [Segments -> Seq(SavedVersion)] /\ Grown
    BY <2>1, StoredStays
  <2>3. SessionTypes'
    BY <2>1 DEF SessionTypes
  <2>4. (queue # << >> => AskedOK(queue[1]) /\ ReplyOK(queue[1]))'
    BY <2>1 DEF SessionInv, AskedOK, ReplyOK, Committed, Revision
  <2>5. \A i \in DOMAIN queue : Same(queue'[i], queue[i]) /\ (i # 1 => queue'[i] = queue[i])
    BY <2>1 DEF Same
  <2> QED
    BY <2>1, <2>2, <2>3, <2>4, <2>5, GrowStep
<1> QED
  BY <1>1, <1>2, <1>3, <1>4, <1>5, <1>6, <1>7, <1>8, <1>9, <1>10, <1>11, <1>12, <1>13 DEF SessionNext, Coordinate

LEMMA SessionAlways == SessionSpec => []SessionInv
<1>1. SessionInit => SessionInv
  BY SessionInitInv
<1>2. SessionInv /\ [SessionNext]_sessionVars => SessionInv'
  BY SessionNextInv
<1> QED
  BY <1>1, <1>2, PTL DEF SessionSpec

\* What a session knows of a segment is what was saved at that revision, and a
\* window with nothing under way shows what is saved, in every window and for any
\* number of segments and decisions (src/src/services/reviewSessionCoordinator.ts,
\* src/src/App.tsx).
THEOREM SessionsAreTrue == SessionSpec => []SessionIsTrue
<1>1. ASSUME SessionInv PROVE SessionIsTrue
  <2>0. /\ BusyOK /\ LoadOK /\ QueueOK /\ IdsOK /\ ShownOK /\ KnownIsCommitted
        /\ ui \in Editor /\ queue \in Seq(TaskRecord)
    BY <1>1 DEF SessionInv, SessionTypes
  <2>1. ui.busy \in BOOLEAN /\ ui.loading \in BOOLEAN /\ ui.shown \in [Segments -> Decisions]
    BY <2>0 DEF Editor
  <2>2. ui.busy <=> (\E t \in UnderWay : t.kind # "prepare" /\ OperationCurrent(t))
    BY <2>0 DEF BusyOK, IsOp
  <2>3. (\E i \in DOMAIN queue : IsLoad(queue[i])) <=> (\E t \in UnderWay : t.kind = "prepare" /\ t.epoch = ui.sources)
    BY <2>0 DEF UnderWay, QueueOK, IsLoad
  <2>4. ui.loading <=> (ui.loaded # None \/ \E t \in UnderWay : t.kind = "prepare" /\ t.epoch = ui.sources)
    BY <2>0, <2>3 DEF LoadOK
  <2>5. SessionTypeOK
    <3>1. ui.busy = (\E t \in UnderWay : t.kind # "prepare" /\ OperationCurrent(t))
      BY <2>1, <2>2
    <3>2. ui.loading = (ui.loaded # None \/ \E t \in UnderWay : t.kind = "prepare" /\ t.epoch = ui.sources)
      BY <2>1, <2>4
    <3> QED
      BY <2>0, <2>1, <3>1, <3>2 DEF SessionTypeOK, IdsOK
  <2>6. ShownIsSaved
    <3>1. ASSUME Idle, NEW s \in Segments PROVE ~Open(s)
      BY <2>0, <3>1 DEF Idle, Open, BusyOK
    <3> QED
      BY <2>0, <3>1 DEF ShownIsSaved, ShownOK
  <2> QED
    BY <2>0, <2>5, <2>6 DEF SessionIsTrue
<1> QED
  BY <1>1, SessionAlways, PTL

\* A step of the queue that writes a decision of this window serves a save.
LEMMA WrittenIsServed ==
    ASSUME SessionInv, [SessionNext]_sessionVars, NEW s \in Segments, Written(s)
    PROVE  /\ queue # << >> /\ Head(queue) = queue[1] /\ queue[1] \in TaskRecord
           /\ TaskOK(queue[1]) /\ AskedOK(queue[1]) /\ queue[1].at = "asked" /\ Accepts(queue[1])
           /\ s \in DOMAIN queue[1].change
<1>0. /\ SessionTypes /\ queue \in Seq(TaskRecord) /\ store \in [Segments -> Seq(SavedVersion)]
      /\ Len(store[s]) \in Nat
  BY DEF SessionInv, SessionTypes
<1>1. Len(store'[s]) > Len(store[s]) /\ store'[s][Len(store'[s])].ours
  BY DEF Written, Revision
<1>2. store' # store
  BY <1>0, <1>1
<1>3. CASE \E r \in Segments, d \in Decisions : Other(r, d)
  <2>1. PICK r \in Segments, d \in Decisions : Other(r, d)
    BY <1>3
  <2>2. PICK v : v = [decision |-> d, ours |-> FALSE]
    OBVIOUS
  <2>3. v \in SavedVersion /\ ~v.ours /\ store' = [store EXCEPT ![r] = Append(@, v)]
    BY <2>1, <2>2 DEF Other, SavedVersion
  <2>4. CASE r = s
    <3>1. store'[s] = Append(store[s], v) /\ store[s] \in Seq(SavedVersion)
      BY <1>0, <2>3, <2>4
    <3>2. store'[s][Len(store'[s])] = v
      BY <2>3, <3>1
    <3> QED
      BY <1>1, <2>3, <3>2
  <2>5. CASE r # s
    BY <1>0, <1>1, <2>3, <2>5
  <2> QED
    BY <2>4, <2>5
<1>4. CASE Serve
  <2>1. queue # << >> /\ Head(queue).at = "asked"
    BY <1>4 DEF Serve
  <2>2. Head(queue) = queue[1] /\ queue[1] \in TaskRecord /\ queue[1] \in UnderWay
    <3>1. Head(queue) = queue[1] /\ 1 \in DOMAIN queue
      BY <1>0, <2>1, QueueTail
    <3> QED
      BY <1>0, <3>1 DEF UnderWay
  <2>3. PICK t : t = queue[1]
    OBVIOUS
  <2>4. TaskOK(t) /\ AskedOK(t)
    BY <2>1, <2>2, <2>3 DEF SessionInv
  <2>5. /\ Accepts(t)
        /\ store' = [r \in Segments |-> IF r \in DOMAIN t.change THEN Append(store[r], Version(t, r)) ELSE store[r]]
    BY <1>2, <1>4, <2>2, <2>3 DEF Serve
  <2>6. s \in DOMAIN t.change
    BY <1>0, <1>1, <2>5
  <2> QED
    BY <2>1, <2>2, <2>3, <2>4, <2>5, <2>6
<1>5. CASE UNCHANGED store
  BY <1>2, <1>5
<1>6. UNCHANGED store \/ Serve \/ (\E r \in Segments, d \in Decisions : Other(r, d))
  BY DEF SessionNext, sessionVars, Coordinate, Submit, Undo, Retry, Discard, Analyse, SourceChanged, Commit,
         Checked, Begin, Receive
<1> QED
  BY <1>3, <1>4, <1>5, <1>6

\* A save replaces exactly the version its user saw, and an undo takes back only
\* what this window saved, whatever was answered, lost, retried, refreshed,
\* analysed or saved elsewhere in between (src/src/domain/reviewOperations.ts,
\* src/src/services/reviewSessionCoordinator.ts).
THEOREM SavesStayInformed == SessionSpec => SavesAreInformed
<1>1. ASSUME SessionInv, [SessionNext]_sessionVars
      PROVE  [SavesWhatWasSeen /\ UndoIsOwn]_sessionVars
  <2>1. ASSUME NEW s \in Segments, Written(s)
        PROVE  /\ Head(queue).expected[s] = [decision |-> Saved(s), revision |-> Revision(s)]
               /\ Head(queue).undo # None
                    => \A n \in Head(queue).undo.before[s].revision + 1 .. Revision(s) : store[s][n].ours
    <3>1. PICK t : t = queue[1]
      OBVIOUS
    <3>2. /\ Head(queue) = t /\ t \in TaskRecord /\ TaskOK(t) /\ AskedOK(t) /\ t.at = "asked" /\ Accepts(t)
          /\ s \in DOMAIN t.change
      BY <1>1, <2>1, <3>1, WrittenIsServed
    <3>3. t.kind = "save"
      BY <3>2 DEF TaskOK
    <3>4. t.kind # "prepare" => Revision(s) = t.sent[s]
      BY <3>2 DEF Accepts
    <3>5. t.expected[s].revision = Revision(s) /\ Committed(t.expected[s], s)
      BY <3>2, <3>3, <3>4 DEF AskedOK
    <3>6. t.expected \in Partial(KnownVersion) /\ s \in DOMAIN t.expected
      BY <3>2 DEF TaskOK, TaskRecord
    <3>7. t.expected[s] \in KnownVersion
      BY <3>6, PartialIs
    <3>8. store[s] \in Seq(SavedVersion) /\ (store[s] = << >> <=> Revision(s) = 0)
      BY <1>1 DEF SessionInv, SessionTypes, Revision
    <3>9. t.expected[s].decision = Saved(s)
      BY <3>5, <3>8 DEF Committed, Saved
    <3>10. t.expected[s] = [decision |-> Saved(s), revision |-> Revision(s)]
      BY <3>5, <3>7, <3>9 DEF KnownVersion
    <3>11. ASSUME t.undo # None, NEW n \in t.undo.before[s].revision + 1 .. Revision(s)
           PROVE  store[s][n].ours
      <4>1. t.expected = t.undo.after /\ OursBetween(t.undo)
        BY <3>2, <3>11 DEF TaskOK
      <4>2. n \in t.undo.before[s].revision + 1 .. t.undo.after[s].revision /\ s \in DOMAIN t.undo.after
        BY <3>5, <3>6, <3>11, <4>1
      <4> QED
        BY <4>1, <4>2 DEF OursBetween
    <3> QED
      BY <3>2, <3>10, <3>11
  <2> QED
    BY <2>1 DEF SavesWhatWasSeen, UndoIsOwn
<1> QED
  BY <1>1, SessionAlways, PTL DEF SessionSpec, SavesAreInformed
=============================================================================
