---------------------------- MODULE BatchControl ----------------------------
(***************************************************************************)
(* The window's controller of batch jobs                                   *)
(* (src/src/services/persistentBatchController.ts).                        *)
(*                                                                         *)
(* The user's operations, the polls of the shown job and the reads of the  *)
(* list are answered later, in any order, or fail; meanwhile the jobs go   *)
(* on, and some are deleted.  Every request carries the epoch it was made  *)
(* in.  An operation starts a new epoch and makes the window busy; a poll  *)
(* belongs to the epoch it finds; the list counts epochs of its own.       *)
(***************************************************************************)
EXTENDS Integers, FiniteSets

CONSTANTS
    Jobs,         \* job identifiers
    MaxOps,       \* bounds: operations of the user,
    MaxLists,     \* reads of the list,
    MaxChanges,   \* changes of the jobs by themselves,
    MaxFailures     \* failed requests

ASSUME ControlAssumption ==
    /\ {MaxOps, MaxLists, MaxChanges, MaxFailures} \subseteq Nat
    /\ IsFiniteSet(Jobs)

VARIABLES
    host,      \* each job as the host has it
    deleted,   \* the jobs whose data the host has deleted
    window,        \* the controller
    flight,    \* the requests under way
    used      \* what is bounded: changes and errors so far

controlVars == <<host, deleted, window, flight, used>>

Nil == [none |-> TRUE]

ControlInit ==
    /\ host = [j \in Jobs |-> Nil]
    /\ deleted = {}
    /\ window = [jobs |-> [j \in Jobs |-> Nil], current |-> Nil, busy |-> FALSE, refreshing |-> FALSE,
             epoch |-> 0, listEpoch |-> 0, known |-> [j \in Jobs |-> Nil], forgotten |-> {}]
    /\ flight = {}
    /\ used = [changes |-> 0, errors |-> 0]

Active(v) == v # Nil /\ v.active

\* The window tells versions apart by timestamp, then generation; the host may
\* change a job twice in one millisecond.
Older(v, w) == v.time < w.time \/ (v.time = w.time /\ v.gen < w.gen)

\* A job changes; order is its history, which the window cannot see.
Changed(v, gen, active, tick) ==
    [time |-> v.time + tick, gen |-> gen, active |-> active, order |-> v.order + 1]

-----------------------------------------------------------------------------
(* The controller's own steps.                                             *)

\* An operation begins a new epoch.
\* Fault: a poll of the old epoch keeps the flag it can no longer clear.
BegunMutant(u) == [u EXCEPT !.busy = TRUE, !.epoch = @ + 1]
Begun(u) == [u EXCEPT !.busy = TRUE, !.epoch = @ + 1, !.refreshing = FALSE]

\* A snapshot of a job becomes the shown job; the list takes it unless it has newer.
Published(u, j, v) ==
    LET kept == \/ u.known[j] # Nil /\ Older(v, u.known[j])
                \/ u.jobs[j] # Nil /\ Older(v, u.jobs[j])
    IN  IF j \in u.forgotten THEN u
        ELSE [u EXCEPT !.current = [id |-> j, v |-> v],
                       !.jobs[j] = IF kept THEN @ ELSE v, !.known[j] = IF kept THEN @ ELSE v]

\* A page of the list never replaces a version that is as new, nor drops a job
\* that was published; what was never published it replaces and drops.
Listed(u, page) ==
    LET news(j) == page[j] # Nil /\ j \notin u.forgotten
                   /\ (u.known[j] = Nil \/ Older(u.known[j], page[j]))
    IN  [u EXCEPT
          !.jobs = [j \in Jobs |-> IF news(j) THEN page[j]
                                   ELSE IF j \in u.forgotten \/ u.known[j] = Nil THEN Nil ELSE u.jobs[j]],
          !.known = [j \in Jobs |-> IF news(j) /\ u.known[j] # Nil THEN page[j] ELSE u.known[j]]]

\* The host has deleted a job: nothing late may bring it back.
Forgotten(u, j) ==
    LET rest == [u EXCEPT !.forgotten = @ \cup {j}, !.jobs[j] = Nil, !.known[j] = Nil,
                          !.listEpoch = @ + 1]
    IN  IF u.current # Nil /\ u.current.id = j
        THEN [rest EXCEPT !.epoch = @ + 1, !.current = Nil, !.busy = FALSE, !.refreshing = FALSE]
        ELSE rest

-----------------------------------------------------------------------------
(* Requests.                                                               *)

Request(kind, token, job, step) ==
    [kind |-> kind, token |-> token, job |-> job, step |-> step, state |-> "asked", got |-> Nil]

Operation(kind, job, step) ==
    /\ ~window.busy /\ window.epoch < MaxOps
    /\ window' = Begun(window)
    /\ flight' = flight \cup {Request(kind, window.epoch + 1, job, step)}
    /\ UNCHANGED <<host, deleted, used>>

ShownActive == window.current # Nil /\ window.current.v.active

Select(j) ==
    /\ ~ShownActive /\ window.jobs[j] # Nil /\ j \notin window.forgotten
    /\ Operation("select", j, "snapshot")

\* The identifier of a new job is the host's choice.
Create(j) ==
    /\ ~ShownActive /\ host[j] = Nil /\ j \notin deleted
    /\ \A q \in flight : q.job # j
    /\ Operation("create", j, "create")

Resume ==
    /\ window.current # Nil /\ ~ShownActive
    /\ Operation("resume", window.current.id, "start")

Relocate ==
    /\ window.current # Nil /\ ~ShownActive
    /\ Operation("relocate", window.current.id, "relocate")

ClearSelection ==
    /\ ~window.busy /\ ~ShownActive /\ window.epoch < MaxOps
    /\ window' = [Begun(window) EXCEPT !.current = Nil, !.busy = FALSE]
    /\ UNCHANGED <<host, deleted, flight, used>>

Control ==
    /\ window.current # Nil
    /\ Operation("control", window.current.id, "control")

\* A poll of the shown job, by the timer or after an event.
Refresh ==
    /\ window.current # Nil /\ ~window.busy /\ ~window.refreshing
    /\ window' = [window EXCEPT !.refreshing = TRUE]
    /\ flight' = flight \cup {Request("refresh", window.epoch, window.current.id, "snapshot")}
    /\ UNCHANGED <<host, deleted, used>>

Poll == ShownActive /\ Refresh

\* The list is read again; the answer to an earlier read of it no longer counts.
WithList(u, others) ==
    /\ window' = [u EXCEPT !.listEpoch = @ + 1]
    /\ flight' = {q \in others : q.kind # "list"} \cup {Request("list", u.listEpoch + 1, Nil, "list")}

List ==
    /\ window.listEpoch < MaxLists
    /\ WithList(window, flight)
    /\ UNCHANGED <<host, deleted, used>>

-----------------------------------------------------------------------------
(* The host answers the requests in any order, and the jobs go on.         *)

\* What a step of a request makes of its job.
Effects(q) ==
    LET v == host[q.job]
    IN  CASE q.step = "create" -> {[time |-> 0, gen |-> 0, active |-> FALSE, order |-> 0]}
          [] q.step = "start"  -> IF v = Nil \/ v.active THEN {}
                                  ELSE {Changed(v, v.gen + 1, TRUE, t) : t \in {0, 1}}
          [] q.step = "relocate" -> IF v = Nil \/ v.active THEN {} ELSE {Changed(v, v.gen, FALSE, 0)}
          [] q.step = "control" -> IF v = Nil THEN {} ELSE {v} \cup {Changed(v, v.gen, a, 1) : a \in {v.active, FALSE}}
          [] q.step = "snapshot" -> IF v = Nil THEN {} ELSE {v}

AnswerWith(q, state, got) ==
    flight' = (flight \ {q}) \cup {[q EXCEPT !.state = state, !.got = got]}

Failed == used.errors < MaxFailures /\ used' = [used EXCEPT !.errors = @ + 1]

\* A request is done, or fails before or after it took effect.
ServeRequest(q) ==
    /\ q.state = "asked"
    /\ \/ /\ q.kind = "list"
          /\ AnswerWith(q, "ok", host) /\ UNCHANGED <<host, used>>
       \/ /\ q.kind # "list"
          /\ \E v \in Effects(q) :
                /\ host' = [host EXCEPT ![q.job] = v]
                /\ \/ AnswerWith(q, "ok", v) /\ UNCHANGED used
                   \/ AnswerWith(q, "error", Nil) /\ Failed
       \/ /\ \/ q.kind # "list" /\ Effects(q) = {} /\ UNCHANGED used
             \/ Failed
          /\ AnswerWith(q, "error", Nil) /\ UNCHANGED host
    /\ UNCHANGED <<deleted, window>>

Bounded == used.changes < MaxChanges /\ used' = [used EXCEPT !.changes = @ + 1]

\* A worker moves its job on, perhaps within the same millisecond.
Work(j) ==
    /\ Bounded /\ host[j] # Nil /\ host[j].active
    /\ \E t \in {0, 1} : host' = [host EXCEPT ![j] = Changed(@, @.gen, TRUE, t)]
    /\ UNCHANGED <<deleted, window, flight>>

Settle(j) ==
    /\ host[j] # Nil /\ host[j].active
    /\ \E t \in {0, 1} : host' = [host EXCEPT ![j] = Changed(@, @.gen, FALSE, t)]
    /\ UNCHANGED <<deleted, window, flight, used>>

\* A cleanup deletes a job, and the window learns of it.
Delete(j) ==
    /\ host[j] # Nil /\ ~host[j].active
    /\ host' = [host EXCEPT ![j] = Nil] /\ deleted' = deleted \cup {j}
    /\ UNCHANGED <<window, flight, used>>

Forget(j) ==
    /\ j \in deleted \ window.forgotten
    /\ window' = Forgotten(window, j)
    /\ UNCHANGED <<host, deleted, flight, used>>

-----------------------------------------------------------------------------
(* Answers.                                                                *)

\* Only an answer of the current epoch counts.
\* Fault: an answer to a poll counts in any epoch.
CurrentMutant(q) == IF q.kind = "list" THEN q.token = window.listEpoch
                    ELSE q.token = window.epoch \/ q.kind = "refresh"
Current(q) == q.token = IF q.kind = "list" THEN window.listEpoch ELSE window.epoch

Drop(q) == ~Current(q) /\ flight' = flight \ {q} /\ UNCHANGED window

Page(q) ==
    /\ q.kind = "list" /\ Current(q)
    /\ window' = IF q.state = "ok" THEN Listed(window, q.got) ELSE window
    /\ flight' = flight \ {q}

PollAnswer(q) ==
    /\ q.kind = "refresh" /\ Current(q)
    /\ LET shown == IF q.state = "ok" /\ ~window.busy THEN Published(window, q.job, q.got) ELSE window
       IN  window' = [shown EXCEPT !.refreshing = IF q.token = window.epoch THEN FALSE ELSE @]
    /\ flight' = flight \ {q}

\* The next request of an operation: a created job is started, a controlled one read.
NextStep(q) == CASE q.step = "create" -> "start" [] q.step = "control" -> "snapshot" [] OTHER -> "end"

Result(q) ==
    /\ q.kind \notin {"list", "refresh"} /\ Current(q)
    /\ LET shown == IF q.state = "ok" /\ q.step # "control" THEN Published(window, q.job, q.got) ELSE window
           left  == flight \ {q}
       IN  IF q.state = "ok" /\ NextStep(q) # "end"
           THEN /\ window' = shown
                /\ flight' = left \cup {Request(q.kind, q.token, q.job, NextStep(q))}
           ELSE IF q.kind = "select"
           THEN window' = [shown EXCEPT !.busy = FALSE] /\ flight' = left
           ELSE WithList([shown EXCEPT !.busy = FALSE], left)

Answer(q) ==
    /\ q.state # "asked"
    /\ Drop(q) \/ Page(q) \/ PollAnswer(q) \/ Result(q)
    /\ UNCHANGED <<host, deleted, used>>

ControlNext ==
    \/ \E j \in Jobs : Select(j) \/ Create(j) \/ Work(j) \/ Settle(j) \/ Delete(j) \/ Forget(j)
    \/ Resume \/ Relocate \/ ClearSelection \/ Control \/ Refresh \/ List
    \/ \E q \in flight : ServeRequest(q) \/ Answer(q)

ControlSpec == ControlInit /\ [][ControlNext]_controlVars

\* The timer runs, and requests are answered.
ServeAny  == \E q \in flight : ServeRequest(q)
AnswerAny == \E q \in flight : Answer(q)
ControlFairness == WF_controlVars(Poll) /\ WF_controlVars(ServeAny) /\ WF_controlVars(AnswerAny)

ControlFairSpec == ControlSpec /\ ControlFairness

-----------------------------------------------------------------------------
(* Properties.                                                             *)

\* The types of the state; the window is busy exactly while a request of its
\* epoch is under way, and polls exactly while one of this epoch is.
ControlTypeOK ==
    /\ window.busy = (\E q \in flight : q.kind \notin {"list", "refresh"} /\ q.token = window.epoch)
    /\ window.refreshing = (\E q \in flight : q.kind = "refresh" /\ q.token = window.epoch)
    /\ window.forgotten \subseteq deleted
    /\ window.epoch \in 0 .. MaxOps + Cardinality(Jobs)

\* A deleted job, once the window knows, is neither shown nor listed again,
\* whatever answers about it are still under way.
DeletedStaysAway ==
    \A j \in window.forgotten :
        window.jobs[j] = Nil /\ (window.current = Nil \/ window.current.id # j)

\* The shown job moves only forward through what the host made of it.
NeverBack ==
    window.current # Nil /\ window'.current # Nil /\ window'.current.id = window.current.id
         => window'.current.v.order >= window.current.v.order

\* What is shown of the jobs is true.
ViewIsTrue == ControlTypeOK /\ DeletedStaysAway

\* The list never goes back to a version its clock can tell is older, and keeps
\* a job whose snapshot was published.
ListKeeps ==
    \A j \in Jobs :
         window.jobs[j] # Nil /\ window.known[j] # Nil /\ j \notin window'.forgotten
           => window'.jobs[j] # Nil /\ ~Older(window'.jobs[j], window.jobs[j])

\* The window never goes back: the shown job moves only forward through what the
\* host made of it, and a listed job is never replaced by a version its clock
\* can tell is older, in whatever order answers arrive.
ViewMovesForward == [][NeverBack /\ ListKeeps]_controlVars

\* A job shown as active that has come to rest is eventually shown so, unless the
\* window turns to another one or the job is started again or deleted.
Rests(j) == host[j] # Nil /\ ~Active(host[j]) /\ window.current # Nil /\ window.current.id = j
ShowsRest(j) == ~Rests(j) \/ ~window.current.v.active
RestIsShown == \A j \in Jobs : Rests(j) ~> ShowsRest(j)

=============================================================================
