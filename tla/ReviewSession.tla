---------------------------- MODULE ReviewSession ----------------------------
(***************************************************************************)
(* Saving review decisions from the window: the coordinator of review      *)
(* sessions (src/src/services/reviewSessionCoordinator.ts), the history of *)
(* operations (src/src/domain/reviewOperations.ts) and the part of         *)
(* src/src/App.tsx that drives them.                                       *)
(*                                                                         *)
(* Analyses, saves and refreshes go through one queue; each is a request   *)
(* to the engine whose answer may be lost.  A session belongs to the last  *)
(* answered analysis and keeps what it knows to be saved.  The window      *)
(* shows its decisions at once; a source that changes or a new analysis    *)
(* makes the operations under way outdated without stopping them.          *)
(***************************************************************************)
EXTENDS Integers, Sequences

CONSTANTS
    Segments,       \* the review segments of one context
    Decisions,      \* what may be decided about one
    Default,        \* what the analysis proposes
    HistoryLimit,   \* operations that can be undone
    MaxOperations, MaxAnalyses, MaxOthers, MaxSourceChanges, MaxErrors  \* bounds

ASSUME SessionAssumption ==
    /\ Default \in Decisions
    /\ HistoryLimit \in Nat \ {0}
    /\ {MaxOperations, MaxAnalyses, MaxOthers, MaxSourceChanges, MaxErrors} \subseteq Nat

VARIABLES
    store,      \* each segment's saved versions, oldest first
    bound,      \* the analysis the store's context is bound to
    session,    \* the coordinator's current session
    queue,      \* the coordinator's queue; the first task is under way
    checking,   \* operations whose sources are verified before they are queued
    ui,         \* the window
    count       \* what is bounded

sessionVars == <<store, bound, session, queue, checking, ui, count>>

None == [none |-> TRUE]

Revision(s) == Len(store[s])
Saved(s) == IF store[s] = << >> THEN Default ELSE store[s][Revision(s)].decision

\* What the engine answers to an analysis or a read.
Snapshot == [s \in Segments |-> [decision |-> Saved(s), revision |-> Revision(s)]]

SessionInit ==
    /\ store = [s \in Segments |-> << >>]
    /\ bound = 0
    /\ session = [id |-> 0, known |-> Snapshot]
    /\ queue = << >>
    /\ checking = {}
    /\ ui = [session |-> 0, shown |-> [s \in Segments |-> Default], history |-> << >>, epoch |-> 0,
             sources |-> 0, busy |-> FALSE, pending |-> None, loading |-> FALSE, loaded |-> None]
    /\ count = [operations |-> 0, others |-> 0, errors |-> 0]

-----------------------------------------------------------------------------
(* Operations of the window.                                               *)

Task(kind, change, expected, undo) ==
    [kind |-> kind, session |-> ui.session, epoch |-> ui.epoch, change |-> change,
     expected |-> expected, undo |-> undo, verify |-> undo # None, at |-> "queued", sent |-> None, answer |-> None]

OperationCurrent(t) == ui.session = t.session /\ ui.epoch = t.epoch

Counted == count.operations < MaxOperations
           /\ count' = [count EXCEPT !.operations = @ + 1]

Idle == ~ui.busy /\ ui.pending = None

Shows(u, change) ==
    [u EXCEPT !.shown = [s \in Segments |-> IF s \in DOMAIN change THEN change[s] ELSE @[s]]]

\* The window changes decisions, shows them and saves them.
Submit(change) ==
    /\ Idle /\ ~ui.loading
    /\ ui.session # 0 /\ ui.session = session.id
    /\ Counted
    /\ LET save == Task("save", change, [s \in DOMAIN change |-> session.known[s]], None)
       IN  \/ /\ ui' = [Shows(ui, change) EXCEPT !.busy = TRUE]
              /\ queue' = Append(queue, save) /\ UNCHANGED checking
           \* An adjustment of a whole round is verified first and shown once saved.
           \/ /\ ui' = [ui EXCEPT !.busy = TRUE]
              /\ checking' = checking \cup {[save EXCEPT !.verify = TRUE]} /\ UNCHANGED queue
    /\ UNCHANGED <<store, bound, session>>

\* The last operation is undone, once its sources are verified; it expects what
\* that operation left.
Undo ==
    /\ Idle /\ ~ui.loading
    /\ ui.session # 0 /\ ui.history # << >>
    /\ Counted
    /\ LET last == ui.history[Len(ui.history)]
       IN  checking' = checking \cup
             {Task("save", [s \in DOMAIN last.before |-> last.before[s].decision], last.after, last)}
    /\ ui' = [ui EXCEPT !.busy = TRUE]
    /\ UNCHANGED <<store, bound, session, queue>>

\* An operation that was not saved is tried again just as it was made.
Retry ==
    /\ ui.pending # None /\ ~ui.busy /\ OperationCurrent(ui.pending)
    /\ Counted
    /\ ui' = [ui EXCEPT !.busy = TRUE]
    /\ IF ~ui.pending.verify
       THEN queue' = Append(queue, ui.pending) /\ UNCHANGED checking
       ELSE checking' = checking \cup {ui.pending} /\ UNCHANGED queue
    /\ UNCHANGED <<store, bound, session>>

\* Or it is given up, and what is saved is read.
Discard ==
    /\ ui.pending # None /\ ~ui.busy /\ OperationCurrent(ui.pending)
    /\ Counted
    /\ ui' = [ui EXCEPT !.busy = TRUE]
    /\ checking' = checking \cup {Task("refresh", << >>, << >>, None)}
    /\ UNCHANGED <<store, bound, session, queue>>

\* A new analysis; its request to bind the context shares the queue.
Analyse ==
    /\ ~ui.loading /\ bound + Len(SelectSeq(queue, LAMBDA t : t.kind = "prepare")) < MaxAnalyses
    /\ ui' = [ui EXCEPT !.loading = TRUE]
    /\ queue' = Append(queue, [Task("prepare", << >>, << >>, None) EXCEPT !.epoch = ui.sources])
    /\ UNCHANGED <<store, bound, session, checking, count>>

\* The operations of before are outdated; nothing waits for them.
Outdated(u) == [u EXCEPT !.epoch = @ + 1, !.history = << >>, !.pending = None, !.busy = FALSE]

\* A source file is found changed.
SourceChanged ==
    /\ ui.sources < MaxSourceChanges
    /\ ui' = [Outdated(ui) EXCEPT !.sources = @ + 1, !.loading = FALSE, !.loaded = None]
    /\ UNCHANGED <<store, bound, session, queue, checking, count>>

\* The window takes the analysis over: its session, and what it found saved.
Commit ==
    /\ ui.loaded # None /\ ui.loaded.id = session.id
    /\ ui' = [Outdated(ui) EXCEPT !.session = session.id, !.loading = FALSE, !.loaded = None,
                                  !.shown = [s \in Segments |-> session.known[s].decision]]
    /\ UNCHANGED <<store, bound, session, queue, checking, count>>

-----------------------------------------------------------------------------
(* The end of an operation.                                                *)

\* An undone operation leaves the history.  An earlier operation that left the
\* restored decision now finds it under a new revision, if nothing came between.
Rebased(history, last, after) ==
    LET rest == SubSeq(history, 1, Len(history) - 1)
        touching(s) == {i \in DOMAIN rest : s \in DOMAIN rest[i].after}
        latest(s) == CHOOSE i \in touching(s) : \A j \in touching(s) : j <= i
        moved(i, s) == s \in DOMAIN last.before /\ i = latest(s)
                       /\ rest[i].after[s] = last.before[s]
    IN  [i \in DOMAIN rest |-> [rest[i] EXCEPT !.after =
           [s \in DOMAIN @ |-> IF moved(i, s) THEN after[s] ELSE @[s]]]]

Recorded(history, t, after) ==
    LET longer == Append(history, [before |-> t.expected, after |-> after])
    IN  SubSeq(longer, IF Len(longer) > HistoryLimit THEN 2 ELSE 1, Len(longer))

\* The operation was saved and is still current.
Done(u, t, known) ==
    LET after == [s \in DOMAIN t.change |-> known[s]]
    IN  [Shows(u, t.change) EXCEPT
            !.busy = FALSE, !.pending = None,
            !.history = IF t.undo = None THEN Recorded(@, t, after) ELSE Rebased(@, t.undo, after)]

\* An operation as it was made, to be asked again.
Anew(t) == [t EXCEPT !.at = "queued", !.sent = None, !.answer = None]

\* It failed, or nobody knows: kept for the user unless it is outdated.
\* Fault: it is forgotten.
UndoneMutant(u, t) == IF OperationCurrent(t) THEN [u EXCEPT !.busy = FALSE] ELSE u
Undone(u, t) ==
    IF ~OperationCurrent(t) THEN u
    ELSE [u EXCEPT !.busy = FALSE, !.pending = IF t.kind = "save" THEN Anew(t) ELSE @]

\* A refresh was answered: the window shows what is saved.
Refreshed(u, known) ==
    [u EXCEPT !.busy = FALSE, !.pending = None, !.shown = [s \in Segments |-> known[s].decision]]

-----------------------------------------------------------------------------
(* The coordinator's queue.                                                *)

Rest == Tail(queue)
Asked(t, sent) == queue' = <<[t EXCEPT !.at = "asked", !.sent = sent]>> \o Rest

Wrong == count.errors < MaxErrors /\ count' = [count EXCEPT !.errors = @ + 1]

\* The sources of an operation are verified; the pages shown may have become
\* invalid meanwhile, or one of the files cannot be read.
Checked(t) ==
    /\ checking' = checking \ {t}
    /\ \/ /\ OperationCurrent(t)
          /\ queue' = Append(queue, t) /\ UNCHANGED <<ui, count>>
       \/ /\ \/ ~OperationCurrent(t) /\ UNCHANGED count
             \/ Wrong
          /\ ui' = Undone(ui, t) /\ UNCHANGED queue
    /\ UNCHANGED <<store, bound, session>>

\* A save is sent only if what it replaces is what the user saw.
\* Fault: only the decision is compared.
ExpectedMutant(t) == \A s \in DOMAIN t.change : session.known[s].decision = t.expected[s].decision
Expected(t) == \A s \in DOMAIN t.change : session.known[s] = t.expected[s]

MaySend(t) ==
    IF t.kind = "prepare" THEN t.epoch = ui.sources /\ ui.loading
    ELSE /\ OperationCurrent(t) /\ t.session = session.id
         /\ t.kind = "save" => Expected(t)

Ended(t) == IF t.kind = "prepare"
            THEN [ui EXCEPT !.loading = IF t.epoch = ui.sources THEN FALSE ELSE @]
            ELSE Undone(ui, t)

Begin ==
    /\ queue # << >> /\ Head(queue).at = "queued"
    /\ LET t == Head(queue)
       IN  \/ /\ MaySend(t)
              /\ Asked(t, [s \in DOMAIN t.change |-> session.known[s].revision])
              /\ UNCHANGED <<ui, count>>
           \/ /\ \/ ~MaySend(t) /\ UNCHANGED count
                 \/ t.kind = "save" /\ Wrong
              /\ ui' = Ended(t) /\ queue' = Rest
    /\ UNCHANGED <<store, bound, session, checking>>

\* The engine carries a request out.
Accepts(t) ==
    \/ t.kind = "prepare"
    \/ bound = t.session /\ \A s \in DOMAIN t.change : Revision(s) = t.sent[s]

Answered(t, answer) == queue' = <<[t EXCEPT !.at = "answered", !.answer = answer]>> \o Rest

Version(t, s) == [decision |-> t.change[s], ours |-> TRUE]

Serve ==
    /\ queue # << >> /\ Head(queue).at = "asked"
    /\ LET t == Head(queue)
       IN  \/ /\ Accepts(t)
              /\ store' = [s \in Segments |->
                             IF s \in DOMAIN t.change THEN Append(store[s], Version(t, s)) ELSE store[s]]
              /\ bound' = IF t.kind = "prepare" THEN bound + 1 ELSE bound
              /\ \/ Answered(t, [id |-> bound', known |-> Snapshot']) /\ UNCHANGED count
                 \/ Answered(t, None) /\ Wrong
           \/ /\ \/ ~Accepts(t) /\ UNCHANGED count
                 \/ Wrong
              /\ Answered(t, None) /\ UNCHANGED <<store, bound>>
    /\ UNCHANGED <<session, checking, ui>>

\* The session learns from an answer even if the window no longer waits for it;
\* a save changes what it knows of the saved segments only.
Learned(t) ==
    [session EXCEPT !.known = [s \in Segments |->
        IF t.answer # None /\ (s \in DOMAIN t.change \/ t.kind = "refresh")
        THEN t.answer.known[s] ELSE @[s]]]

SaveReceived(t) ==
    /\ t.kind = "save"
    /\ session' = IF t.session = session.id THEN Learned(t) ELSE session
    /\ \/ /\ t.answer # None /\ OperationCurrent(t) /\ t.session = session.id
          /\ ui' = Done(ui, t, session'.known) /\ UNCHANGED count
       \/ /\ \/ ~(t.answer # None /\ OperationCurrent(t) /\ t.session = session.id) /\ UNCHANGED count
             \/ Wrong
          /\ ui' = Undone(ui, t)

RefreshReceived(t) ==
    /\ t.kind = "refresh"
    /\ IF t.answer # None /\ OperationCurrent(t)
       THEN session' = Learned(t) /\ ui' = Refreshed(ui, session'.known)
       ELSE UNCHANGED session /\ ui' = Undone(ui, t)
    /\ UNCHANGED count

\* The context is bound: the session before is over, even if nobody wants this one.
PrepareReceived(t) ==
    /\ t.kind = "prepare"
    /\ session' = IF t.answer # None THEN t.answer ELSE session
    /\ ui' = IF t.answer # None /\ t.epoch = ui.sources /\ ui.loading
             THEN [ui EXCEPT !.loaded = t.answer]
             ELSE Ended(t)
    /\ UNCHANGED count

Receive ==
    /\ queue # << >> /\ Head(queue).at = "answered"
    /\ SaveReceived(Head(queue)) \/ RefreshReceived(Head(queue)) \/ PrepareReceived(Head(queue))
    /\ queue' = Rest
    /\ UNCHANGED <<store, bound, checking>>

\* Another window, or a calibration, saves a decision.
Other(s, d) ==
    /\ count.others < MaxOthers
    /\ count' = [count EXCEPT !.others = @ + 1]
    /\ store' = [store EXCEPT ![s] = Append(@, [decision |-> d, ours |-> FALSE])]
    /\ UNCHANGED <<bound, session, queue, checking, ui>>

Changes == UNION {[S -> Decisions] : S \in SUBSET Segments \ {{}}}

Coordinate == Begin \/ Serve \/ Receive

SessionNext ==
    \/ \E change \in Changes : Submit(change)
    \/ Undo \/ Retry \/ Discard \/ Analyse \/ SourceChanged \/ Commit
    \/ \E t \in checking : Checked(t)
    \/ Coordinate
    \/ \E s \in Segments, d \in Decisions : Other(s, d)

SessionSpec == SessionInit /\ [][SessionNext]_sessionVars

\* Every request is answered or runs out of time.
CheckedAny == \E t \in checking : Checked(t)
SessionFairSpec == SessionSpec /\ WF_sessionVars(Coordinate) /\ WF_sessionVars(CheckedAny) /\ WF_sessionVars(Commit)

-----------------------------------------------------------------------------
(* Properties.                                                             *)

UnderWay == checking \cup {queue[i] : i \in DOMAIN queue}

\* The types of the state; the window is busy exactly while an operation of its
\* epoch is under way, and loads exactly while an analysis is.
SessionTypeOK ==
    /\ ui.busy = (\E t \in UnderWay : t.kind # "prepare" /\ OperationCurrent(t))
    /\ ui.loading = (ui.loaded # None
                     \/ \E t \in UnderWay : t.kind = "prepare" /\ t.epoch = ui.sources)
    /\ session.id <= bound /\ ui.session <= session.id
    /\ ui.shown \in [Segments -> Decisions]
    /\ Len(ui.history) <= HistoryLimit

\* What the session knows of a segment is what the store held at that revision.
KnownIsCommitted ==
    \A s \in Segments :
        LET known == session.known[s]
        IN  /\ known.revision <= Revision(s)
            /\ known.decision = IF known.revision = 0 THEN Default ELSE store[s][known.revision].decision

\* While nothing is under way or pending, the window shows what its session
\* knows to be saved, as long as no source has changed.
ShownIsSaved ==
    ui.sources = 0 /\ Idle /\ ui.session # 0 /\ ui.session = session.id
        => \A s \in Segments : ui.shown[s] = session.known[s].decision

\* What a review session knows of a segment is what the store held at that
\* revision, and when nothing is under way the window shows what is saved.
SessionIsTrue == SessionTypeOK /\ KnownIsCommitted /\ ShownIsSaved

Written(s) == Revision(s)' > Revision(s) /\ store'[s][Revision(s)'].ours

\* A save replaces exactly the version and the decision that the user saw when
\* deciding, whatever was saved, retried, refreshed or analysed in between.
SavesWhatWasSeen ==
    \A s \in Segments :
         Written(s) => Head(queue).expected[s] = [decision |-> Saved(s), revision |-> Revision(s)]

\* An undo never takes back what somebody else saved since the undone operation.
UndoIsOwn ==
    \A s \in Segments :
         Written(s) /\ Head(queue).undo # None
           => \A n \in Head(queue).undo.before[s].revision + 1 .. Revision(s) : store[s][n].ours

\* A save replaces exactly what its user saw when deciding, and an undo never
\* takes back what somebody else saved since.
SavesAreInformed == [][SavesWhatWasSeen /\ UndoIsOwn]_sessionVars

\* The window is never busy for ever.
Busy == ui.busy
BusyEnds == Busy ~> ~Busy

=============================================================================
