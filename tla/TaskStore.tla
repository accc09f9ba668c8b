------------------------------ MODULE TaskStore ------------------------------
(***************************************************************************)
(* The task tables of src/engine/task_store.py: tasks with their life      *)
(* cycle, the source files of a task, and the pages that workers claim,    *)
(* finish, fail and put back.  Every method is one SQLite transaction, so  *)
(* it is one action; retry_failed_pages lists the failed pages before its  *)
(* transaction, so it is two.  Text blocks, matches, crops, layout groups  *)
(* and log lines are rows that are only inserted and are left out.         *)
(***************************************************************************)
EXTENDS Naturals, FiniteSets

CONSTANTS
    Tasks,      \* identifiers of tasks
    Paths,      \* paths a source file can be registered under
    Digests,    \* contents of files, named by their SHA-256
    Numbers,    \* page numbers of a source file
    Workers,    \* callers that claim pages
    Clients,    \* callers of retry_failed_pages
    Missing,    \* no row
    MaxRetries  \* bound on retry_count

NumbersAssumption == Numbers \subseteq Nat \ {0}

VARIABLES
    tasks,      \* row of tasks: status and status_before_pause
    sources,    \* row of source_files, by (task_id, path): the SHA-256
    pages,      \* row of pages: status, retry_count, started, completed
    disk,       \* what a path holds now
    working,    \* the page a worker has claimed
    listed      \* the failed pages retry_failed_pages has read

vars == <<tasks, sources, pages, disk, working, listed>>

Statuses == {"pending", "parsing", "ocr", "searching", "review", "exporting",
             "completed", "partial_failed", "failed", "paused", "cancelled"}
PageStatuses == {"pending", "processing", "completed", "failed", "skipped"}

\* _TASK_TRANSITIONS.
Transitions ==
    LET stops == {"paused", "failed", "partial_failed", "cancelled"}
    IN [s \in Statuses |->
          CASE s = "pending" -> {"parsing", "cancelled"}
            [] s = "parsing" -> {"ocr", "searching"} \cup stops
            [] s = "ocr" -> {"searching"} \cup stops
            [] s = "searching" -> {"review"} \cup stops
            [] s = "review" -> {"exporting"} \cup stops
            [] s = "exporting" -> {"completed"} \cup stops
            [] s = "partial_failed" -> {"review", "exporting", "completed"}
                                          \cup (stops \ {"partial_failed"})
            [] s = "failed" -> {"pending", "parsing", "ocr", "searching",
                                "review", "exporting", "cancelled"}
            [] s = "paused" -> {"pending", "parsing", "ocr", "searching",
                                "review", "exporting", "failed", "cancelled"}
            [] s = "completed" -> {}
            [] s = "cancelled" -> {"pending"}]

PageIds == Tasks \X Paths \X Numbers
SourceOf(p) == <<p[1], p[2]>>
PagesOf(t) == {p \in PageIds : p[1] = t /\ pages[p] # Missing}
WithStatus(t, s) == {p \in PagesOf(t) : pages[p].status = s}

\* The columns of a new row of pages (add_page).
NewPage == [status |-> "pending", retries |-> 0,
            started |-> FALSE, completed |-> FALSE]

Init ==
    /\ tasks = [t \in Tasks |-> Missing]
    /\ sources = [s \in Tasks \X Paths |-> Missing]
    /\ pages = [p \in PageIds |-> Missing]
    /\ disk \in [Paths -> Digests]
    /\ working = [w \in Workers |-> Missing]
    /\ listed = [c \in Clients |-> {}]

-----------------------------------------------------------------------------
(* Tasks.                                                                  *)

CreateTask(t) ==
    /\ tasks[t] = Missing
    /\ tasks' = [tasks EXCEPT ![t] = [status |-> "pending", before |-> Missing]]
    /\ UNCHANGED <<sources, pages, disk, working, listed>>

\* The state a pause keeps for resume_task.  A second pause keeps the first
\* one's; every other target clears it.

Previous(row, target) ==
    IF target # "paused" THEN Missing
    ELSE IF row.before # Missing THEN row.before
    ELSE IF row.status # "paused" THEN row.status ELSE Missing

TransitionTask(t, target) ==
    /\ tasks[t] # Missing
    /\ target = tasks[t].status \/ target \in Transitions[tasks[t].status]
    /\ tasks' = [tasks EXCEPT ![t] = [status |-> target,
                                      before |-> Previous(tasks[t], target)]]
    /\ UNCHANGED <<sources, pages, disk, working, listed>>

\* What resume_task asks transition_task for.
ResumeTarget(t) == IF tasks[t].before = Missing THEN "pending" ELSE tasks[t].before

ResumeTask(t) ==
    /\ tasks[t] # Missing
    /\ tasks[t].status = "paused"
    /\ TransitionTask(t, ResumeTarget(t))

-----------------------------------------------------------------------------
(* Source files.  register_source_file reads the file, then writes.        *)

Twin(t, q, d) == \E r \in Paths : r # q /\ sources[<<t, r>>] = d

\* A path the task does not have is a new row, unless the task has the same
\* bytes under another path; a path it has takes the bytes found now.
RegisterSource(t, q) ==
    /\ tasks[t] # Missing
    /\ sources[<<t, q>>] # Missing \/ ~Twin(t, q, disk[q])
    /\ sources' = [sources EXCEPT ![<<t, q>>] = disk[q]]
    /\ UNCHANGED <<tasks, pages, disk, working, listed>>

\* Another program writes the file.
WriteFile(q, d) ==
    /\ d # disk[q]
    /\ disk' = [disk EXCEPT ![q] = d]
    /\ UNCHANGED <<tasks, sources, pages, working, listed>>

-----------------------------------------------------------------------------
(* Pages.                                                                  *)

\* add_pages: all the numbers or, when one is there already, none.
AddPages(s, numbers) ==
    /\ sources[s] # Missing
    /\ numbers # {}
    /\ \A n \in numbers : pages[<<s[1], s[2], n>>] = Missing
    /\ pages' = [p \in PageIds |->
                   IF SourceOf(p) = s /\ p[3] \in numbers THEN NewPage ELSE pages[p]]
    /\ UNCHANGED <<tasks, sources, disk, working, listed>>

\* The first pending page of a source; which source comes first depends on
\* the second it was registered in and on its random identifier.

Claimable(t) ==
    {p \in WithStatus(t, "pending") :
       \A o \in WithStatus(t, "pending") : SourceOf(o) = SourceOf(p) => p[3] <= o[3]}

ClaimNextPage(w, t) ==
    /\ working[w] = Missing
    /\ \E p \in Claimable(t) :
         /\ pages' = [pages EXCEPT ![p].status = "processing", ![p].started = TRUE]
         /\ working' = [working EXCEPT ![w] = p]
    /\ UNCHANGED <<tasks, sources, disk, listed>>

\* update_page_status: started_at is set once, completed_at only by a
\* completion, and every way back from it clears it.
UpdatedPage(row, target) ==
    [row EXCEPT !.status = target,
                !.started = @ \/ target = "processing",
                !.completed = IF target = "completed" THEN TRUE
                              ELSE @ /\ target = "processing"]

UpdatePageStatus(p, target) ==
    /\ pages[p] # Missing
    /\ pages' = [pages EXCEPT ![p] = UpdatedPage(@, target)]

\* mark_page_completed, mark_page_failed or a skip, by the page's worker.
FinishPage(w, target) ==
    /\ working[w] # Missing
    /\ UpdatePageStatus(working[w], target)
    /\ working' = [working EXCEPT ![w] = Missing]
    /\ UNCHANGED <<tasks, sources, disk, listed>>

\* A worker ends without a word; its page stays 'processing'.
LoseWorker(w) ==
    /\ working[w] # Missing
    /\ working' = [working EXCEPT ![w] = Missing]
    /\ UNCHANGED <<tasks, sources, pages, disk, listed>>

RetriedPage(row) ==
    [status |-> "pending", retries |-> row.retries + 1,
     started |-> FALSE, completed |-> FALSE]

\* retry_page refuses a page that is not failed.

Retryable(p) == pages[p] # Missing /\ pages[p].status = "failed"

\* retry_failed_pages reads list_retryable_pages outside its transaction ...
ListRetryablePages(c, t) ==
    /\ tasks[t] # Missing
    /\ listed' = [listed EXCEPT ![c] = WithStatus(t, "failed")]
    /\ UNCHANGED <<tasks, sources, pages, disk, working>>

\* ... and puts back the pages it was asked for in one transaction, which one
\* refused page rolls back for all of them.
RetryPages(c, requested) ==
    LET retried == listed[c] \cap requested
    IN /\ retried # {}
       /\ \A p \in retried : pages[p] # Missing => pages[p].retries < MaxRetries
       /\ pages' = IF \A p \in retried : Retryable(p)
                   THEN [p \in PageIds |-> IF p \in retried
                                           THEN RetriedPage(pages[p]) ELSE pages[p]]
                   ELSE pages
       /\ listed' = [listed EXCEPT ![c] = {}]
       /\ UNCHANGED <<tasks, sources, disk, working>>

-----------------------------------------------------------------------------
Step ==
    \/ \E t \in Tasks : CreateTask(t)
    \/ \E t \in Tasks, target \in Statuses : TransitionTask(t, target)
    \/ \E t \in Tasks : ResumeTask(t)
    \/ \E t \in Tasks, q \in Paths : RegisterSource(t, q)
    \/ \E q \in Paths, d \in Digests : WriteFile(q, d)
    \/ \E s \in Tasks \X Paths, numbers \in SUBSET Numbers : AddPages(s, numbers)
    \/ \E w \in Workers, t \in Tasks : ClaimNextPage(w, t)
    \/ \E w \in Workers, target \in {"completed", "failed", "skipped"} :
         FinishPage(w, target)
    \/ \E w \in Workers : LoseWorker(w)
    \/ \E c \in Clients, t \in Tasks : ListRetryablePages(c, t)
    \/ \E c \in Clients, requested \in SUBSET PageIds : RetryPages(c, requested)

-----------------------------------------------------------------------------
(* Two histories, for the properties: the status a task last had while it  *)
(* was not paused, and how often a page has failed.                        *)
VARIABLES live, failures

Next ==
    /\ Step
    /\ live' = [t \in Tasks |->
         IF tasks'[t] # Missing /\ tasks'[t].status # "paused"
         THEN tasks'[t].status ELSE live[t]]
    /\ failures' = [p \in PageIds |->
         IF pages'[p] # Missing /\ pages'[p].status = "failed"
              /\ ~(pages[p] # Missing /\ pages[p].status = "failed")
         THEN failures[p] + 1 ELSE failures[p]]

TaskInit ==
    /\ Init
    /\ live = [t \in Tasks |-> Missing]
    /\ failures = [p \in PageIds |-> 0]

Spec == TaskInit /\ [][Next]_<<vars, live, failures>>

-----------------------------------------------------------------------------
\* The tables have their types; a page has a start time exactly when it is not
\* waiting, and an end time exactly when it is completed.
TaskTypeOK ==
    /\ tasks \in [Tasks -> {Missing} \cup
                   [status : Statuses, before : Statuses \cup {Missing}]]
    /\ sources \in [Tasks \X Paths -> Digests \cup {Missing}]
    /\ pages \in [PageIds -> {Missing} \cup
                   [status : PageStatuses, retries : 0..MaxRetries,
                    started : BOOLEAN, completed : BOOLEAN]]
    /\ \A p \in PageIds : pages[p] # Missing =>
         /\ pages[p].started <=> pages[p].status # "pending"
         /\ pages[p].completed <=> pages[p].status = "completed"
    /\ disk \in [Paths -> Digests]
    /\ working \in [Workers -> PageIds \cup {Missing}]
    /\ listed \in [Clients -> SUBSET PageIds]

\* However often a task is paused, resume_task asks for the state the task was
\* in before the first pause, and a task that is not paused has no such state.
ResumesWhereItStopped ==
    \A t \in Tasks : tasks[t] # Missing =>
      IF tasks[t].status = "paused" THEN ResumeTarget(t) = live[t]
      ELSE tasks[t].before = Missing

\* A page a worker is at work on is 'processing', and no other worker has it,
\* however claims, losses, failures and retries are interleaved.
OneWorkerPerPage ==
    \A w \in Workers : working[w] # Missing =>
      /\ pages[working[w]].status = "processing"
      /\ \A o \in Workers \ {w} : working[o] # working[w]

\* A page is put back once for each of its failures, whatever two clients ask
\* for with lists they have read earlier.
OneRetryPerFailure ==
    \A p \in PageIds : pages[p] # Missing =>
      failures[p] = pages[p].retries + (IF pages[p].status = "failed" THEN 1 ELSE 0)

\* "A repeated pause must retain the state that resume() will restore"
\* (task_store.py:390): a paused task can be resumed.
PausedCanResume ==
    \A t \in Tasks : tasks[t] # Missing /\ tasks[t].status = "paused" =>
      ResumeTarget(t) \in Transitions["paused"]

\* "Same bytes under another path are one logical input."
\* (task_store.py:464): a task has no two source files of the same bytes.
OneLogicalInput ==
    \A t \in Tasks, q, r \in Paths :
      sources[<<t, q>>] # Missing /\ sources[<<t, q>>] = sources[<<t, r>>] => q = r
=============================================================================
