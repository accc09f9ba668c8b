# A verification project for the bank receipt workbench

The workbench is a desktop application that splits bank PDFs into receipts.
A Rust host (Tauri) shows the user interface, spawns Python engine processes and
supervises them; the engine keeps everything durable in SQLite databases and in
files. This directory holds TLA+ modules of the parts in which order,
concurrency and failure matter, TLC configurations that check them on small
instances, and proofs checked by TLAPS for every instance.

Run a check with `tlc -config MCBatchRun_store.cfg MCBatchRun.tla`, a proof
with `tlapm BatchStoreProofs.tla`.

## 1. The system

| Component | State | Operations | Interacts with |
|---|---|---|---|
| Batch database (`engine/batch_store.py`) | jobs, sources, pages, page results, budgets, commands, snapshots, the supervisor's nonce | one `BEGIN IMMEDIATE` transaction per method: create, start, register, verify, begin/commit/fail page, publish, control, finish_stop, relocate, activate | called by the worker process and by every request process |
| Batch worker (`batch_worker.py`, `batch_processor.py`, `batch_lease.py`) | the run it was spawned for, its place in the loops over sources and pages, the lease file | validate sources, compute pages, verify, publish; read the job before each write | batch database; host through a pipe |
| Batch host (`batch_service.rs`) | owner nonce, the one active run, its monitor thread | activate, start, control, cleanup, supervise, kill, settle | spawns workers, one-shot engine calls |
| Worker protocol (`batch_protocol.rs`, `batch_protocol.py`, `batch_pipe.py`) | sequence of events, deadline, the control buffer | accept an event, time out, read a command | worker -> host pipe, host -> worker pipe |
| Cleanup (`batch_cleanup.py`, `batch_previews.py`) | plans, the gate of a job, previews | plan, execute, resume | batch and review databases, preview files |
| Page computation (`batch_pdf.py`, `receipt_layout.py`, `receipt_selection.py`, `batch_results.py`) | page checkpoints, the assembled snapshot | compute a page, assemble | worker, batch database |
| Export (`export_publish.py`, `export_journal.py`, `export_bundle.py/.rs`, `export_scope.py`, ...) | journal records, previews, the registry of exported files, temporary and final directories | plan, preview, publish, recover, close, reconcile | file system, both databases |
| Grouping (`receipt_grouping_*.py`, `receipt_field_rule_application.py`) | tasks, items, groups, history, trials, a cache of audited inputs | prepare, save, refresh, try and apply rules, export | batch and review databases |
| Reviews (`review_store_v2.py`, `review_store.py`, `receipt_review_store.py`, `receipt_calibration_journal.py`, `layout_template_store.py`) | revisioned documents, calibration journal, templates | prepare, save, adopt, release; preview, commit, undo, recover | batch snapshot; two databases |
| Single-document tasks (`task_store.py`, `queue.py`, `checkpoint.py`) | tasks, pages, leases, a queue file | claim, complete, retry, resume | engine requests |
| Engine supervision (`engine_process.rs`, `engine_read_service.rs`, `main.rs`) | running engine processes, the read service's slots | call with deadline, acquire, shut down | engine processes |
| Renderer (`src/services/*.ts`) | the view of jobs and reviews, epochs of requests | refresh, command, edit, save | host commands |

`PROJECT.json` lists all parts, also those that are not modelled, and every
hazard at its line with the properties that cover it.

**What is hard here.** Each database operation is atomic, but the program's
decisions are not: a worker reads the job and writes it later; the host reads
the winner of a run and settles it in another call; a cleanup closes a gate in
one transaction and deletes in another. Between any two of them the user pauses
or cancels, the application is closed and opened again, a process dies, an
engine call times out although its transaction committed, or a worker outlives
the application that spawned it.

## 2. The modules

### BatchStore: the durable database

Each variable is a table (`job`, `source`, `page`, `result`, `processed`,
`commands`, `snapshot`, `supervisor`), each action one public method, i.e. one
transaction; a method that raises rolls back and is a stuttering step. The
module makes **no assumption about its callers**: any generation and owner, old
or new, may be used with any operation at any time, so every protection shown
here is the database's own. Two actions, `CloseGate` and `DeleteJob`, are
the transactions of `execute_cleanup` that touch these tables.

A file's content is its digest; `PagesOf` gives the pages of the document with
that digest; a page result is the digest of the file it was computed from. A
command's answer and the columns no guard reads (names, times, `resume_target`)
are left out. Quotas in bytes only refuse a transaction, and a refused
transaction is a stuttering step; what the worker makes of the refusal is
modelled in BatchRun. `BoundTo` is the check made for schema 2 payloads; for
schema 1 `_validate_page_binding` does not compare digests, and the binding
rests on the worker having opened the source under its registered digest,
which BatchRun's `ValidateSource` does.

### BatchRun: an application, its workers and the lease

BatchRun EXTENDS BatchStore and uses its transactions unchanged. Variables:
`host` (the running application: nonce, activated or not), `slot`
(`BatchService.active`), `proc` (per nonce, the worker's stage and the data its
loops carry) and `lease` (the lock file). A worker's `stage` names the place
in `BatchProcessor` it has come to; `seen` is the job state its last
`_checkpoint` read, so reading and writing are separate steps. Every engine
call of the host can succeed, be refused, or commit with its answer lost.
Processes die at any stage; an application can close at any stage; a
worker can survive its application and meet the next one.

A nonce holds the host's process id and start time; `OpenApplication` takes
one of which no trace is left, so `Owners` bounds how many applications live
at the same time or one after the other.

### ExportPublish: a publication into the user's directory

One export intent, from rendering to its publication or close. `record` is the
durable journal record, `temp` and `final` are the directories at an attempt's
two paths, `entry` is the record as the process that holds the journal's lock
has it in memory, `pc` its place in `publish_bundle` or `status_bundle`. Each
save, file or directory operation is a step of its own. Faults of three kinds
can come between any two steps: the process dies (`Crash`), a step
fails (also a save that raises although it is durable, or a rename whose
handles fail to close), or somebody else adds, replaces, removes or occupies
files and directories (`Touch`, `TakeAway`, `Occupy`). A directory's identity
(device and inode) is the attempt that made it; a file's identity and hash are
who wrote it and whether it is whole. Checking a published directory and saving
the result is one step: what happens to the directory after its verification
is the user's own business.

### ExportJournal and AtomicRecord: one journal record

ExportPublish takes a record as read and saved as a whole. ExportJournal models
what the journal does for that: an anchor, generations published without
replacing, deletion of old generations after a save, removal anchor first, with
failures and crashes between any two file operations. AtomicRecord is what the
record promises: a number and a content that one process at a time (`holder`) reads
and saves by compare-and-set. A save installs the content its process intends, as the
version after the one it has loaded; nothing else changes a record until it is
removed, and removed it stays. `RecordSpec` is the refinement: `Latest` is the newest
generation as the next reader finds it, `Holder` what the process with the record's lock has
loaded and is saving. So a crash that brings an older content back, or a save over a
generation its process has not loaded, is no step of AtomicRecord. `Follows` is the callers' rule that a
finished record (published or closed) is not taken back into an earlier
state: without it a removal under an outdated version could remove a record
that is not finished, since `_remove_record` tests the state it has loaded.

### WorkerEvents and ControlPipe: what a worker and its host tell each other

WorkerEvents has the three threads of a worker (`main`, `heart`, `ctl`), the
lock of its writer (`held`), the stream to the host (`pipe`) and the host's
monitor (`session`, `outcome`). The host accepts events only in the order of
`EventSession`; a tick of the clock (`Tick`) leaves the monitor at least one
turn. Pipe and host channel are one bounded queue. ControlPipe is the other
direction: lines cut into pieces of any size, a bounded buffer, a stop at any
moment. Today's host never sends a control frame (commands go through the
database; it closes the pipe at the end), and a stop may still let the one
command through that the reader had already taken (`AtMostOneLate`).

### EngineReads and ProcessSlots: the persistent engine and all engine processes

EngineReads is the read service: admission with a deadline, one exchange at a
time over a thread of its own, the end of the process after anything but one
valid line, and a shutdown. The engine is assumed to write an extra line only
together with the first one; terminating it works. ProcessSlots is the
supervisor's mutex and condition variable: slots, waiters, the lease that comes
back with the last of a process's holders, and the shutdown list. A spawn and
its registration under the lock are one step; a process has one pipe.

### BatchCleanup, ReviewReceipts and ReviewSegments: stored reviews and their cleanup

ReviewSegments is the segment codec of the review store: two windows prepare,
save under the revisions they saw, and confirm groups; the recovery read judges
the same rows. ReviewReceipts is the receipt codec: jobs over the same documents
share a slot per receipt but not the decision. BatchCleanup EXTENDS
ReviewReceipts with plans, gate, deletion, the nested release in the review
database, and the previews' files; the process may die between any two of
these and the plan is executed again. ReviewReceipts has a specification of its
own as well (`ReceiptSpec`: jobs are analysed and reviewed, none is deleted),
which is the one its proofs are about.

### CalibrationJournal and LayoutTemplates: rounds over two databases

CalibrationJournal follows the rounds of one job: the batch database commits a
round and its journal row, the review database is replaced afterwards, and the
next request recovers what a crash left. Overlapping requests may leave two
pending rounds, which the code answers with a refusal. LayoutTemplates has the
versions a template series gets from rounds of several jobs, and their withdrawal.

### TaskReviews and AtomicReviews: reviews of a task

A batch of records is validated whole and written row by row in one
transaction, by two clients and with crashes; `SavesAreAtomic` is the refinement:
AtomicReviews saves a batch at once or not at all. Migration of old rows is left
out.

### GroupingStore, GroupingTrials, GroupingBasis and GroupingDraft

GroupingStore has the grouping of one job: account, prepare, corrections,
refresh (which reads documents before it takes the locks), history and the
grouped export. A review record is a crop, a boundary status and a type; saving any of
them, also one that only confirms a boundary or puts it in doubt, changes the fingerprint
and makes the next prepare judge the item again. Corrections fall when any of the three
changes (`KeptManual`, `receipt_grouping_store.py:551`), so a person who corrects a receipt while its
boundary is pending, as `tests/test_receipt_counterparty_correction.py:134` allows,
loses the corrections when the boundary is confirmed; `CorrectionsStay` says exactly this. What
was read of a crop is handed to its next item together with the marks (`Marks`) an earlier review has
left on it. GroupingTrials EXTENDS it with the trial, application and undo
of a reading rule. GroupingBasis asks what a request rests on: stamps,
audited inputs from a cache, documents read outside every lock, while reviews,
paths and calibrations change. GroupingDraft is the workbook for checking,
which has no journal: written to a hidden directory from a view, renamed
under both locks when the view is still current; a failure names what is left.

### BatchResults, ReceiptResults, ResultSnapshot and ExportScope

BatchResults (fragments of a search) and ReceiptResults (receipts) compute what
a page becomes: inferred layout, selection by keywords, what needs a review,
the checkpoint and the snapshot that is assembled from all pages, together with
the checks each consumer makes of it. Rectangles are full-width bands, the
findings of the parser and of layout inference are chosen freely from a set of
`Contents`. ResultSnapshot reads a published snapshot in pieces while its job is
archived, moved, calibrated, deleted or damaged. ExportScope is what an export may
take: the request is checked, frozen, planned into files, and checked again
before previews and delivery; the receipt planner judges by rules of its own.

### ExportBundle, ExportOwnership and ExportProgress

ExportBundle is the life of an intent between host and engine: record, preview
files (`FilesOf` says how many an intent has), rows that own them and tokens in
memory, where each call may fail, fail half-way or lose its answer. ExportOwnership is the registry of files the
engine may delete, with two processes and a user who replaces files; a section
under a token's lock file is one action. ExportProgress is the reporter and the
reader that gives an export up over one frame too many.

### OcrCache, PrivateTemp, TaskStore and PageQueue

OcrCache: processes that share a directory without a lock, in the steps the
file system makes visible. PrivateTemp: directories named by process numbers
that are used again. TaskStore: one action per transaction (retry_failed_pages
is two). PageQueue: the queue in memory, its saves, and the end of the process
between them. The last two are library code of the engine that today only
tests call.

### BatchControl and ReviewSession: the window

BatchControl has the operations, polls and list reads of the job controller,
answered in any order or not at all, with their epochs. ReviewSession has the
save queue, the history of operations and the window's saving, retrying,
undoing and discarding, with lost answers. A retry is a new task
(`Anew`): it carries neither the revisions nor the answer of the one that failed.

### The harnesses (MC...)

Most modules are checked in a harness that brings several of them together. They
share nothing, so one run checks them side by side: `part` is fixed in
the initial state and says which of them a behaviour is about. Where there are
proofs (MCExports, MCWindows, the reviews in MCReviews) the harness EXTENDS the
modules, so that the property TLC checks is the one that is proved; a
module with variables at rest stays in its initial state. The others are
instantiated over shared variables x1, x2, ... The states of the parts add up,
they do not multiply. A property of a harness is the conjunction of named
properties of its parts, each stated and explained in its own module.

## 3. The runs

| Run | Instances | Shows |
|---|---|---|
| `store` | BatchStore (in MCBatchRun, with applications and workers at rest): one job of 2 pages with 2 hosts, 2 restarts, 2 claims per page, 2 commands; or two jobs of one page, started once each | the tables agree, work and budgets are kept, cancel and gate (`StopsAreFinal`) and publication are final |
| `run` | BatchRun: one job of 2 pages, 2 applications, 2 restarts, 2 commands; or two jobs of one application | a worker owns what it works on, the slot is the active run, a gated or resting job is quiet, a settlement respects the winner |
| `run_live` | BatchRun: one page per job, `FairSpec` | every run ends, every cancellation takes effect |
| `live` | ExportPublish (a PDF and the workbook, 3 attempts, 3 faults of any kind, a history of 1); WorkerEvents, ControlPipe, EngineReads, ProcessSlots, BatchControl, ReviewSession with fairness | a publication is delivered once, everything left is on record, nothing foreign is lost, and a delivery is reported; supervisions, stops, requests, waits and shutdowns end; windows settle |
| `export_retry` | ExportPublish: 1 file, crashes only | the first disagreement below (expected violation) |
| `exports` | ExportJournal (3 contents, 4 generations); ExportOwnership (`race`: two processes at one path under one token, 2 edits of a user; `preview`: one request at a time, two tokens and two paths); ExportBundle (3 intents of 2, 1 and 1 previews, room for one); ExportProgress (8 frames) | the journal is an atomic record; files (`OwnershipKept`, `OnlyOwnFilesGo`), previews and records (`BundlesKept`) belong to somebody; progress is advisory |
| `windows` | BatchControl (2 jobs, 2 operations, a list, 1 failed request); ReviewSession (`session`: 2 segments, 2 analyses, another window, an error; `undo`: a long series of edits and undos) | what is shown is true (`ViewIsTrue`, `SessionIsTrue`), moves forward and is saved informed |
| `reviews` | TaskReviews (2 clients, 7 batches), ReviewSegments (2 windows, 4 manifests, 2 results, 3 decisions), ReviewReceipts (2 jobs, 2 windows, 2 results, 2 saves each), CalibrationJournal (2 rounds), LayoutTemplates (3 rounds of a slot, 2 of two slots) | reviews are true, rounds and series are whole, nobody takes more than its own, saves are atomic |
| `template_revived` | LayoutTemplates: 2 rounds of two slots | the second disagreement below (expected violation) |
| `receipts` | BatchResults and ReceiptResults (every page of the set of contents; two equal sources), ResultSnapshot (2 receipts, 2 revisions), ExportScope (3 fragments, 3 receipts, 2 that overlap); GroupingStore (reviews; program updates), GroupingTrials (two trials; with a reader), GroupingBasis, GroupingDraft | every page has a sure result, a selection is exact, assignments resolve, corrections stay as long as they should, a delivery is current and a draft whole |
| `stays_excluded` | GroupingStore: 1 receipt, 2 reviews of any status and type | the third disagreement below (expected violation) |
| `engine` | WorkerEvents (2 units), ControlPipe (6 bytes), EngineReads (3 requests), ProcessSlots (4 threads, 2 slots), OcrCache, PrivateTemp, TaskStore, PageQueue, BatchCleanup (two plans over two jobs; two engines with two open previews) | the engines are heard, files survive and what a cleanup removes is accounted for, a pause and a plan hold |

**Bounds.** `MaxGeneration` and `MaxAttempts` stop restarts and claims of a page,
which the code does not bound. Two are enough for a claim, a verification or a
settlement of a former run to meet the present one. Two owners are the former
and the present host. Two pages of one source show a run that has settled one
and holds the other; two jobs compete for one active place. `MaxCommands` is 64
in the code; 2 reach the full history. `StoreExplored` and `Explored` (in
MCBatchRun) keep the two extremes apart: one job with all of the constants, or
two jobs that go as far as the competition for the active place needs. In
ExportPublish `MaxFaults` bounds the faults of a behaviour; most of the
violations the mutants show need two or three, and a further attempt adds
nothing once one attempt can be left behind by another. `MaxHistory` is
MAX_RESIDUAL_ATTEMPTS (16); 1 reaches its limit. In ExportJournal `MaxVersion` is
MAX_GENERATION; four generations let two leftovers lie below the newest. The
other `Max...` constants bound what users, clocks and faults may do how often.
Larger instances were checked once: BatchStore of one job with 3 commands (311
thousand states) and of two jobs (483 thousand), BatchRun of one job (1.0 million)
and of two with a cancel (0.9 million), ExportPublish with 4 faults, BatchControl
with a list, a change and an error (0.7 million), ReviewSession with 2 segments
and 3 operations (9 million) and with undo over 2 segments (20 million), OcrCache
(4.6 million), CalibrationJournal with 3 rounds (2.1 million), an edited preview
in ExportOwnership (1.9 million), two plans and two engines in BatchCleanup (1.8
million), GroupingBasis with 2 revisions (3.4 million), ExportBundle with two open
intents (1.0 million), GroupingTrials with four revisions and a reader (1.2
million), LayoutTemplates with 3 rounds of two slots, ReviewReceipts with 4
statuses. The cfgs set `CHECK_DEADLOCK FALSE` since the systems may come to
rest: all jobs deleted or out of generations, an intent published or closed.

**Fairness** is what the code's scheduling gives. In `run_live` (`FairSpec` of BatchRun)
an application is eventually opened; its engine calls return; a process runs,
or dies, or is killed at its deadline; activation and settlement, which each
request tries again, succeed at some time when they could again and again
(SF). `RunEnds` and `CancelEnds` assume that from some time on an application stays
open (otherwise there is nobody to settle a run), and except the one case the
program reports and leaves to a restart, `worker_stop_unconfirmed`. In `live`: a started
publication goes on to its end or a crash, and the user opens the task or
retries as long as it is unfinished (SF; opening, `StatusBundle`, recognises a
delivered directory); the monitor thread of a supervision runs and time passes,
nothing is assumed of the worker; the reader of the control pipe runs; the
threads of the read service run and time passes, nothing is assumed of the
engine; the threads that wait for a slot run, time passes, a process told to end
ends, its holders let it go and the shutdown goes through its list; the poll timer
fires and a request is answered or times out.

**Three disagreements.** `_recover_before_rename` is documented as "Clean a proven
pre-rename attempt so a later call may retry". The cleanup deletes the temporary
directory and saves the cleaned record afterwards. When the process dies (or the
save fails) in between, the record names a captured directory that is gone;
every later call reports it as "disappeared before cleanup" and refuses, and
`close` refuses an intent that is publishing, so the intent stays in that state
for good. `export_retry` shows the behaviour (two crashes). Treating an absent
directory as cleaned would not do as it stands: a delivered directory which the
user has moved away looks the same.

`docs/manual-test-checklist.md` says that after an undo new tasks do not use the
boundaries just undone. `recover_receipt_calibration` completes an undo that a
crash interrupted without withdrawing the round's templates; they are then hidden
only by a marker that goes with the job. `template_revived` shows a template that
becomes active again.

`docs/counterparty-grouping.md` says that every retained fragment has exactly one
destination. `prepare` means to keep what was read of a crop; it lays the review's new row over
the whole stored item, in which `_build_item` has noted that the review of that time
excluded the receipt, and the new row does not name that mark. A receipt prepared while
excluded, then restored and confirmed, keeps the excluded route in every later prepare,
and the grouped export refuses the job. `stays_excluded` shows it with one receipt and two reviews.

**Further disagreements met while modelling**, which no run of the table shows;
each is a property of its module, refuted with the constants given:

- `AbsentMeansNone` (BatchCleanup; two jobs, one window, one plan, one engine): a
  cleanup records the review state `absent`, which the task list words as "does not
  exist", when there was no context at the time of the plan; a review saved
  between plan and execution stays, owned by a deleted job (`batch_cleanup.py:1122`).
- `RestartRecovers` (CalibrationJournal; rounds 1 and 3): after a crash between commit and
  projection and a prepare of another job over the same documents, the review of the first job
  can no longer be opened (`receipt_calibration_journal.py:310`), while
  `docs/receipt-layout-design.md:181` says preparing it recovers the operation.
- `SuggestionStaysOpen` (CalibrationJournal; rounds 1 and 3, both modes, one shape): a confirmation of
  an undone calibration stays in the review database under the identity of its receipt (page, layout and
  layout revision), which the next round from the same base has again. Where a template then suggests the
  same rectangle, `current_record` (`receipt_review_store.py:165`) carries that confirmation into the
  new result: the suggestion shows as confirmed though nobody has confirmed it, against the comment at
  `receipt_calibration_journal.py:212`; and after a crash between the two databases the round cannot be
  recovered (`receipt_calibration_journal.py:338`). `NeverMixed` and `ProjectedOnce` name this case as their only exception (`Revived`).
- `GroupsKept` (GroupingTrials; the constants of the part `trials` with ManualIds of one): the
  application of a trial replaces the group table without a row in the history
  (`receipt_field_rule_application.py:215`), against the docstring at
  `receipt_grouping_store.py:1169`.
- `PausedCanResume` (TaskStore; one task): `_TASK_TRANSITIONS` lets a partial_failed task be
  paused (`task_store.py:86`) but not resumed (`task_store.py:98`).
- `OneLogicalInput` (TaskStore; one task, two paths, two digests): a registered path may be registered again
  with the bytes of another path (`task_store.py:458`), against the comment at
  `task_store.py:464`.
- `BlockedMeansPreview` (ExportBundle; MaxIntents 1, FilesOf of one): when the close after a failed creation fails
  or loses its answer, the tokens of the intent stay in memory and a later cleanup is
  refused for a preview that does not exist (`export_bundle.rs:443`, `main.rs:118`).

## 4. Properties

The comment before each property says what it promises and where the code
could break it. Some properties that runs and theorems name are conjunctions: `StopsAreFinal`
(a cancellation and a closed gate), `BundlesKept` (preview files, rows and records),
`ViewIsTrue` and `SessionIsTrue` (the two windows), `ReviewsAreTrue` (the three review
stores), `UpkeepIsWhole` (rounds and templates), `PromisesHold` (queue and cleanup).
`PROJECT.json` gives for each a mutant: a plausible bug of the mapped definition
under which TLC refutes it.

## 5. Proofs

Six modules hold theorems. Each names an inductive invariant, which TLC checked
on a small instance before it was proved; several had to be strengthened until
they were inductive, and what had to be added is said below.

BatchStoreProofs proves the properties of the database for any number of jobs,
sources, pages, documents, hosts, commands, generations and attempts.

- `TypeCorrect`: `TypeOK` is inductive by itself. `TypeStep` has one step per
  transaction and one per table the transaction writes.
- `SafetyCorrect`: `Safety` is the conjunction of the eight state invariants the runs
  check, and with `TypeOK` it is inductive as it stands. Each part is inductive by
  itself except `PublishedIsComplete`: publish_snapshot looks at the page rows that
  exist, and only `PagesMatchDocument` makes these the whole document. The step of
  each part rests on a lemma that says which transactions can disturb it at all
  (`ActiveStep`: how a job comes to be active; `IdentityStep`: when a source gets
  its identity; `PresenceKept`: what leaves the rows in place), so that a reader
  sees one case per transaction that matters. `OneJobExecutes`, `TablesAgree` and
  `PublicationIsComplete` name the parts.
- `CheckpointsAreKept`, `StopsStayFinal`, `PublicationIsFrozen`: action properties, from the invariant and a lemma on how the
  table concerned is written (`ResultStep`, `SnapshotStep`, `OutcomeStep`,
  `QuietCancel`). CheckpointKept is where the invariant is needed most:
  begin_page and start_job do clear results, of pages `SettledIffResult` shows to
  have none.
- `CancelSlotIsKept`: the bound of the command history, by `HistoryBounded`,
  which adds that the history is finite.
- `BudgetIsKept`: what a source has been charged lies between its settled pages and the
  claims on them that are over. The property writes the upper bound as a sum over the pages; the
  invariant `BudgetInv` counts instead the pairs of a page and the number of
  a claim that is over (`Charged`), so that a commit, a failure or a takeover adds or keeps pairs
  and cardinality lemmas do the rest. A claim is charged when it ends, not when it
  begins, which the state of its page says (`AttemptsSound`).

ExportProofs has the four modules of the run `exports`.

- The journal, for any contents and any number of generations: its files implement
  AtomicRecord (`JournalIsAtomic`), each by the step it claims to be: a generation is
  published as the saver's own content over the one it has loaded. The inductive
  invariant `JournalInv` says what each stage of a save or a removal knows of the files
  (`HoldsRecord`), that an anchored record has a newest generation (`HasTop`), and
  that generations only become finished (`Finished`): it is the last that makes a
  removal by a process with an outdated version harmless. `JournalTypeCorrect` and
  `SaveIsLatest` follow from the same invariant.
- The registry of exported files, for any tokens, paths, processes, contents and edits
  (`RegistryAgrees`, `ForeignFilesStay`). `OwnershipInv` adds to what the run checks
  that an identity is given out once (`IdsSound`), what each step of a request knows of its
  file (`RequestsSound`), that a file made but not reported is nobody else's
  (`PendingSound`), and that a file is registered at most once and not after its
  release (`RecordsSound`). The last two are what a removal rests on: it compares
  only the identity and the content at a path with what it has in memory.
- The life of an intent, for any number of intents, files, receipts and open places
  (`BundlesAreKept`). `BundleInv` says of each intent what depends on its record
  (`IntentOK`), that records are well formed and few (`JournalOK`), and what the host knows in
  the middle of an operation (`HostOK`): that the previews it has not registered yet are
  those of an intent which is still `created` is what makes giving it up safe.
- The progress of an export, for any limits (`AdviceNeverKills`): one frame is kept for the last
  report (`ProgressInv`).

BatchRunProofs composes: it reasons about BatchRun, whose steps are those of
applications, worker processes, their user and the operating system, and takes
the database from BatchStoreProofs.

- `RunIsInductive`: the invariant is `Safety` of the database, `NoForgottenRun` and four
  parts. `ProcessOK` says what each stage of a process owns: the lease names the one process
  that writes, and that process holds the nonce and generation of its run and, while it
  computes, the claim of its page. It is what makes the reads of the code, made
  before each write, still true when the write is made. `SlotOK` says what the slot
  tells of the process that may be about and that a settlement holds the lease,
  `HostOK` that an application serves only once it has taken over, and has no worker before, `JobOK`
  that a job never started has no owner and nothing read. None is inductive alone: a
  takeover is harmless only because the lease is free (`ProcessOK`), a start only because
  a free slot means no process (`SlotOK`), and a settlement ends the run it
  finds only because the slot names the active one (`NoForgottenRun`).
- `RunImplementsStore`: each step is one transaction of BatchStore or leaves the tables
  alone. So the theorems of the database hold of every run: `RunKeepsTables`,
  `RunKeepsHistory`.
- `WorkersOwn`, `SlotsAreTrue`, `RestIsFrozen`, `WinnerIsRespected`: the four properties
  of the run `run`. The last is the race of a settlement that decides on what it read
  with a worker that publishes or cancels in between: a row lets only the transitions
  pass that the winner has not excluded.

ExportPublishProofs proves, for any plan of files, any number of attempts,
crashes, failures and acts of others:

- `PublishIsInductive`: the invariant is the type, `RecordOK` (what `PublishIsSound` says,
  and `DiskOK`: a directory of ours is at the final path only if it was delivered, at
  the temporary one only if it was not, and only what was captured was delivered), `EntryOK` (a process holds what the
  journal says or, after a save that failed while cleaning, more than that) and
  `CleanedOK` (an attempt cleaned without residue left nothing of ours, so that its record may be
  dropped). The lemma on a save has its three outcomes: done, not done, done
  but reported as failed; those on the disk say what each step may touch.
- `PublicationIsSound` follows; `ForeignStays` needs for each step only that what it
  deletes or replaces is ours, or nothing at all.

WindowProofs has the two window modules.

- The job list, for any number of jobs, operations, polls and pages of the list
  (`ViewsAreTrue`, `ViewsMoveForward`). The invariant `ControlInv` relates every answer under way to
  the host (`AnswerOK`: it brings no version the host has not come to, and in the present
  epoch none older than what is shown), the flags of the window to the one request there may be in the
  present epoch (`EpochOK`), and says that a deleted job can return by no answer (`DeletedStaysAway`).
- The review session, for any segments, decisions, lengths of the history and numbers of
  operations (`SessionsAreTrue`, `SavesStayInformed`). `SessionInv` says that at most one
  operation of the present epoch is under way, of which the window knows (`BusyOK`, `LoadOK`,
  `QueueOK`), that what a task expects or an answer tells was committed (`AskedOK`, `ReplyOK`,
  `KnownIsCommitted`), that what the window shows beyond what is saved is of the operation under
  way or of the one to be retried (`ShownOK`, `PendingOK`), and that the saves between
  the two ends of a history entry are all the window's own (`OursBetween`), which
  is why an undo takes back nothing of others. Strengthening it showed that the model
  of a retry had kept the revisions and the answer of the attempt that failed; in the code
  (`runReviewOperation`) it is a new task, and now it is one in the model (`Anew`).

ReviewProofs has the three review stores.

- TaskReviews, for any batches and clients: `ReviewRowsHold` is its three
  invariants. `SavesImplementAtomic` is the refinement of AtomicReviews: the inductive
  invariant `RowsInv` says (`Applied`) that the table of an open transaction is the
  committed one with, for each segment, the last of the records written so far; at
  the end of a batch this is what AtomicReviews asks (`AppliedIsSaved`).
- ReviewSegments, for any windows, manifests and results: `NoDecisionIsLost`. `SegmentInv` needs, besides the
  type and `NoFalseCorruption`, that a window which has the stored revision of
  a segment has seen the decision stored under it, and none has a later one
  (`SeenOK`): a save compares revisions only, and a prepare under a new result rebinds a row without
  a new one.
- ReviewReceipts, for any jobs, windows, results and statuses: `SaversAreInformed`. A save is accepted for the
  revision of the context's own record, of an older result's record or of the one without
  scope, and jobs share contexts and slots. That this revision stands for every save of
  the job needs `NewestOK` (the record of its newest reviewed result counts them all),
  `RecordsOK` (a record counts no more, and one that counts all agrees with the last) and
  `ContextOK` (the context is bound to no result that has been reviewed further on).
- `ReviewsStayTrue`: the invariant of the run, from the three.

Assumptions: `NoneAssumption` (NULL is no owner, digest or number),
`SnapshotAssumption` (NULL is no snapshot), `BoundsAssumption`
(MAX_COMMANDS_PER_JOB is positive; the model's bounds are numbers), `ValuesAssumption`
(no content stands for an absent or removed record; removable contents are contents),
`NoneAssumption` of ExportJournal (the marks for no record and a removed one are no version and no process)
and `VersionAssumption`; for BatchRun `OrderAssumption` (sources and pages are numbers: a
worker takes the least first), `HostAssumption` and `SlotAssumption` (the
marks for a settlement's lease, a free lease, an absent state and an empty slot are no
nonce, state or slot); for ExportPublish `AbsenceAssumption` (NONE is no attempt and no directory)
and those on the plan, the kinds of faults and the bounds; for TaskReviews `BatchAssumption`,
`AbsentAssumption` and `InvalidAssumption` (a batch is a list of records, the marks
are none); for the other exports `AbsentAssumption` and `BoundsAreNumbers`
(ExportOwnership), `BundleAssumption` (an intent has at least one file, one may be open),
`NoRecordAssumption` and `ProgressAssumption` (`finalizing` is a stage, the frame limit is
positive); `ControlAssumption` (there are finitely many jobs) and `SessionAssumption` (the default is a
decision, the history has room); `SegmentAssumption` (a manifest gives items their
signatures) and `ReceiptAssumption` (`confirmed` is a status, the marks are none).
They say that bounds are numbers and that the marks of the model are distinct from what they mark,
and little else about the code; TLC evaluates each in a run.

Only model-checked are:

- liveness (`RunEnds`, `CancelEnds`, `DeliveryIsReported`, `CleanAttemptIsRetried`,
  `EnginesEnd`, `WindowsSettle`): fairness and ENABLED are out of the prover's reach;
- rounds and templates (`UpkeepIsWhole`, and their parts of `OnlyTheirOwn`; the parts on
  segments and receipts are proved as `NoDecisionIsLost` and `SaversAreInformed`);
- the grouping (`GroupsResolve`, `GroupingKeeps`, `DraftIsWhole`), the processes beside the batch and
  the cleanup (`EnginesAreHeard`, `FilesSurvive`, `PromisesHold`): they have no proofs yet;
- `PageResultsHold`, `SelectionIsExact`, `DeliveredIsCurrent`: what a page or a plan
  becomes is computed by recursion over lists, and induction over data is out of reach;
- the receipts' reviews when jobs are deleted in between: the theorems are about `ReceiptSpec`; the run
  `engine` checks `EverySaveCounts` together with BatchCleanup's deletions.

## 6. Not modelled

The notes in `PROJECT.json` name the parts left out. The recognition rules
(heuristics over extracted text) are data rather than control, their outcome is a
free choice; the desktop shell, the presentation and the build scripts keep no
state the properties are about. What the modules leave out of the code they
do model:

- BatchRun: what a unit computes is BatchResults and ReceiptResults; storage maintenance is left out.
- CalibrationJournal: legacy rows without a scope; geometry is a level and a shape, whatever the mode. Undoing a
  second round bumps revisions, so that an earlier one cannot be undone any more, which
  `docs/receipt-layout-design.md:184` allows.
- GroupingStore: the change of an account after the analysis, which the job states exclude;
  `status` is not recomputed by a refresh, as in the code. A type is taken over like an exclusion (`Marks`):
  another type, or an ordinary one, in a later review leaves the item the first; the special route that the
  readers give bank fees and deposit interest is left out.
- TaskStore, PageQueue: inserted rows (text, matches, crops, logs). A page claimed by a
  worker that is lost, or an item 'processing' at a crash, is never picked up again: the
  code has no recovery for it. `retry_failed` ignores `max_pending_items`, as in the code.
- ExportOwnership: a lock file left by a crash makes everything under its token fail
  closed for ever, as in the code.
- ExportScope: published items do not change and relocation is left out (ResultSnapshot has
  both); the client always sends `full_page` with `page_confirmed`; the length of file names.
- ExportBundle: the host's lifecycle mutex makes operations sequential; space pressure is
  nondeterministic; an engine that outlives a crashed host; publication is its outcomes.
- WorkerEvents: the content of a unit, errors of `try_wait`.
- BatchResults: layout inference and OCR are free choices; a keyword hit outside every
  receipt stops the assembly on purpose, and each resume ends the same way; budgets and signatures.
- ReceiptResults: the reference page and the historical layout are part of a page's
  content; equal risks of one slot count once; MaxRisks is 3 instead of 10,000. A reference that
  is no proven form gives its slots without a look at the page's own evidence budget
  (`batch_pdf.py:264`), which `ConfirmedIsSure` excludes; a page of blank slots has no receipt.
- ResultSnapshot: swapped rows, which `results_page` would not notice and `review_snapshot` would.
- GroupingBasis: stored paths and the account; stamps are versions.
- EngineReads: a save that times out may have been committed; termination works.
- BatchControl: dispose and restart, paging and `loading` of the list; stale list reads are dropped at once.
- ReviewSession: each analysis binds a new number; edits are blocked while loading. After a
  source change an edit of another source whose save was queued is neither saved nor marked
  (`ShownIsSaved` holds while no source has changed; an export stays gated until a
  reload); a retry after a committed save with a lost answer can only conflict, and discarding is the way
  out. The guided review and the calibration controller are left out.
- OcrCache: temporary bytes do not count against the capacity; a prune may delete an entry just
  rewritten (a miss); link checks. PrivateTemp: the choice of the root, link checks; the removal of a
  tree is one step. GroupingDraft: a crash leaves the hidden directory and nothing names it.
- ProcessSlots: lock poisoning, job objects, the creation of pipes. ExportProgress: time.

## 7. Plan

1. An abstract batch (what the user sees of a job) and BatchStore as its refinement.
2. The calibration controller and the engine scheduler of the window
   (`engineProcessScheduler.ts`), the registry of company accounts.
3. Proofs of BatchCleanup (over the invariant of ReviewReceipts), of CalibrationJournal and LayoutTemplates, and
   of GroupingStore, each with an inductive invariant of its own.
