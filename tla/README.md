# md-converter: specifications and proofs

A TLA+ model of md-converter, the service that converts uploaded documents to
Markdown (and Markdown to PDF, DOCX or EPUB): a FastAPI process, a PostgreSQL
database, a Redis queue, Celery workers and a Next.js client. Paths below are
relative to `src/apps/api/app` unless they start with `apps/`.

## 1. Inventory

| Part | State it keeps | Operations | Where |
|---|---|---|---|
| Job service | tables `jobs`, `files` | `create_job`, `start_file`, `complete_file`, `fail_file`, `recompute_job_status`, `delete_job`, `list_jobs` | `services/jobs.py`, `models/db.py`, `db_sync.py` |
| Conversion task | a task slot per worker process; retries of the message | load, validate, convert, record success or failure, retry, acknowledge | `tasks/conversion.py`, `tasks/celery_app.py` |
| Queue (external) | messages waiting, messages delivered and not acknowledged | publish, deliver, redeliver, evict | Redis through Celery |
| Job routes | the handler in the event loop; staged uploads | create, list, get, delete, zip | `routes/jobs.py` |
| File routes | none | content, download | `routes/files.py` |
| Upload validation | none | extension, MIME and container checks | `security/validation.py` |
| Path containment | none | resolve a stored path under `DATA_DIR` | `security/storage.py` |
| Converters | output directory, media directory of the job | pandoc, PyMuPDF, markitdown, OCR, export; routing | `converters/*.py` |
| PDF inspection | none | choose sample pages, classify as text or scan | `utils/pdf_inspector.py` |
| Quality score | none | score a conversion | `processors/quality.py` |
| Markdown cleaner | none | ten passes over the text, in order | `processors/markdown_cleaner.py` |
| Web client | query cache, poll timers, staged files, page offset, object URLs | upload, poll, page, delete, preview | `apps/web` |
| Schema, CLI, configuration, health | none of their own | | `apps/web/lib/schema.ts`, `cli.py`, `config.py`, `routes/health.py` |

**How they interact.** `POST /jobs` stages the uploads on disk, inserts the job
and its file rows in one transaction, then publishes one message per file.
Workers take messages; each task runs three transactions on the two tables
(start; fail or complete) with the conversion between them, and writes its
output to disk before the row names it. `GET /jobs/{id}` reads the tables; the
client polls it until the status is terminal. `DELETE /jobs/{id}` removes the
rows in one transaction and then unlinks the artefacts whose paths it read.
The tables and the disk are the shared state; the queue is the only channel.

**What is hard.** Tasks of one job run concurrently and finish in any order.
Messages are acknowledged late, so a task can run again after any of its
commits, or run twice at the same time. Dropped connections are retried three
times. DELETE does not wait for tasks and does not revoke them. Two resources,
database and disk, are updated without a common transaction. The session has
autoflush off, so the order of flush and count matters. A conversion runs
under limits that were chosen apart from each other: those of its tool, and two
of Celery's, one of which cannot strike while C code runs. What a browser shows
is as old as its last reply, while rows and files come, change and go.

**What makes it correct.** The status of a job agrees with the verdicts of its
files whatever the order and the faults; the counter covers every verdict, and
is exact when nothing is delivered twice; what a row points at is on disk; no
file is forgotten while the faults are those the retries are for; every job is
decided in the end; a rejected upload leaves nothing; a converted document finds
its images; nothing is left behind by DELETE; a conversion ends, with its whole
output or with a verdict and nothing half-written; the words of a document
survive its cleaning; what a reader sees as converted can be had, and what it
shows catches up with the tables. Not all of it holds: see section 5.

## 2. Modules

| Module | Models | Extends |
|---|---|---|
| `JobTally` | the status words and `compute_job_status`; `Verdict`, its reference definition | |
| `JobRows` | the two tables and the functions of `services/jobs.py` as atomic transactions | `JobTally` |
| `JobContract` | abstract: what a reader of `GET /jobs/{id}` may rely on; `JobRows` instantiates it (`Contract`) on its tables | `JobTally` |
| `Conversion` | API process, queue, workers, disk and faults around `JobRows` | `JobRows` |
| `RowLocks` | the same transactions statement by statement, as PostgreSQL runs them under READ COMMITTED with row locks | `JobRows` |
| `Validation` | `security/validation.py`, a function of the document | |
| `Upload` | `POST /jobs`: staging chunk by chunk, validation, limits, commit, dispatch, every error path | `Validation` |
| `Media` | the output directory of a job: the images of the documents converted into it at the same time | |
| `Routing` | `converters/router.py`, the registry, `utils/pdf_inspector.py`: which converter a document goes to | |
| `Cleaner` | `processors/markdown_cleaner.py` over a text of tokens; the nesting of tags as its reference | |
| `Quality` | `processors/quality.py` in thousandths | |
| `Attempt` | one attempt at a document from validation to verdict, as a task or from `cli.py`; every converter, every time limit | `Validation`, `Routing`, `Cleaner`, `Quality` |
| `Serving` | what a browser tab sees: the read routes, DELETE, and the hooks of the client, while the server moves | `JobRows` |
| `MCConversion`, `MCRowLocks`, `MCUpload`, `MCMedia`, `MCAttempt`, `MCServing` | instances for TLC | the module of the name |
| `JobRowsProofs` (with the theorem on `JobTally`), `ConversionProofs`, `RowLocksProofs`, `UploadProofs`, `MediaProofs`, `CleanerProofs`, `AttemptProofs`, `ServingProofs` | theorems | the module of the name |

### State and code

- `jobs`, `files`: the rows, with the columns whose values the properties tell
  apart. `completed` is "completed_at is set", `error` "error_message is set",
  `output` the run whose file `output_path` names. `created` remembers the jobs
  that were ever inserted: a UUID is not used again.
- `queue`: how many copies of a message (file, retries so far) wait in Redis.
- `workers`: per slot the message it executes, the step it is at, whether the
  broker still counts the message as its own (`held`), and the output it has
  produced and not yet recorded (`doc`).
- `disk`: `<<f, 0>>` is the staged input of `f`, `<<f, n>>` the output of its
  n-th run. Output names carry a fresh `uuid4().hex`, so runs never collide.
- `api`: the handler that has the event loop. The route bodies do not await
  after staging, so two handlers never interleave there; workers run between
  their steps.
- Each action of `Conversion` is one transaction, one file-system effect or one
  message operation of the code; `map` in `PROJECT.json` gives the lines.

- `RowLocks` opens the transactions up. A *run* is one execution of the task
  (one per delivery); `tx` says which statement it is at, what its session has
  loaded and which row versions it has written; `lock` who holds a row's lock.
  `del` is the DELETE request between its statements, `view` the GET request
  between its two SELECTs. A statement sees committed rows and its own. What
  SQLAlchemy sends follows from `autoflush=False` (statements are sent by an
  explicit flush or the commit) and from its writing only the columns that
  differ from the row it loaded: this is why a start of a file that is already
  `processing` takes no lock on it.

- `Upload` looks at what comes before `Conversion`'s `CreateJob`. `req` is the
  handler of a request: the documents it was sent, the sizes of those it has
  accepted (`specs`, as in the code) and the bytes read of the one at hand.
  `disk` holds the staged inputs with the bytes written so far; the name of a
  staged file is `(request, position)`, because the code prefixes a UUID. A
  document is what the checks tell apart: its extension, what libmagic says of
  its first bytes, whether it is an archive with the entry that marks its kind,
  its size. `jobs` has the sizes of the rows. An error that no `except` names
  (disk full, database or broker away) is `Breaks`, the end of the process
  `ApiDies`.

- `Media` opens up `Conversion`'s `ConvertOk`, `ConvertFails` and
  `ConvertBlowsUp` for the images. A *run* is one conversion, `own` its folder
  `<output>_media`, `media` the folder all of them share. A document is its kind
  of converter (only PyMuPDF makes the folder beforehand and removes an empty
  one), its images, and the names its Markdown refers to after the cleaner has
  rewritten them: not all of its images when some were in an SVG block, and not
  only its own when its text happens to mention such a path. `Check` and `Rename`
  are two steps, as `exists()` and `rename()` are.

- `Attempt` opens up what `Conversion` leaves to chance between its two
  transactions. `pc` is the stage, `tool` the converter, `process` the tool
  while it runs and the `stray` one that nobody waits for any more, `disk` what
  the attempt has in the output directory. `now` is a coarse clock: `Soft`,
  `Hard`, `ToolLimit` and `OcrLimit` keep the order of 300, 360, 300 and 900 s.
  `struck` remembers at which stage something cut the attempt short: a limit of
  Celery's, or an exception that no `except` names (`RaiseUnnamed`), such as a
  tool's messages that do not decode. It may come at every stage up to the rating
  and, like the soft limit, it unwinds what runs: the `finally` of the OCR
  converter removes the searchable copy once the extraction from it has begun,
  and nothing does before (`Unwound`). The soft limit is an exception in the
  Python code: it cannot be raised during a call into pymupdf (`Deaf`), it
  unwinds everywhere else, and only within `converter.convert` is it turned into
  a verdict. The hard limit ends the process. An attempt whose verdict is lost
  ends here (`Lose`, which says to what); whether its message is tried again is
  `Conversion`'s.
  An attempt with `cli` has neither limit and neither assesses nor records.
  What a tool extracts is one of `Texts(input)`; `WriteCleaned` puts it through
  `Clean`, `Assess` rates it.
- `Cleaner` sees a text as a sequence of words, tags and marks. A regular
  expression `<tag>.*?</tag>` matches from an open tag to the first of its close
  tags (`EndOf`), and `Sub` replaces from the left, as `re.sub` does; the ten
  passes are functions on texts, applied in the order of `clean_markdown`.
- `Routing` counts pages from 0 and rounds as Python does (`RoundHalfEven`). A
  page has enough characters for its area, or too few, or no area.
- `Serving` has the rows (`JobRows`), the outputs on disk as `<<f, run>>`, the
  time of creation of every job (`createdAt`; `Rank` is its place in `ORDER BY
  created_at DESC`), and one hook in one tab: its data (`shown`, `pages`), the
  request on its way (`reply`), the deletions the tab has sent (`closing`) and
  heard of (`told`). A handler does not await, so no other handler comes between
  its statements, and each is one step here. A worker is another process and may
  commit between the two SELECTs of `GET /jobs/{id}` (the job, its files): that
  split is in `RowLocks` only (`view`, `TerminalViewIsFinal`). The reply takes
  time, and `FileResponse` opens its file later (`Fetched`).
  TanStack Query is external and modelled by what the hooks ask of it: a request
  at a time, `invalidateQueries` cancels the one under way and asks again, an
  error keeps the data. For the preview, run `n` of the effect owns request `n`
  and object URL `n`; its request may be lost, or its body cut off (`FetchLost`),
  which the hook shows as an error although the file is there.

### Faults

The environment injects at most `MaxFaults` faults, of the kinds a run allows:
`db` (connection lost before the commit), `ambiguous` (the commit happened, its
reply was lost), `crash` (worker process killed), `orphan` (one killed that has lost its message
to a redelivery), `redeliver` (the broker
connection drops and the message is delivered again while the task runs on),
`timelimit`, `unhandled` (an exception no `except` of the task names: the message
is acknowledged, or tried again if it is a builtin `ConnectionError` or
`TimeoutError`),
`partial` (a failing importer leaves a file), `publish` (a retry cannot be
published), `evict` (Redis drops a message), `api` (the handler dies), `unlink`
(an artefact cannot be removed).

## 3. Runs

| Run | Instance | Shows |
|---|---|---|
| `conversion_faults` | one job of two files, two slots, any two faults of every kind, one retry | the status is the verdict on the files, the counter covers every verdict, what a row points at is on disk; each fault leaves at most one output behind that DELETE would miss; `IInv`: types, pending and stamps among it |
| `conversion_once` | the same, three faults, none that delivers twice | exact counter; a terminal status is final; implements `JobContract` |
| `conversion_recover` | one job of two files, two slots, two crashes, dropped connections, lost replies or redeliveries, two retries | no file is stranded; every job is decided or deleted (liveness) |
| `locks` | one job of two files, one task each, one retry, DELETE, a polling client | the tables stay consistent; every commit is a transaction of `JobRows` on the rows as they are (`RowLocks` implements `RowsSpec`); a GET that shows a terminal status shows the verdicts behind it; every task and DELETE ends |
| `upload` | two requests, 14 lists of documents with one at, above and below each limit, two errors | a rejected request leaves nothing staged; a job has the documents sent, entire, of one direction by their extensions (MIME type and container are checks of `Validation`, on the way); `UInv`; every request is answered |
| `media` | two documents of every small content (up to two images, any of them referred to, both kinds of converter), one converted twice | no conversion overwrites another's images; references that resolve stay so; a document is only denied its images by another one |
| `attempt` | every document the whitelists tell apart, as a task and from the command line, with every tool or one installed and four overrides; PDFs of 0 to 17 pages; HTML of three and four levels; damaged texts | a success is whole; whatever cuts an attempt short, it leaves what is listed; the soft limit costs a verdict only outside `converter.convert`, the hard one only after a call into pymupdf or while a failure is recorded; the three tables of extensions agree; exit codes; sampling; rating; cleaning; every attempt ends |
| `serving` | an export job of three files and an import job of one, three deliveries, two selections, a file whose stored path leaves `DATA_DIR`, one that may vanish | what a tab shows can be had, as files and as an archive; a final status is final; a deletion stays done; the history errs by no more than what moved; the preview is of the selected file; polling catches up |
| `finding_*` | the smallest instance each | section 5 |

**Why the bounds are enough.** In `Conversion` two files are what it takes for a batch to be
partly decided and to end `partial`; two slots for one file to run twice at the
same time; two faults for a fault to strike the recovery from another (a
redelivery and a retry, a crash and a lost reply); they are within the two
retries of `conversion_recover`, as two are within the three of the code. A third slot or file adds
interleavings of the same pairs: transactions of different jobs touch different
rows. In `RowLocks` two tasks of one job are the two that can be between each
other's statements; several tasks on one file are covered by the theorems. In
`Upload` two requests interleave at every chunk; a chunk of two bytes, files of
at most four and jobs of at most seven put a document on each side of every
limit and of a chunk boundary, and a batch can fail at its first or its second
file or only as a whole. In `Media` three conversions of two documents let one rename
while another is between its check and its rename, and let a document compete
with itself and with another. In `Attempt` one attempt is enough: what attempts
share is the media folder (`Media`) and the tables. The clock ticks between any
two stages, and the four limits are told apart as in the source; eight pages are
sampled, so 17 pages have every page sampled, every other, and the remainders in
between, with the odd page at an end and in the middle; the floors of the rating
(2, 2 and 3 tokens) have texts on each side. Tags nested three deep put each kind
of block around each pair of inline elements; the texts four deep put a call-out
into a quoted passage and a quoted passage into a call-out, with the inline
elements that decide what survives before, around and within the lines of each.
In `Serving` two jobs and pages of one job let a page shift by a creation and by a
deletion; two files that are served and are called alike, and a third, let the
archive rename; three deliveries bring a file its second verdict while another
of the job has none. The theorems hold for every size.

**Fairness.** The API process finishes the handler it runs, a task slot goes on
with its task (every blocking call of a converter has a time limit) and takes a
message while some wait (Celery's consumer loop). Weak fairness suffices: none
of these is disabled by others and re-enabled for ever. Users and faults are
owed nothing. `orphan` is not among the faults of `conversion_recover`, because it
does lose a file: a slot whose message was redelivered and already finished
elsewhere calls `start_file` late, sets a `done` row back to `processing` and is
then killed without owning a message that could come back.

In `Attempt` everything but the tools gets on with it: time passes, Python code
runs on, `subprocess.run` and `Future.result` notice their timeout, Celery its
limits. Tools are owed nothing: they may return late or never.

In `Serving` the timer of `refetchInterval` fires (weak fairness of `Poll`), and
a network that answers again and again does answer once (strong fairness of
`Arrive`, for `Lost` competes with it). Nobody has to upload, convert, delete
or load more.

In `Upload` the event loop comes back to every handler, hence weak fairness of
each; clients are owed nothing, errors may happen.

In `RowLocks` a task is owed strong fairness: PostgreSQL queues the waiters of a
row lock, so a session that waits again and again gets it, although DELETE
requests may come without end. A deadlock is found (`deadlock_timeout`), hence
weak fairness of its resolution.

Deadlock of the state machine is not checked in these runs: the system really
stops when every job is decided, forgotten or deleted, every task, conversion
or attempt has ended, every request is answered, or a reader has seen enough.
Deadlocks between transactions are states of `RowLocks` like any other, and
`EveryoneEnds` says that they do not last.

## 4. Proofs

TLAPS proves for every set of jobs, files and workers, every retry limit and
every number of faults, from the named assumptions `JobRowsAssumption` (finitely
many files, `JobOf` is a function) and `ConversionAssumption`:

- `TallyIsVerdict`: for a finite non-empty batch, `compute_job_status` on the
  two SQL counts is the verdict on the outcomes.
- `RowsConsistent`: the transactions keep `TablesInv`, in any order.
- `MovesByTransactions`: `Conversion` implements `RowsSpec`. Every step is a
  transaction of `JobRows` or leaves the tables alone.
- `Consistent`, `TypeCorrect`, `PendingIsExact`, `StatusIsVerdict`,
  `TerminalJobsAreStamped`, `NoVerdictUncounted`: the parts of `IInv`.
- `RowsAreServable`: what a row points at is on disk.
- `DiskIsAccountedFor`: at most one output per fault is left behind where DELETE
  misses it, whatever the faults.
- `CounterIsExact`, `EndedStaysEnded`, `ImplementsContract`: `processed` counts
  the verdicts, a terminal status is final, and `Conversion` implements
  `JobContract`; all under `MessagesComeOnce`: no fault of a kind that lets a
  message run twice (`ambiguous`, `crash`, `orphan`, `redeliver`). They are false
  without it: a second run reopens a decided file.
- `NobodyIsForgotten`: no file without a verdict is without a carrier, under
  `NothingIsLost`: no fault of the losing kinds, no path that leaves `DATA_DIR`,
  no more faults than retries. Crashes, lost replies and redeliveries are allowed.
- `LocksSuffice`, `ConsistentUnderLocks`, `LocksTyped`: statement by statement,
  with any number of tasks on the same file, the tables stay consistent.
  (Assumptions: `JobRowsAssumption`, `RowLocksAssumption`.)
- `SerialWhileOnce`, `TerminalViewIsTrue`: with one task per file
  (`OneTaskPerFile`; its retries stay within the task) every commit is a
  transaction of `JobRows`, that is, `RowLocks` implements `RowsSpec`; and a GET
  that shows a terminal status shows the verdicts behind it.
- `LocksKeepContract`: so `RowLocks` with one task per file implements
  `JobContract` as well, from `SerialWhileOnce` and what `OneTaskInv` says of a
  commit: it is the only verdict its file gets.

- `HandlersHoldTheDisk`, `NothingStaysStaged`, `JobsFit`: what `POST /jobs`
  leaves on disk and in the tables, for any number of concurrent requests, any
  documents, chunk size and limits. (Assumption: `UploadAssumption`.)

- `MediaHasOneOwner`, `NoImageIsLost`, `FirstComeFirstServed`,
  `MediaNeverChangesHands`: what becomes of the images of a job, for any number
  of documents and of conversions of each. (Assumption: `MediaAssumption`.)

- `SuccessIsWhole`, `NothingIsLeft`, `LimitsDoNotLose`, `TablesAgree`,
  `ExitCodesAreTrue`: what a success has on disk, what an attempt leaves behind
  whatever cuts it short, where each of Celery's limits may cost a verdict, that the whitelists, the routing table and the
  converters agree, and the exit codes; for any documents, texts and limits.
  (Assumptions: `AttemptAssumption`, `FloorsAssumption`.)
- `SamplesAreFair`, `OutliersAreOutvoted`: for a PDF of any length, the sampled
  pages are evenly spread with both ends among them, and no single page decides
  whether it is a scan.
- `RatingIsMonotone`: a word lost to a bad encoding never raises the score, and
  next to nothing from a large source is rated low, for every text a tool may
  extract and the cleaner make of it.

- `CleanDerives`, `NoScaffoldLeft`, `CleanKeepsWords`: what cleaning does to *any*
  text, also one whose tags are not nested, as no regular expression asks for
  that. Its words and tags are the converter's, each used once at most and in
  their order, and only the marks of Markdown are new; no tag of a table, span,
  div, image, emphasis or line break is left; a text without drawings, one-cell
  tables and quoted passages keeps every word and gains no quotation. (No
  assumptions.)

- `TablesMoveByTransactions`: `Serving` implements `RowsSpec` too, so that the
  tables a tab looks at are those of `RowsConsistent`.
- `TabAgreesWithServer` and, from it, `ServingIsTyped`, `SeenStaysServable`,
  `FinalViewIsTrue`, `GoneIsGone`, `HistoryBooksBalance`, `PreviewIsTheSelected`,
  `ArchiveHoldsAll`: what a tab shows, however old, for any jobs, files, number
  of deliveries and page sizes. (Assumptions: `JobRowsAssumption`,
  `ServingAssumption`.)

**The inductive invariants.** `StatusMatchesTally` alone is not inductive: a
verdict on the last file recomputes the status from `total` and the two counts,
so `total` must be the number of files (`JobsAreSized`) and the rows of a job
must come and go together (`RowsTogether`); `CountsAgree` is the same statement
with the counters the code keeps, and `TallyIsVerdict` turns it into the
verdict. `IInv` adds the types and that a busy slot has a file. `RowsPointAtDisk`
needs more (`DiskInv`): a task that is about to record an output has it on disk
(`DocsOnDisk`), the clean-up loop only holds paths of files whose rows are gone
(`UnlinkIsLate`), and these stay gone because work exists only for jobs that
were created (`WorkIsKnown`) and a job is created once.

`RowLocks` does not implement `RowsSpec` when a message comes twice:
`start_file` takes no lock on a job that is no longer pending, so it may set a
file back to `processing` between the counts of another task and its commit, and
that commit then writes a status no serial order would. `TablesInv` survives
because a job with an unfinished file owes its status nothing. `LocksInv` says
what each task knows between two statements: it owns the job from its increment
to its commit (`OwnsJob`), its file from the flush on (`OwnsFile`), its file was
started (`StaysStarted`), and its two counts are those of the moment of the
commit *if* every file then has its verdict (`CountsHold`). The step that makes
this inductive is that a verdict is only ever written by the holder of the
job's lock, so no verdict appears between the counts; `Undisturbed` proves it
once for all steps of others, `StartMoves` and `SettleMoves` turn the two
commits into steps of `JobRows`.

`UInv` says, request by request, that what the handler holds is what is on disk
(`HoldsStaged`, with the file it is reading: `ReadsNext`), that a rejected one
holds nothing (`HoldsNothing`) and that the rows are what it held
(`JobIsStaged`). A step of one request leaves the part of `UInv` about another
alone (`OthersAreSpared`), so each action is looked at for its own request only.
That an accepted document is never empty follows from the tables of
`validation.py` (`ValidFits`): no listed extension admits `application/x-empty`,
and an empty file is no archive.

`MInv` says that `media`, once it is there, is entirely the folder of one document
(`MediaIsOneDocuments`), that a conversion has its images in its own folder until
it renames it (`BeforeRename`) and in one of the two afterwards (`AfterRename`).
It needs the last: a conversion that goes on without a rename knows that `media`
was there, and that is what makes `ServedUnlessBeaten` inductive. `media` changes
only while it is absent or empty, so the steps of others disturb nothing
(`OthersRely`).

`AttemptInv` says of each stage what can be on disk and which tool can be
running there: a searchable copy only while the OCR converter is between the
start of ocrmypdf and its `finally`, an output only once pandoc runs or the text
is written. Limits and unnamed exceptions strike anywhere, so `Leftovers` is only
inductive with what holds at every stage before the end, and `LimitsAreRecorded`
only with the time by which each stage is reached (`InTime`).

Sampling needs no state: the places sampled are `i * (n - 1) / 7` rounded, and
rounding to an integer moves a multiple of a seventh by three sevenths at most,
so two gaps differ by one at most and the samples are distinct from eight pages
on. A majority of the sample outvotes any one page because a sample of a document
of more than two pages has at least three.

`OnceInv`: while messages come once, a file is carried in one place at most, by
the dispatch loop, a message or a task (`CarriedOnce`), a decided file by none
(`DecidedIsLeftAlone`), and a task that has loaded its file has started it
(`TakenIsStarted`). So `start_file` never meets a decided file, and a verdict is
only given once: that is what `ProcessedIsExact` lacks to be inductive, and the
refinement of `JobContract` follows from it.

`RecoverInv`: an undecided file is carried (`UndecidedIsCarried`), and the retries
a message has spent are paid for by the faults so far (`RetriesArePaidFor`).
The second part excludes that the attempt that meets a dropped connection is
the last.

`DebtInv` is a count. An output that is left behind is a debt, but so must be
everything that can still leave one behind: a message, the dispatch loop, a task
at work. A file that has no output owes one carrier nothing, for what it records
displaces nothing; it owes a mark (`Closed`) once it has an output or no carrier.
So every file owes at least one debt that is no output left behind, and with at
most `faults + Cardinality(File)` debts at most `faults` outputs are. A step is
looked at as a map from the old debts to the new ones: without a fault all new
debts are images of old ones (`ImageIsSmaller`), with one all but one.

`OneTaskInv`: until its own commit, a task's file has no verdict (`Undecided`) and
is as the task has seen it (`SeenIsStored`), and its counts are exact
(`CountsAreExact`), because whoever commits a verdict holds the lock of the job.
`SeenEndIsTrue` carries a terminal status from the first SELECT of a GET to the
second.

`SvInv` relates a tab to a server that moves under it. `OneWay` says how far the
server may move: jobs come once and go once, what can be had of a job stays so, a
terminal job changes only when a file of it is delivered again. What a read is
still good for after such moves is `StillGood`, and every read that is shown or
on its way is (`QueryInv`). For the history, `Books` keeps an
account of the places read so far: jobs shown twice, or shown and since pushed
beyond those places, are at most those created since the first page, and jobs
missed at most those that went. That the archive's entry names differ is an
induction over the entries, written as a least counterexample (`LeastNumber`)
because the library's induction theorems take an operator as a parameter:
`NamedApart` is its step, for one candidate more than there are names is free.

The inductive invariants `DiskInv`, `OnceInv`, `RecoverInv`, `DebtInv`, `LocksInv`,
`OneTaskInv`, `MInv`, `AttemptInv` and `SvInv` were checked by TLC on the instances
of section 3, or smaller ones, before they were proved. The runs name what
follows from them, and `IInv` and `UInv`, whose parts say the most.

The cleaner needs no state but recursion: `Scan`, `FlattenSeq` and the rounds of
`StripSpans` are recursive functions. What holds of them for every text is an
induction, which is again written as a least counterexample, over the place of
the scan (`ScanFromRight`, `ScanRelates`) or the number of parts (`FlattenRelates`).
They are stated for a relation that goes over from parts to the whole
(`Congruence`): `Derived(u, t)`, there is a map from the places of `u` to places of
`t` that rises and keeps every token but the marks, is one, and so is having the
same words. A pass then only has to be looked at for one match and for one token
outside the matches, and the ten passes compose because `Derived` is transitive
(`DerivedTwice`, `StepsDerive`). That a tag does not come back once a pass has
taken it is `DerivedTokens`.

**Only model-checked.** Liveness (`EverySettles`, `EveryoneEnds`,
`EveryRequestIsAnswered`, `EveryAttemptEnds`, `PollingCatchesUp`) and everything that
needs ENABLED is out of the prover's reach. `WordsSurvive` and `QuotesStayQuoted`
say which words survive the drawings, call-outs and quoted passages of a text
whose tags are nested, that no tag at all is left of it, and that every surviving
line of a call-out or quoted passage begins with the mark of a quotation while no
other text does. They relate two
recursions over different structures, the matches of ten regular expressions and
the nesting of the tags, and would need an induction over the tree of the tags;
`CleanDerives` and `CleanKeepsWords` are the part of them that does not depend on
the nesting.

## 5. Where the code disagrees with its documentation

- `finding_unrecorded`: `tasks/conversion.py:10` says "On any failure, mark the
  job `failed`". Only five error types are handled (l.214): any other leaves the
  file in `processing` for ever. And the failure recorded for a path outside
  `DATA_DIR` (l.169-176) is rolled back by the `raise` inside the session scope.
- `finding_delete`: `tests/routes/test_jobs.py:242` says DELETE wipes the
  artefacts; the output of a task that is running at the time stays.

- `finding_media`: `converters/base.py:110` says the folder is renamed "so the
  rewritten image references resolve"; in a job of several documents with images
  only the first gets them. `Media` also shows the race behind the `OSError` of
  `rename` (a run that ends `blown`), which is an instance of
  `finding_unrecorded`.
- `finding_limits`: `converters/base.py:36` says that a conversion that takes too
  long "fails fast with a clear error instead of hanging until Celery's blunt
  soft time limit fires". Both limits are 300 s, and Celery's is counted from an
  earlier moment.

Four things the models show and no document speaks of: the limit of pymupdf is
stored and never used, so only the hard limit ends a call into it, and the
verdict is lost with it, as it is when the soft limit strikes outside
`converter.convert` (the exceptions of `LimitsAreRecorded`); `--timeout` of
the command line is never used (the exception of `EveryAttemptEnds`); the page
of a job that is deleted elsewhere while it is shown as active polls for ever
(the exception of `PollingCatchesUp`); and the history is not asked again after
a deletion, so it goes on showing a job that its own dialog deleted.

## 6. Not modelled, and why

- The contents of documents and what a tool makes of them; the pixel area and the
  character count of a page; the text of messages and warnings; layout.
- The `rmdir` of a job's output directory that DELETE has emptied
  (`routes/jobs.py:279-287`). A task makes the directory anew when it starts; one
  that has made it and not yet written to it fails for want of it. Its job is
  gone by then, so it could only have left an output behind, and a
  failure that leaves none is among what `Conversion` allows it.
- Of the cleaner: white space, and with it the line breaks at which a quotation
  ends, `<code>` tags and Markdown links into chapters
  (rewritten one by one, like emphasis and anchors), and a `div` nested in a
  quoted `div`, whose first `</div>` ends the quotation: `WellFormed` leaves it
  out, and what survives there depends on the publisher's markup.
- What a killed tool has started itself (weasyprint under pandoc); the command
  line joining the left-over thread of markitdown when it exits.
- How a path is resolved (`security/storage.py`): symbolic links and `..` are the
  file system's. Its two outcomes are in `Conversion` (`Escaping`) and `Serving`
  (`Tampered`).
- Of the client: the upload panel and other components without requests of their
  own to come back late, navigation within a tab and the query cache it keeps,
  `staleTime` of a file's text. Each hook has a tab of its own in `Serving`.
- Migrations, configuration, health and the app factory: declarations, and
  values that are constants here. The async engine is only used by the health
  check.

## 7. Plan

Every module of the first plan is there; what it called `TimeLimits` and
`FormatRouting` became `Attempt` and `Routing`, and what it called `Downloads`,
`JobPolling`, `HistoryPaging` and `FileBlob` became `Serving`, because they see
the same tables. Every safety property of the passing runs is a theorem but the
two on the cleaner; `Conversion`, `RowLocks` (with one task per file) and `Serving`
are all shown to move by transactions of `JobRows`, and the first two to keep
`JobContract`. What is left:

1. `WordsSurvive` and `QuotesStayQuoted` for every text, by induction over the
   tree of its tags, with `ScanRelates` for the tags that are no ancestors.
2. The two hazards without a property (`PROJECT.json`): what DELETE leaves of the
   media folder, and what a process that dies while it stages leaves behind; the
   repository says nothing of either.
3. Shorter proofs: `DebtInv` and `SvInv` have one lemma per action, several of
   which say the same of different actions.
