----------------------------- MODULE Conversion -----------------------------
(***************************************************************************)
(* The life of a conversion job, from POST /jobs to DELETE /jobs/{id}, at  *)
(* the granularity of database transactions.                               *)
(*                                                                         *)
(* Three kinds of actors share the state:                                  *)
(*   - the API process (routes/jobs.py).  One uvicorn process; a handler   *)
(*     that has the event loop keeps it until it returns, so `api' holds   *)
(*     at most one handler, but the workers run between its steps;         *)
(*   - the Celery workers (tasks/conversion.py), one task each;            *)
(*   - the environment: lost connections, killed processes, time limits.   *)
(*                                                                         *)
(* A transaction (sync_session_scope) is one step: it commits or it leaves *)
(* the rows alone.                                                         *)
(***************************************************************************)
EXTENDS JobRows

CONSTANTS
  Escaping,        \* files whose stored path leaves DATA_DIR when resolved
  ExportJob,       \* jobs with target_format # markdown
  Worker,          \* task slots (worker processes x concurrency)
  MaxRetries,      \* MAX_RETRIES
  FaultKind,       \* the faults the environment may inject ...
  MaxFaults,       \* ... and how many of them in one behaviour (a bound)
  None             \* no file

\* Every fault the model knows.
AllFaults == {"db", "ambiguous", "crash", "orphan", "redeliver", "timelimit",
              "unhandled", "partial", "publish", "evict", "api", "unlink"}

ASSUME ConversionAssumption ==
  /\ Escaping \subseteq File
  /\ ExportJob \subseteq Job
  /\ MaxRetries \in Nat
  /\ MaxFaults \in Nat
  /\ FaultKind \subseteq AllFaults
  /\ None \notin File

VARIABLES
  queue,     \* Celery queue: how many copies of each message wait in it
  workers,   \* per task slot: the message it executes and where it is
  disk,      \* <<f, 0>>: staged input of f; <<f, n>>: output of its n-th run
  runs,      \* output names drawn so far for f (uuid4().hex: always fresh)
  api,       \* the handler that has the event loop
  faults     \* faults injected so far

vars == <<jobs, files, created, queue, workers, disk, runs, api, faults>>

\* A message of the queue: convert_file(file_id), request.retries.
Message == [file : File, retries : 0..MaxRetries]

(***************************************************************************)
(* Where a task slot is.  "load", "fail" and "complete" are before the     *)
(* three transactions of convert_file_task, "validate" and "convert"       *)
(* between them; "retry" publishes the retry, "ack" returns to Celery.     *)
(* held: the broker still counts the message as unacknowledged and owned   *)
(* by this slot.  doc: the output the slot has produced and not recorded.  *)
(***************************************************************************)
Step == {"idle", "load", "validate", "convert", "fail", "complete",
         "retry", "ack"}
Slot == [pc : Step, file : File \cup {None}, retries : 0..MaxRetries,
         held : BOOLEAN, doc : Nat]
IdleSlot == [pc |-> "idle", file |-> None, retries |-> 0, held |-> FALSE,
             doc |-> 0]

(***************************************************************************)
(* The handler in the event loop: dispatching the tasks of a new job (the  *)
(* files still to dispatch), or unlinking the artefacts of a deleted one   *)
(* (the paths still to unlink).  The loop is free when both are empty.     *)
(***************************************************************************)
Handler == [dispatch : SUBSET File, unlink : SUBSET (File \X Nat)]
NoHandler == [dispatch |-> {}, unlink |-> {}]
ApiFree == api = NoHandler

Init ==
  /\ RowsInit
  /\ queue = [m \in Message |-> 0]
  /\ workers = [w \in Worker |-> IdleSlot]
  /\ disk = {}
  /\ runs = [f \in File |-> 0]
  /\ api = NoHandler
  /\ faults = 0

\* The environment injects a fault of kind k.
Fault(k) == /\ k \in FaultKind
            /\ faults < MaxFaults
            /\ faults' = faults + 1

(***************************************************************************)
(* The API process                                                         *)
(***************************************************************************)

\* POST /jobs: the uploads are staged and valid, the insert commits.
CreateJob(j) ==
  /\ ApiFree
  /\ InsertJob(j)
  /\ disk' = disk \cup (FilesOf(j) \X {0})
  /\ api' = [api EXCEPT !.dispatch = FilesOf(j)]
  /\ UNCHANGED <<queue, workers, runs, faults>>

\* One round of the dispatch loop: convert_file_task.delay(file_id).
Dispatch(f) ==
  /\ f \in api.dispatch
  /\ queue' = [queue EXCEPT ![[file |-> f, retries |-> 0]] = @ + 1]
  /\ api' = [api EXCEPT !.dispatch = @ \ {f}]
  /\ UNCHANGED <<jobs, files, created, workers, disk, runs, faults>>

\* Mutated form: the clean-up starts before the rows are gone.
DeleteJobUnlinksFirst(j) ==
  /\ ApiFree
  /\ JobExists(j)
  /\ api' = [api EXCEPT !.unlink = FilesOf(j) \X {0}]
  /\ UNCHANGED <<jobs, files, created, queue, workers, disk, runs, faults>>

\* DELETE /jobs/{id}: the delete commits; the paths were read in the same
\* transaction.  A path that leaves DATA_DIR is skipped by the loop below.
DeleteJob(j) ==
  /\ ApiFree
  /\ RemoveJob(j)
  /\ api' = [api EXCEPT !.unlink =
               {p \in FilesOf(j) \X {0} : p[1] \notin Escaping}
               \cup {<<f, files[f].output>> :
                      f \in {g \in FilesOf(j) : files[g].output # 0}}]
  /\ UNCHANGED <<queue, workers, disk, runs, faults>>

\* One round of the clean-up loop; an OSError is logged and the file stays.
\* (The rmdir of the emptied directory is left out: no row names a directory,
\* the task and every converter make it anew, and one removed under a running
\* conversion fails the conversion of a job that is gone anyway.)
Unlink(p) ==
  /\ p \in api.unlink
  /\ api' = [api EXCEPT !.unlink = @ \ {p}]
  /\ \/ disk' = disk \ {p} /\ UNCHANGED faults
     \/ Fault("unlink") /\ UNCHANGED disk
  /\ UNCHANGED <<jobs, files, created, queue, workers, runs>>

\* The handler dies half-way: the broker refuses a publish (the request ends
\* with a 500) or the API process is killed.
HandlerDies ==
  /\ ~ApiFree
  /\ Fault("api")
  /\ api' = NoHandler
  /\ UNCHANGED <<jobs, files, created, queue, workers, disk, runs>>

(***************************************************************************)
(* convert_file_task                                                       *)
(***************************************************************************)

GoTo(w, step) == workers' = [workers EXCEPT ![w].pc = step, ![w].doc = 0]

\* Mutated form: one retry too few.
AfterRetryableShort(w) ==
  IF workers[w].retries + 1 < MaxRetries THEN "retry" ELSE "ack"

\* autoretry_for = RETRYABLE_ERRORS: after an error of the database connection
\* or a builtin one the task is published again, at most MaxRetries times.
AfterRetryable(w) ==
  IF workers[w].retries < MaxRetries THEN "retry" ELSE "ack"

\* The commit went through; the worker may still lose the reply and see an
\* OperationalError.
Committed(w, step) ==
  \/ GoTo(w, step) /\ UNCHANGED faults
  \/ Fault("ambiguous") /\ GoTo(w, AfterRetryable(w))

\* A message reaches a free slot.
Receive(w) ==
  /\ workers[w].pc = "idle"
  /\ \E m \in Message :
       /\ queue[m] > 0
       /\ queue' = [queue EXCEPT ![m] = @ - 1]
       /\ workers' = [workers EXCEPT ![w] =
            [pc |-> "load", file |-> m.file, retries |-> m.retries,
             held |-> TRUE, doc |-> 0]]
  /\ UNCHANGED <<jobs, files, created, disk, runs, api, faults>>

\* First transaction.  A missing row raises LookupError.  A path that leaves
\* DATA_DIR is recorded by fail_file, and the `raise' that follows leaves the
\* session scope, which rolls that record back.
Load(w) ==
  LET f == workers[w].file IN
  /\ workers[w].pc = "load"
  /\ \/ /\ ~FileExists(f) \/ f \in Escaping
        /\ GoTo(w, "ack")
        /\ UNCHANGED <<jobs, files, faults>>
     \/ /\ FileExists(f) /\ f \notin Escaping
        /\ StartFile(f)
        /\ Committed(w, "validate")
  /\ UNCHANGED <<created, queue, disk, runs, api>>

\* validate_upload / validate_markdown_input: reads the staged input.
Validate(w) ==
  /\ workers[w].pc = "validate"
  /\ GoTo(w, IF <<workers[w].file, 0>> \in disk THEN "convert" ELSE "fail")
  /\ UNCHANGED <<jobs, files, created, queue, disk, runs, api, faults>>

\* The converter writes its output under a name nobody used before.
WriteOutput(f) ==
  /\ runs' = [runs EXCEPT ![f] = @ + 1]
  /\ disk' = disk \cup {<<f, runs[f] + 1>>}

ConvertOk(w) ==
  LET f == workers[w].file IN
  /\ workers[w].pc = "convert"
  /\ WriteOutput(f)
  /\ workers' = [workers EXCEPT ![w].pc = "complete", ![w].doc = runs[f] + 1]
  /\ UNCHANGED <<jobs, files, created, queue, api, faults>>

\* Mutated form: an export that fails leaves its partial output.
ConvertFailsUntidy(w) ==
  LET f == workers[w].file IN
  /\ workers[w].pc = "convert"
  /\ GoTo(w, "fail")
  /\ WriteOutput(f)
  /\ UNCHANGED <<jobs, files, created, queue, api, faults>>

\* One of the five error types the task handles, the soft time limit inside
\* convert() among them.  An importer may leave what it wrote; the export
\* converters unlink it, unless the soft limit takes them by surprise.
ConvertFails(w) ==
  LET f == workers[w].file IN
  /\ workers[w].pc = "convert"
  /\ GoTo(w, "fail")
  /\ \/ UNCHANGED <<disk, runs, faults>>
     \/ /\ Fault("timelimit") \/ (JobOf[f] \notin ExportJob /\ Fault("partial"))
        /\ WriteOutput(f)
  /\ UNCHANGED <<jobs, files, created, queue, api>>

\* Any other exception (OSError, RuntimeError, ...) between the transactions:
\* no except clause of the task matches, Celery marks the task failed and
\* acknowledges the message, or retries it if it was a ConnectionError or a
\* TimeoutError.  An output already written stays.
ConvertBlowsUp(w) ==
  /\ workers[w].pc \in {"validate", "convert", "complete"}
  /\ Fault("unhandled")
  /\ GoTo(w, "ack") \/ GoTo(w, AfterRetryable(w))
  /\ UNCHANGED <<jobs, files, created, queue, disk, runs, api>>

\* Second transaction, after a handled error.  LookupError if the row is gone.
RecordFailure(w) ==
  LET f == workers[w].file IN
  /\ workers[w].pc = "fail"
  /\ \/ ~FileExists(f) /\ GoTo(w, "ack") /\ UNCHANGED <<jobs, files, faults>>
     \/ FileExists(f) /\ FailFile(f) /\ Committed(w, "ack")
  /\ UNCHANGED <<created, queue, disk, runs, api>>

\* Third transaction, after a conversion.  LookupError if the row is gone:
\* the output stays on disk.
RecordSuccess(w) ==
  LET f == workers[w].file IN
  /\ workers[w].pc = "complete"
  /\ \/ ~FileExists(f) /\ GoTo(w, "ack") /\ UNCHANGED <<jobs, files, faults>>
     \/ /\ FileExists(f)
        /\ CompleteFile(f, workers[w].doc)
        /\ Committed(w, "ack")
  /\ UNCHANGED <<created, queue, disk, runs, api>>

\* The connection drops before the commit: rolled back, OperationalError.
ConnectionLost(w) ==
  /\ workers[w].pc \in {"load", "fail", "complete"}
  /\ Fault("db")
  /\ GoTo(w, AfterRetryable(w))
  /\ UNCHANGED <<jobs, files, created, queue, disk, runs, api>>

\* Task.retry: publish a copy with retries + 1, then acknowledge this one.  A
\* publish that fails rejects the message without requeueing it.
PublishRetry(w) ==
  LET m == [file |-> workers[w].file, retries |-> workers[w].retries + 1] IN
  /\ workers[w].pc = "retry"
  /\ GoTo(w, "ack")
  /\ \/ queue' = [queue EXCEPT ![m] = @ + 1] /\ UNCHANGED faults
     \/ Fault("publish") /\ UNCHANGED queue
  /\ UNCHANGED <<jobs, files, created, disk, runs, api>>

\* acks_late: the message leaves the broker once the task has ended.
Ack(w) ==
  /\ workers[w].pc = "ack"
  /\ workers' = [workers EXCEPT ![w] = IdleSlot]
  /\ UNCHANGED <<jobs, files, created, queue, disk, runs, api, faults>>

(***************************************************************************)
(* Celery and Redis, as conversion.py and celery_app.py configure them     *)
(***************************************************************************)

\* Mutated form: the message was acknowledged when the slot took it.
RequeuedEarlyAck(w) == queue

\* The message of slot w goes back to the queue, if the slot still owns it.
Requeued(w) ==
  LET m == [file |-> workers[w].file, retries |-> workers[w].retries] IN
  IF workers[w].held THEN [queue EXCEPT ![m] = @ + 1] ELSE queue

\* task_reject_on_worker_lost: the worker process dies (SIGKILL, OOM), the
\* message is delivered again.  An orphan is a process that dies after its
\* message went to someone else: nothing comes back.
WorkerLost(w) ==
  /\ workers[w].pc # "idle"
  /\ Fault(IF workers[w].held THEN "crash" ELSE "orphan")
  /\ queue' = Requeued(w)
  /\ workers' = [workers EXCEPT ![w] = IdleSlot]
  /\ UNCHANGED <<jobs, files, created, disk, runs, api>>

\* The broker connection is lost: the broker delivers the unacknowledged
\* message again while the task keeps running.
BrokerLost(w) ==
  /\ workers[w].pc # "idle"
  /\ workers[w].held
  /\ Fault("redeliver")
  /\ queue' = Requeued(w)
  /\ workers' = [workers EXCEPT ![w].held = FALSE]
  /\ UNCHANGED <<jobs, files, created, disk, runs, api>>

\* The soft time limit outside convert(), or the hard one anywhere: the task
\* ends and its message is acknowledged (task_acks_on_failure_or_timeout).
TimeLimit(w) ==
  /\ workers[w].pc \in {"load", "validate", "convert", "fail", "complete"}
  /\ Fault("timelimit")
  /\ GoTo(w, "ack")
  /\ UNCHANGED <<jobs, files, created, queue, disk, runs, api>>

\* Redis drops a queued message (maxmemory-policy allkeys-lru).
Evict ==
  /\ \E m \in Message : queue[m] > 0 /\ queue' = [queue EXCEPT ![m] = @ - 1]
  /\ Fault("evict")
  /\ UNCHANGED <<jobs, files, created, workers, disk, runs, api>>

ApiStep  == \/ \E f \in File : Dispatch(f)
            \/ \E p \in api.unlink : Unlink(p)
TaskStep(w) == \/ Load(w) \/ Validate(w) \/ ConvertOk(w) \/ ConvertFails(w)
               \/ RecordFailure(w) \/ RecordSuccess(w) \/ PublishRetry(w)
               \/ Ack(w)
WorkerFault(w) == \/ ConvertBlowsUp(w) \/ ConnectionLost(w) \/ WorkerLost(w)
                  \/ BrokerLost(w) \/ TimeLimit(w)

Next ==
  \/ \E j \in Job : CreateJob(j) \/ DeleteJob(j)
  \/ ApiStep
  \/ \E w \in Worker : Receive(w) \/ TaskStep(w) \/ WorkerFault(w)
  \/ HandlerDies
  \/ Evict

Spec == Init /\ [][Next]_vars

(***************************************************************************)
(* Fairness: the API process finishes the handler it runs, a running task  *)
(* goes on, and a free slot takes a message while some wait.  Users        *)
(* (CreateJob, DeleteJob) and faults are owed nothing.                     *)
(***************************************************************************)
Fairness == /\ WF_vars(ApiStep)
            /\ \A w \in Worker : WF_vars(TaskStep(w)) /\ WF_vars(Receive(w))

FairSpec == Spec /\ Fairness

(***************************************************************************)
(* Properties                                                              *)
(***************************************************************************)

\* Every variable has its type.
TypeOK ==
  /\ RowsTypeOK
  /\ created \subseteq Job
  /\ queue \in [Message -> Nat]
  /\ workers \in [Worker -> Slot]
  /\ disk \subseteq File \X Nat
  /\ runs \in [File -> Nat]
  /\ api \in Handler
  /\ faults \in 0..MaxFaults

\* The inductive invariant: the types, what the tables keep (JobRows), and that
\* every busy slot has a file.
SlotsAreBusy ==
  \A w \in Worker : workers[w].pc # "idle" => workers[w].file \in File

IInv == TypeOK /\ TablesInv /\ SlotsAreBusy

\* Whatever a row points at can be served: output_path names a file that is on
\* disk, a done file has one, and a row that may still be converted (again)
\* has its staged input.  DELETE unlinks only after the rows are gone, and a
\* second run of a file writes under a fresh name.
RowsPointAtDisk ==
  \A f \in File : FileExists(f) =>
    /\ <<f, 0>> \in disk
    /\ files[f].output # 0 => <<f, files[f].output>> \in disk
    /\ files[f].status = "done" => files[f].output # 0

\* The inductive invariant behind RowsPointAtDisk: whoever works on a file works
\* for a job that was created (so its rows never come back once they are gone),
\* an output waiting to be recorded is on disk, and the clean-up loop is after
\* files whose rows are gone.
WorkIsKnown ==
  /\ \A m \in Message : queue[m] > 0 => JobOf[m.file] \in created
  /\ \A w \in Worker : workers[w].pc # "idle" =>
       JobOf[workers[w].file] \in created
  /\ \A f \in api.dispatch : JobOf[f] \in created
DocsOnDisk ==
  \A w \in Worker :
    workers[w].pc = "complete" /\ FileExists(workers[w].file) =>
      workers[w].doc # 0 /\ <<workers[w].file, workers[w].doc>> \in disk
UnlinkIsLate == \A p \in api.unlink : ~FileExists(p[1])
DiskInv == RowsPointAtDisk /\ WorkIsKnown /\ DocsOnDisk /\ UnlinkIsLate

\* The inductive invariant behind ProcessedIsExact, TerminalIsStable and
\* KeepsContract.  While no message is delivered twice, a file is carried in one
\* place at most: by the dispatch loop, by one message, or by one task that has
\* neither ended nor been published again.
MessagesComeOnce ==
  FaultKind \cap {"ambiguous", "crash", "orphan", "redeliver"} = {}

Waits(f, m) == m.file = f /\ queue[m] > 0
Works(f, w) == workers[w].file = f /\ workers[w].pc \notin {"idle", "ack"}
Carried(f)  == \/ f \in api.dispatch
               \/ \E m \in Message : Waits(f, m)
               \/ \E w \in Worker : Works(f, w)
CarriedOnce ==
  /\ \A m \in Message : queue[m] <= 1
  /\ \A f \in File :
       /\ \A m, n \in Message : Waits(f, m) /\ Waits(f, n) => m = n
       /\ \A w, x \in Worker : Works(f, w) /\ Works(f, x) => w = x
       /\ \A m \in Message, w \in Worker : ~(Waits(f, m) /\ Works(f, w))
       /\ f \in api.dispatch => /\ \A m \in Message : ~Waits(f, m)
                               /\ \A w \in Worker : ~Works(f, w)

\* A file with a verdict is carried no more, and one past start_file is no
\* longer pending.
DecidedIsLeftAlone ==
  \A f \in File : files[f].status \in FinalFile => ~Carried(f)
TakenIsStarted ==
  \A w \in Worker :
    workers[w].pc \in {"validate", "convert", "fail", "complete"} =>
      files[workers[w].file].status # "pending"

OnceInv == /\ CarriedOnce /\ DecidedIsLeftAlone /\ TakenIsStarted
           /\ UndecidedIsOpen /\ ExistingIsCreated /\ ProcessedIsExact

\* A message, a task or the dispatch loop still stands for f.
InFlight(f) ==
  \/ \E m \in Message : m.file = f /\ queue[m] > 0
  \/ \E w \in Worker : workers[w].file = f /\ workers[w].pc # "ack"
  \/ f \in api.dispatch

\* No file is forgotten: a file without a verdict has someone working for it.
\* Holds while no fault of the losing kinds happens and a message meets at
\* most MaxRetries dropped connections.
NoStrandedFile ==
  \A f \in File : files[f].status \in {"pending", "processing"} => InFlight(f)

\* The inductive invariant behind NoStrandedFile.  No fault of the losing kinds
\* happens, and there are retries for all of them: a message spends one per
\* dropped connection, so the last attempt is never the one that fails.
NothingIsLost ==
  /\ FaultKind \cap {"orphan", "timelimit", "unhandled", "publish", "evict",
                    "api"} = {}
  /\ Escaping = {}
  /\ MaxFaults <= MaxRetries

UndecidedIsCarried ==
  \A f \in File : files[f].status \in {"pending", "processing"} => Carried(f)
RetriesArePaidFor ==
  /\ \A m \in Message : queue[m] > 0 => m.retries <= faults
  /\ \A w \in Worker : workers[w].pc # "idle" =>
       /\ workers[w].retries <= faults
       /\ workers[w].pc = "retry" => workers[w].retries < faults
RecoverInv == UndecidedIsCarried /\ RetriesArePaidFor

\* Every output on disk of a job that exists is named by its row or about to
\* be, but for one per fault: a message delivered again, a lost reply or a task
\* that ends half-way each leave one file, at most, that DELETE will miss.
LeftBehind(p) ==
  /\ FileExists(p[1]) /\ p[2] \notin {0, files[p[1]].output}
  /\ \A w \in Worker : ~(workers[w].file = p[1] /\ workers[w].doc = p[2])

DiskAccountedFor == Cardinality({p \in disk : LeftBehind(p)}) <= faults

\* Once a reader has seen a job end, its status does not change any more (the
\* web client stops polling there, use-job.ts) until the job is deleted.
TerminalIsStable ==
  [][\A j \in Job : jobs[j].status \in TerminalJob =>
       jobs[j]'.status \in {jobs[j].status, "absent"}]_vars

\* Every job is decided in the end, and stays so, or is deleted: crashes,
\* redeliveries and dropped connections only delay the verdict.
EverySettles ==
  \A j \in Job : <>[](jobs[j].status \notin {"pending", "processing"})

\* conversion.py:10 "On any failure, mark the job failed with an error
\* message": when nobody works for the files of a job any more, one of them at
\* least has its verdict.
FailureIsRecorded ==
  \A j \in Job : JobExists(j) =>
    \E f \in FilesOf(j) : InFlight(f) \/ files[f].status \in FinalFile

\* test_jobs.py "DELETE wipes DB rows AND the on-disk artefacts": when the
\* handler has returned and no task of the job runs, nothing of it is left.
DeleteWipesDisk ==
  \A p \in disk :
    JobOf[p[1]] \in created /\ ~JobExists(JobOf[p[1]]) /\ ApiFree =>
      \E w \in Worker : workers[w].file = p[1]

=============================================================================
