------------------------------ MODULE JobRows ------------------------------
(***************************************************************************)
(* The tables jobs and files, and what the functions of services/jobs.py   *)
(* do to them, each inside one transaction that commits as a whole         *)
(* (sync_session_scope).  Conversion composes these transactions with the  *)
(* queue, the workers and the disk; RowLocks shows what the database does  *)
(* to keep them whole.                                                     *)
(***************************************************************************)
EXTENDS JobTally

CONSTANTS
  Job, File,       \* identities (UUIDs: never used twice)
  JobOf            \* files.job_id

ASSUME JobRowsAssumption ==
  /\ IsFiniteSet(File)
  /\ JobOf \in [File -> Job]

VARIABLES
  jobs,      \* table jobs
  files,     \* table files
  created    \* jobs whose insert has committed at some time

rows == <<jobs, files, created>>

FilesOf(j) == {f \in File : JobOf[f] = j}

\* A job row: completed is "completed_at is set", error "error_message is set".
JobRow  == [status : JobStatus \cup {"absent"}, total : Nat, processed : Nat,
            completed : BOOLEAN, error : BOOLEAN]
\* A file row: output is the run that output_path names, 0 for NULL.
FileRow == [status : FileStatus \cup {"absent"}, output : Nat,
            error : BOOLEAN]

NoJobRow  == [status |-> "absent", total |-> 0, processed |-> 0,
              completed |-> FALSE, error |-> FALSE]
NoFileRow == [status |-> "absent", output |-> 0, error |-> FALSE]
NewJobRow(j) == [NoJobRow EXCEPT !.status = "pending",
                                 !.total = Cardinality(FilesOf(j))]
NewFileRow   == [NoFileRow EXCEPT !.status = "pending"]

JobExists(j)  == jobs[j].status # "absent"
FileExists(f) == files[f].status # "absent"

\* No row yet.
RowsInit == /\ jobs = [j \in Job |-> NoJobRow]
            /\ files = [f \in File |-> NoFileRow]
            /\ created = {}

\* select count(*) from files where job_id = j and status = s
Counted(fs, j, s) == Cardinality({f \in FilesOf(j) : fs[f].status = s})

\* Mutated form: counting before the flush (the session has autoflush off).
RecomputedUnflushed(row, j, fs) ==
  [row EXCEPT !.status = ComputeJobStatus(row.total, Counted(files, j, "done"),
                                          Counted(files, j, "failed")),
              !.completed = TRUE, !.error = TRUE]

\* The job row after recompute_job_status has counted.
Stamped(row, succeeded, failed) ==
  LET status == ComputeJobStatus(row.total, succeeded, failed)
  IN  [row EXCEPT !.status    = status,
                  !.completed = @ \/ status \in TerminalJob,
                  !.error     = @ \/ (status \in TerminalJob /\ failed > 0)]

\* recompute_job_status on the (flushed) file rows fs.
Recomputed(row, j, fs) ==
  Stamped(row, Counted(fs, j, "done"), Counted(fs, j, "failed"))

\* Mutated forms: a verdict that is not counted, and one that is counted both
\* by the verdict and by the recomputation.
FileSettledUncounted(f, row) ==
  LET fs == [files EXCEPT ![f] = row]
  IN  /\ files' = fs
      /\ jobs' = [jobs EXCEPT ![JobOf[f]] = Recomputed(@, JobOf[f], fs)]
FileSettledTwice(f, row) ==
  LET fs == [files EXCEPT ![f] = row]
  IN  /\ files' = fs
      /\ jobs' = [jobs EXCEPT ![JobOf[f]] =
           Recomputed([@ EXCEPT !.processed = @ + 2], JobOf[f], fs)]

\* The common tail of complete_file and fail_file, then recompute_job_status.
FileSettled(f, row) ==
  LET j       == JobOf[f]
      fs      == [files EXCEPT ![f] = row]
      counted == [jobs[j] EXCEPT !.processed = @ + 1]
  IN  /\ files' = fs
      /\ jobs' = [jobs EXCEPT ![j] = Recomputed(counted, j, fs)]

CompleteFile(f, n) ==
  FileSettled(f, [files[f] EXCEPT !.status = "done", !.output = n])

FailFile(f) ==
  FileSettled(f, [files[f] EXCEPT !.status = "failed", !.error = TRUE])

StartFile(f) ==
  /\ files' = [files EXCEPT ![f].status = "processing"]
  /\ jobs' = [jobs EXCEPT ![JobOf[f]].status =
                IF @ = "pending" THEN "processing" ELSE @]

\* create_job: the row of the job and one for each of its files.
InsertJob(j) ==
  /\ j \notin created
  /\ FilesOf(j) # {}
  /\ created' = created \cup {j}
  /\ jobs' = [jobs EXCEPT ![j] = NewJobRow(j)]
  /\ files' = [f \in File |-> IF f \in FilesOf(j) THEN NewFileRow
                                                  ELSE files[f]]

\* Mutated form: the rows of the files survive the row of the job.
RemoveJobNoCascade(j) ==
  /\ JobExists(j)
  /\ jobs' = [jobs EXCEPT ![j] = NoJobRow]
  /\ UNCHANGED <<files, created>>

\* delete_job: the row of the job and, by the cascade, those of its files.
RemoveJob(j) ==
  /\ JobExists(j)
  /\ jobs' = [jobs EXCEPT ![j] = NoJobRow]
  /\ files' = [f \in File |-> IF f \in FilesOf(j) THEN NoFileRow
                                                  ELSE files[f]]
  /\ UNCHANGED created

(***************************************************************************)
(* The tables on their own: any of these transactions, in any order.       *)
(***************************************************************************)
RowsNext ==
  \/ \E j \in Job : InsertJob(j) \/ RemoveJob(j)
  \/ \E f \in File :
       /\ FileExists(f)
       /\ \/ StartFile(f)
          \/ FailFile(f)
          \/ files'[f].output \in Nat /\ CompleteFile(f, files'[f].output)
       /\ UNCHANGED created

RowsSpec == RowsInit /\ [][RowsNext]_rows

(***************************************************************************)
(* What the transactions keep                                              *)
(***************************************************************************)

AllFinal(j) == \A f \in FilesOf(j) : files[f].status \in FinalFile
FinalsOf(j) == {f \in FilesOf(j) : files[f].status \in FinalFile}

\* Whatever is redelivered, retried or killed: when the last file of a job has
\* its verdict, the status the job shows is the verdict on those very files.
\* recompute_job_status counts in the transaction of complete_file/fail_file,
\* and start_file of a message delivered twice does not go through it.
StatusMatchesTally ==
  \A j \in Job : JobExists(j) /\ AllFinal(j) =>
    jobs[j].status = Verdict([f \in FilesOf(j) |-> files[f].status])

\* A job is shown as pending exactly while no file of it has been started: no
\* order of starts, failures and retries brings it back, and no start is
\* missed (start_file updates the job only where it is still pending).
PendingIffUntouched ==
  \A j \in Job : JobExists(j) =>
    (jobs[j].status = "pending"
       <=> \A f \in FilesOf(j) : files[f].status = "pending")

\* A file row exists exactly while the row of its job does, a job counts its
\* own files and has some, and StatusMatchesTally is stated with the counters
\* the code keeps: with the two properties above, what the transactions need
\* of the rows they find.
RowsTogether ==
  \A f \in File : FileExists(f) <=> JobExists(JobOf[f])
JobsAreSized ==
  \A j \in Job : JobExists(j) =>
    FilesOf(j) # {} /\ jobs[j].total = Cardinality(FilesOf(j))
CountsAgree ==
  \A j \in Job : JobExists(j) /\ AllFinal(j) =>
    jobs[j].status = ComputeJobStatus(jobs[j].total,
                       Counted(files, j, "done"), Counted(files, j, "failed"))

\* A terminal job has its completed_at, and one that failed in part or in
\* whole says so in error_message (recompute_job_status).
TerminalIsStamped ==
  \A j \in Job : jobs[j].status \in TerminalJob =>
    /\ jobs[j].completed
    /\ jobs[j].status # "done" => jobs[j].error

\* processed_files never lags behind the verdicts a reader of the job can see.
CounterCoversFinals ==
  \A j \in Job : JobExists(j) =>
    jobs[j].processed >= Cardinality(FinalsOf(j))

\* Without redelivery the counter is exact: one verdict, one increment, over
\* any interleaving of the files' tasks and any rolled-back attempts.
ProcessedIsExact ==
  \A j \in Job : JobExists(j) =>
    jobs[j].processed = Cardinality(FinalsOf(j))

\* What ProcessedIsExact goes with while no file gets a second verdict: a job
\* with a file to decide is not shown as ended, and only a created job has rows.
UndecidedIsOpen ==
  \A j \in Job : JobExists(j) /\ ~AllFinal(j) =>
    jobs[j].status \in {"pending", "processing"}
ExistingIsCreated == \A j \in Job : JobExists(j) => j \in created

\* The tables have their types.
RowsTypeOK == /\ jobs \in [Job -> JobRow]
              /\ files \in [File -> FileRow]

\* Everything the transactions keep, whatever order they come in: ProcessedIsExact
\* alone depends on that order.
TablesInv == /\ RowsTypeOK
             /\ RowsTogether
             /\ JobsAreSized
             /\ CountsAgree
             /\ PendingIffUntouched
             /\ TerminalIsStamped
             /\ CounterCoversFinals

(***************************************************************************)
(* As long as no message is delivered twice, what a reader sees of these   *)
(* rows is the behaviour JobContract promises.                             *)
(***************************************************************************)
Contract == INSTANCE JobContract WITH
  status  <- [j \in Job |-> jobs[j].status],
  outcome <- [f \in File |-> IF files[f].status \in {"pending", "processing"}
                             THEN "waiting" ELSE files[f].status],
  opened  <- created

\* Every step is a step of the contract, or invisible to a reader.
KeepsContract == Contract!CSpec

=============================================================================
