------------------------------ MODULE RowLocks ------------------------------
(***************************************************************************)
(* The transactions of JobRows, statement by statement, as PostgreSQL runs *)
(* them at its default isolation level READ COMMITTED: a statement sees    *)
(* the rows committed before it and those its own transaction wrote; an    *)
(* UPDATE or DELETE takes the row's lock and keeps it until the end.       *)
(*                                                                         *)
(* A task of convert_file runs two of them, with the conversion between:   *)
(*   start:   SELECT file; UPDATE jobs ... WHERE pending; flush, COMMIT    *)
(*   settle:  SELECT file; UPDATE jobs processed + 1; flush; SELECT        *)
(*            count(done); SELECT count(failed); UPDATE jobs, COMMIT       *)
(* and DELETE /jobs/{id} one: SELECT job, files; DELETE files, one by one; *)
(* DELETE job, COMMIT.  GET /jobs/{id} reads the job and then its files.   *)
(*                                                                         *)
(* jobs and files are the committed rows.  Messages may come twice, so a   *)
(* file may have several tasks, and they run at the same time.             *)
(***************************************************************************)
EXTENDS JobRows

CONSTANTS
  Run, FileOf,     \* executions of the task (one per delivery), their files
  MaxRetries,      \* MAX_RETRIES
  Watched,         \* jobs whose page a client has open
  Api,             \* the session of the API process
  Nobody           \* the holder of a free lock

ASSUME RowLocksAssumption ==
  /\ FileOf \in [Run -> File]
  /\ MaxRetries \in Nat
  /\ Watched \subseteq Job
  /\ Api \notin Run
  /\ Nobody \notin Run \cup {Api}
  /\ Job \cap File = {}

VARIABLES
  lock,      \* per row, the session whose transaction holds its lock
  tx,        \* per run: the statement it is at and what it has read and written
  tries,     \* per run: retries so far
  del,       \* the DELETE request under way
  view       \* the GET request under way, or its last response

lvars == <<jobs, files, created, lock, tx, tries, del, view>>

Session == Run \cup {Api}
Row     == Job \cup File
JobFor(r) == JobOf[FileOf[r]]

(***************************************************************************)
(* The statement a run is about to execute.  "work" is between the two     *)
(* transactions, "queued" before the first, "over" after the second (or    *)
(* after an error that is not retried).                                    *)
(*                                                                         *)
(* seen: the file row as the session loaded it; SQLAlchemy writes only the *)
(* columns that differ from it.  job, file: the row versions the           *)
(* transaction has written, if it holds their locks.  done, failed: the    *)
(* results of the two counts.                                              *)
(***************************************************************************)
Statement == {"queued", "push", "start", "work", "bump", "flush", "count",
              "recount", "settle", "over"}
Tx == [pc : Statement, seen : FileRow, verdict : FinalFile, job : JobRow,
       file : FileRow, done : Nat, failed : Nat]
Fresh(pc) == [pc |-> pc, seen |-> NoFileRow, verdict |-> "done",
              job |-> NoJobRow, file |-> NoFileRow, done |-> 0, failed |-> 0]

\* DELETE: the job and the files still to delete.
Deletion == [pc : {"idle", "rows"}, job : Job, todo : SUBSET File]
\* GET: the job, the status it has read and, after the second SELECT, the
\* statuses of the files found.
View == [pc : {"idle", "files", "sent"}, job : Job,
         status : JobStatus \cup {"absent"},
         files : [File -> FileStatus \cup {"absent"}]]

NoFiles == [f \in File |-> "absent"]

LInit ==
  /\ RowsInit
  /\ lock = [x \in Row |-> Nobody]
  /\ tx = [r \in Run |-> Fresh("queued")]
  /\ tries = [r \in Run |-> 0]
  /\ del \in [pc : {"idle"}, job : Job, todo : {{}}]
  /\ view \in [pc : {"idle"}, job : Job, status : {"absent"}, files : {NoFiles}]

Free(x, s)  == lock[x] \in {Nobody, s}
Holds(s, x) == lock[x] = s

\* COMMIT and ROLLBACK both end the transaction of s and free its locks.
Released(s) == [x \in Row |-> IF lock[x] = s THEN Nobody ELSE lock[x]]

\* Mutated form: the connection goes back to the pool inside its transaction.
RolledBackLeaky(s) == lock

\* session.rollback() in sync_session_scope.
RolledBack(s) == Released(s)

At(r, pc) == tx[r].pc = pc
Becomes(r, t) == tx' = [tx EXCEPT ![r] = t]

\* An exception that is not retried: the session scope rolls back.
Gives(r) == /\ Becomes(r, Fresh("over"))
            /\ lock' = RolledBack(r)
            /\ UNCHANGED <<jobs, files, created, tries, del, view>>

(***************************************************************************)
(* The first transaction of the task                                       *)
(***************************************************************************)

\* session.get(FileRow); LookupError if there is none.
StartGet(r) ==
  /\ At(r, "queued") /\ JobFor(r) \in created
  /\ \/ ~FileExists(FileOf[r]) /\ Gives(r)
     \/ /\ FileExists(FileOf[r])
        /\ Becomes(r, [tx[r] EXCEPT !.pc = "push", !.seen = files[FileOf[r]]])
        /\ UNCHANGED <<jobs, files, created, lock, tries, del, view>>

\* What the two UPDATEs of a task write to the job row.
Moved(row)  == [row EXCEPT !.status = "processing"]
Bumped(row) == [row EXCEPT !.processed = @ + 1]

\* UPDATE jobs SET status = 'processing' WHERE id = j AND status = 'pending':
\* no lock if no such row is visible; a wait, and a second look, if another
\* transaction holds it.
StartPush(r) ==
  LET j == JobFor(r) IN
  /\ At(r, "push")
  /\ \/ /\ jobs[j].status # "pending"
        /\ Becomes(r, [tx[r] EXCEPT !.pc = "start"]) /\ UNCHANGED lock
     \/ /\ jobs[j].status = "pending" /\ Free(j, r)
        /\ lock' = [lock EXCEPT ![j] = r]
        /\ Becomes(r, [tx[r] EXCEPT !.pc = "start", !.job = Moved(jobs[j])])
  /\ UNCHANGED <<jobs, files, created, tries, del, view>>

\* The flush of COMMIT writes the file's status, if it differs from the one
\* loaded (StaleDataError if the row is gone), and the transaction commits.
StartCommit(r) ==
  LET f == FileOf[r]
      j == JobFor(r)
      writes == tx[r].seen.status # "processing"
  IN
  /\ At(r, "start")
  /\ \/ /\ writes /\ Free(f, r) /\ ~FileExists(f)
        /\ Gives(r)
     \/ /\ writes => Free(f, r) /\ FileExists(f)
        /\ files' = IF writes THEN [files EXCEPT ![f].status = "processing"]
                              ELSE files
        /\ jobs' = IF Holds(r, j) THEN [jobs EXCEPT ![j] = tx[r].job] ELSE jobs
        /\ lock' = Released(r)
        /\ Becomes(r, Fresh("work"))
        /\ UNCHANGED <<created, tries, del, view>>

(***************************************************************************)
(* The second: complete_file or fail_file, then recompute_job_status       *)
(***************************************************************************)

\* session.get(FileRow), after a conversion with verdict v.
SettleGet(r) ==
  /\ At(r, "work")
  /\ \/ ~FileExists(FileOf[r]) /\ Gives(r)
     \/ /\ FileExists(FileOf[r])
        /\ \E v \in FinalFile :
             Becomes(r, [tx[r] EXCEPT !.pc = "bump", !.verdict = v,
                                      !.seen = files[FileOf[r]]])
        /\ UNCHANGED <<jobs, files, created, lock, tries, del, view>>

\* Mutated form: job.processed_files += 1 on the loaded row, written by the
\* flush of the commit.
SettleBumpInPython(r) ==
  LET j == JobFor(r) IN
  /\ At(r, "bump")
  /\ \/ ~JobExists(j) /\ Gives(r)
     \/ /\ JobExists(j)
        /\ Becomes(r, [tx[r] EXCEPT !.pc = "flush", !.job = Bumped(jobs[j])])
        /\ lock' = [lock EXCEPT ![j] = r]
        /\ UNCHANGED <<jobs, files, created, tries, del, view>>

\* UPDATE jobs SET processed_files = processed_files + 1, then the SELECT of
\* recompute_job_status: LookupError if the job is gone.
SettleBump(r) ==
  LET j == JobFor(r) IN
  /\ At(r, "bump") /\ Free(j, r)
  /\ \/ ~JobExists(j) /\ Gives(r)
     \/ /\ JobExists(j)
        /\ lock' = [lock EXCEPT ![j] = r]
        /\ Becomes(r, [tx[r] EXCEPT !.pc = "flush", !.job = Bumped(jobs[j])])
        /\ UNCHANGED <<jobs, files, created, tries, del, view>>

\* What the flush writes: the columns that differ from the loaded row.  The
\* output has a new name; an error message that repeats itself word for word
\* is not written, which changes nothing here.
Flushed(r, row) ==
  LET v == tx[r].verdict
      s == IF tx[r].seen.status # v THEN v ELSE row.status
  IN  IF v = "done"
      THEN [row EXCEPT !.status = s, !.output = tx[r].seen.output + 1]
      ELSE [row EXCEPT !.status = s, !.error = TRUE]

\* session.flush(): UPDATE files ... WHERE id = f.
SettleFlush(r) ==
  LET f == FileOf[r] IN
  /\ At(r, "flush") /\ Free(f, r)
  /\ \/ ~FileExists(f) /\ Gives(r)
     \/ /\ FileExists(f)
        /\ lock' = [lock EXCEPT ![f] = r]
        /\ Becomes(r, [tx[r] EXCEPT !.pc = "count",
                                    !.file = Flushed(r, files[f])])
        /\ UNCHANGED <<jobs, files, created, tries, del, view>>

\* Mutated form: the count does not see what this transaction has written.
VisibleCommitted(r) == files

\* The file rows a statement of r sees: committed, or its own.
Visible(r) == IF Holds(r, FileOf[r])
              THEN [files EXCEPT ![FileOf[r]] = tx[r].file] ELSE files

\* The two SELECT count(*): two statements, two snapshots.
SettleCount(r) ==
  /\ At(r, "count")
  /\ Becomes(r, [tx[r] EXCEPT !.pc = "recount",
                              !.done = Counted(Visible(r), JobFor(r), "done")])
  /\ UNCHANGED <<jobs, files, created, lock, tries, del, view>>

SettleRecount(r) ==
  /\ At(r, "recount")
  /\ Becomes(r, [tx[r] EXCEPT !.pc = "settle",
                              !.failed = Counted(Visible(r), JobFor(r), "failed")])
  /\ UNCHANGED <<jobs, files, created, lock, tries, del, view>>

\* UPDATE jobs with the status of the two counts, and COMMIT.
SettleCommit(r) ==
  /\ At(r, "settle")
  /\ files' = [files EXCEPT ![FileOf[r]] = tx[r].file]
  /\ jobs' = [jobs EXCEPT ![JobFor(r)] =
                Stamped(tx[r].job, tx[r].done, tx[r].failed)]
  /\ lock' = Released(r)
  /\ Becomes(r, Fresh("over"))
  /\ UNCHANGED <<created, tries, del, view>>

(***************************************************************************)
(* The API process: one request at a time reaches the tables               *)
(***************************************************************************)

\* create_job: inserts only, which nobody sees or waits for before the commit.
Create(j) ==
  /\ InsertJob(j)
  /\ UNCHANGED <<lock, tx, tries, del, view>>

\* delete_job loads the job and its files.
DeleteGet(j) ==
  /\ del.pc = "idle" /\ JobExists(j)
  /\ del' = [pc |-> "rows", job |-> j, todo |-> FilesOf(j)]
  /\ UNCHANGED <<jobs, files, created, lock, tx, tries, view>>

\* The flush of the commit deletes the files, in some order, ...
DeleteRow(f) ==
  /\ del.pc = "rows" /\ f \in del.todo /\ Free(f, Api)
  /\ lock' = [lock EXCEPT ![f] = Api]
  /\ del' = [del EXCEPT !.todo = @ \ {f}]
  /\ UNCHANGED <<jobs, files, created, tx, tries, view>>

\* ... then the job, and commits.
DeleteCommit ==
  /\ del.pc = "rows" /\ del.todo = {} /\ Free(del.job, Api)
  /\ RemoveJob(del.job)
  /\ lock' = Released(Api)
  /\ del' = [del EXCEPT !.pc = "idle"]
  /\ UNCHANGED <<tx, tries, view>>

\* GET /jobs/{id}: SELECT the job, then (job.files, loaded lazily) its files.
ReadJob(j) ==
  /\ view.pc # "files" /\ j \in Watched /\ JobExists(j)
  /\ view' = [pc |-> "files", job |-> j, status |-> jobs[j].status,
              files |-> NoFiles]
  /\ UNCHANGED <<jobs, files, created, lock, tx, tries, del>>

ReadFiles ==
  /\ view.pc = "files"
  /\ view' = [view EXCEPT !.pc = "sent", !.files =
       [f \in File |-> IF f \in FilesOf(view.job) THEN files[f].status
                                                  ELSE "absent"]]
  /\ UNCHANGED <<jobs, files, created, lock, tx, tries, del>>

(***************************************************************************)
(* Aborted transactions: an OperationalError either way.  A task is        *)
(* retried from its start, at most MaxRetries times; DELETE answers 500.   *)
(***************************************************************************)

Aborts(r) ==
  /\ Becomes(r, Fresh(IF tries[r] < MaxRetries THEN "queued" ELSE "over"))
  /\ tries' = [tries EXCEPT ![r] = IF @ < MaxRetries THEN @ + 1 ELSE @]
  /\ lock' = RolledBack(r)
  /\ UNCHANGED <<jobs, files, created, del, view>>

AbortsDelete ==
  /\ del' = [del EXCEPT !.pc = "idle", !.todo = {}]
  /\ lock' = RolledBack(Api)
  /\ UNCHANGED <<jobs, files, created, tx, tries, view>>

\* The rows the next statement of a session locks.
Wants(r) ==
  LET f == FileOf[r]
      j == JobFor(r)
  IN  CASE At(r, "push")  -> {j} \cap {k \in Job : jobs[k].status = "pending"}
        [] At(r, "bump")  -> {j}
        [] At(r, "start") -> {f} \ {g \in {f} : tx[r].seen.status = "processing"}
        [] At(r, "flush") -> {f}
        [] OTHER -> {}
DeleteWants == IF del.pc = "idle" THEN {}
               ELSE IF del.todo = {} THEN {del.job} ELSE del.todo

\* PostgreSQL finds the cycle and aborts one of the two.  Tasks lock the job
\* before the file and never wait after that: a cycle is one task and DELETE.
Deadlocked(r) == /\ \E x \in Wants(r) : Holds(Api, x)
                 /\ \E x \in DeleteWants : Holds(r, x)
DeadlockVictim(r) == Deadlocked(r) /\ (Aborts(r) \/ AbortsDelete)

ConnectionLost == \/ \E r \in Run : ~At(r, "queued") /\ ~At(r, "over")
                                    /\ ~At(r, "work") /\ Aborts(r)
                  \/ del.pc = "rows" /\ AbortsDelete

RunStep(r) == \/ StartGet(r) \/ StartPush(r) \/ StartCommit(r)
              \/ SettleGet(r) \/ SettleBump(r) \/ SettleFlush(r)
              \/ SettleCount(r) \/ SettleRecount(r) \/ SettleCommit(r)
DeleteStep == (\E f \in File : DeleteRow(f)) \/ DeleteCommit

LNext ==
  \/ \E j \in Job : Create(j) \/ DeleteGet(j) \/ ReadJob(j)
  \/ \E r \in Run : RunStep(r) \/ DeadlockVictim(r)
  \/ DeleteStep
  \/ ReadFiles
  \/ ConnectionLost

LSpec == LInit /\ [][LNext]_lvars

\* A lock that is freed goes to a session that waits for it (strong fairness of
\* the runs: DELETE may be asked for again and again), a statement that does not
\* wait is executed, and a deadlock is found.
LFairness == /\ \A r \in Run : SF_lvars(RunStep(r)) /\ WF_lvars(DeadlockVictim(r))
             /\ WF_lvars(DeleteStep)

LFairSpec == LSpec /\ LFairness

(***************************************************************************)
(* Properties                                                              *)
(***************************************************************************)

LTypeOK ==
  /\ RowsTypeOK
  /\ created \subseteq Job
  /\ lock \in [Row -> Session \cup {Nobody}]
  /\ tx \in [Run -> Tx]
  /\ tries \in [Run -> 0..MaxRetries]
  /\ del \in Deletion
  /\ view \in View

\* As long as no message comes twice, READ COMMITTED is enough: every commit is
\* one of the transactions of JobRows on the rows as they are at that moment,
\* although it was put together from statements that saw others.
MovesAtCommit == RowsSpec

\* With several tasks on one file this is no longer so (start_file takes no lock
\* on a job that is not pending, and may set a file back to processing between
\* the count of another task and its commit), but the tables stay consistent.
TablesConsistent == TablesInv

\* The inductive invariant behind TablesConsistent.  A task that has bumped the
\* counter owns its job until it commits (so the row it writes back is the one
\* it read), one that has flushed owns its file; a start that moves the job owns
\* it while it is pending; and if every file of the job has its verdict when a
\* task commits, the two counts it took before are those of that moment.
InSettle(r) == tx[r].pc \in {"flush", "count", "recount", "settle"}
HasFlushed(r) == tx[r].pc \in {"count", "recount", "settle"}

KnownWork(r) == tx[r].pc # "queued" => JobFor(r) \in created
StaysStarted(r) ==
  FileExists(FileOf[r])
    /\ (\/ tx[r].pc \in {"push", "start"} /\ tx[r].seen.status # "pending"
        \/ tx[r].pc \in {"work", "bump"} \/ InSettle(r)) =>
       files[FileOf[r]].status # "pending"
OwnsJob(r) ==
  LET j == JobFor(r) IN
  /\ Holds(r, j) => JobExists(j) /\ (At(r, "start") \/ InSettle(r))
  /\ At(r, "start") =>
       IF Holds(r, j) THEN /\ jobs[j].status = "pending"
                           /\ tx[r].job = Moved(jobs[j])
                      ELSE jobs[j].status # "pending"
  /\ InSettle(r) => /\ Holds(r, j)
                    /\ tx[r].job = Bumped(jobs[j])
OwnsFile(r) ==
  LET f == FileOf[r] IN
  /\ Holds(r, f) <=> HasFlushed(r)
  /\ HasFlushed(r) => FileExists(f) /\ tx[r].file = Flushed(r, files[f])
CountsHold(r) ==
  LET j == JobFor(r) IN
  (\A g \in FilesOf(j) : Visible(r)[g].status \in FinalFile) =>
    /\ tx[r].pc \in {"recount", "settle"} =>
         tx[r].done = Counted(Visible(r), j, "done")
    /\ tx[r].pc = "settle" => tx[r].failed = Counted(Visible(r), j, "failed")
DeletesAJob == del.pc = "rows" => JobExists(del.job)

RunInv(r) == KnownWork(r) /\ StaysStarted(r) /\ OwnsJob(r) /\ OwnsFile(r)
             /\ CountsHold(r)
LocksInv == /\ LTypeOK
            /\ TablesInv
            /\ \A r \in Run : RunInv(r)
            /\ DeletesAJob

\* A response that shows a terminal status shows the verdict of every file,
\* or none when the rows went between its two SELECTs: the client stops
\* polling on it (use-job.ts).
TerminalViewIsFinal ==
  view.pc = "sent" /\ view.status \in TerminalJob =>
    \/ \A f \in FilesOf(view.job) : view.files[f] = "absent"
    \/ view.status = Verdict([f \in FilesOf(view.job) |-> view.files[f]])

\* The inductive invariant behind MovesAtCommit and TerminalViewIsFinal, while
\* there is one task per file.  Its file has no verdict before it commits one,
\* nobody else writes that row, and no other verdict on its job can commit after
\* it has counted; and what a reader has seen end is still so when it reads the
\* files, or was deleted.
OneTaskPerFile == \A r, s \in Run : FileOf[r] = FileOf[s] => r = s

Undecided(r) == ~At(r, "over") => files[FileOf[r]].status \notin FinalFile
SeenIsStored(r) ==
  tx[r].pc \notin {"queued", "work", "over"} /\ FileExists(FileOf[r]) =>
    tx[r].seen = files[FileOf[r]]
CountsAreExact(r) ==
  LET j == JobFor(r) IN
  /\ tx[r].pc \in {"recount", "settle"} =>
       tx[r].done = Counted(Visible(r), j, "done")
  /\ tx[r].pc = "settle" => tx[r].failed = Counted(Visible(r), j, "failed")
OnceRun(r) == Undecided(r) /\ SeenIsStored(r) /\ CountsAreExact(r)

SeenEndIsTrue ==
  view.pc = "files" /\ view.status \in TerminalJob =>
    \/ jobs[view.job].status = view.status
    \/ view.job \in created /\ ~JobExists(view.job)

OneTaskInv == /\ \A r \in Run : OnceRun(r)
              /\ UndecidedIsOpen /\ ExistingIsCreated /\ ProcessedIsExact
              /\ SeenEndIsTrue /\ TerminalViewIsFinal

\* Every task whose job was created ends, and every DELETE is answered: no
\* lock is kept by a transaction that is over and no deadlock stays.
EveryoneEnds ==
  /\ \A r \in Run : JobFor(r) \in created ~> At(r, "over")
  /\ del.pc = "rows" ~> del.pc = "idle"

=============================================================================
