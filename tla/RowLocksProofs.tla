--------------------------- MODULE RowLocksProofs ---------------------------
(***************************************************************************)
(* What row locks and READ COMMITTED guarantee, for any number of jobs,    *)
(* files and tasks, and any number of tasks on the same file: the tables   *)
(* stay consistent (TablesInv), although the transactions that write them  *)
(* are not serializable (RowLocks, MovesAtCommit).  With one task per file *)
(* they are, and what GET shows of a job that has ended is true.           *)
(*                                                                         *)
(* The argument has three parts.  RunInv(r) says what a task knows of the  *)
(* rows; a step of another task or of the API leaves it alone because that *)
(* other cannot hold the same lock; and a commit is start_file on the rows *)
(* as they are, or the verdict of VerdictKeepsTables.                      *)
(***************************************************************************)
EXTENDS RowLocks, JobRowsProofs

\* The constants of a run.
LEMMA RunRows ==
  ASSUME NEW r \in Run
  PROVE  /\ FileOf[r] \in File /\ JobFor(r) \in Job
         /\ FileOf[r] \in FilesOf(JobFor(r))
         /\ FileOf[r] \in Row /\ JobFor(r) \in Row
         /\ FileOf[r] # JobFor(r)
         /\ r # Nobody /\ r # Api
BY RowLocksAssumption, JobRowsAssumption DEF JobFor, FilesOf, Row

\* What a flush writes is the row of a file that has been started.
LEMMA FlushedIsRow ==
  ASSUME NEW r \in Run, tx[r] \in Tx, NEW row \in FileRow,
         row.status \notin {"pending", "absent"}
  PROVE  /\ Flushed(r, row) \in FileRow
         /\ Flushed(r, row).status \notin {"pending", "absent"}
<1> DEFINE v == tx[r].verdict
           s == IF tx[r].seen.status # v THEN v ELSE row.status
<1>1. v \in FinalFile /\ tx[r].seen.output \in Nat
  BY DEF Tx, FileRow
<1>2. s \in FileStatus /\ s # "pending"
  BY <1>1 DEF FinalFile, FileStatus, FileRow
<1>3. s # "absent"
  BY <1>1 DEF FinalFile
<1> HIDE DEF s
<1>4. /\ [row EXCEPT !.status = s, !.output = tx[r].seen.output + 1] \in FileRow
      /\ [row EXCEPT !.status = s, !.error = TRUE] \in FileRow
  <2>1. row \in [status : FileStatus \cup {"absent"}, output : Nat,
                 error : BOOLEAN]
    BY DEF FileRow
  <2>2. tx[r].seen.output + 1 \in Nat
    BY <1>1
  <2>3. s \in FileStatus \cup {"absent"}
    BY <1>2
  <2> QED
    BY <2>1, <2>2, <2>3, Zenon DEF FileRow
<1>5. /\ [row EXCEPT !.status = s, !.output = tx[r].seen.output + 1].status = s
      /\ [row EXCEPT !.status = s, !.error = TRUE].status = s
  BY DEF FileRow
<1>6. Flushed(r, row) = IF v = "done"
        THEN [row EXCEPT !.status = s, !.output = tx[r].seen.output + 1]
        ELSE [row EXCEPT !.status = s, !.error = TRUE]
  BY DEF Flushed, s
<1> HIDE DEF v
<1>7. CASE v = "done"
  BY <1>2, <1>3, <1>4, <1>5, <1>6, <1>7
<1>8. CASE v # "done"
  BY <1>2, <1>3, <1>4, <1>5, <1>6, <1>8
<1> QED
  BY <1>7, <1>8

\* A run that is between transactions, or over, has no lock and knows only that
\* its file was started.
LEMMA Rested ==
  ASSUME NEW r \in Run, NEW p \in {"queued", "work", "over"},
         tx'[r] = Fresh(p),
         lock'[JobFor(r)] # r, lock'[FileOf[r]] # r,
         JobFor(r) \in created',
         p = "work" => files'[FileOf[r]].status # "pending"
  PROVE  RunInv(r)'
BY DEF RunInv, KnownWork, StaysStarted, OwnsJob, OwnsFile, CountsHold, InSettle,
       HasFlushed, Fresh, Holds, At, FileExists, JobFor

\* What a run knows is left alone by a step that leaves its transaction, the rows
\* it holds and their locks alone, and that gives no verdict to a file of the
\* job it holds.
LEMMA Undisturbed ==
  ASSUME NEW r \in Run, RunInv(r), tx'[r] = tx[r],
         files \in [File -> FileRow], files' \in [File -> FileRow],
         lock'[JobFor(r)] = r <=> lock[JobFor(r)] = r,
         lock'[FileOf[r]] = r <=> lock[FileOf[r]] = r,
         created \subseteq created',
         Holds(r, JobFor(r)) =>
           /\ jobs'[JobFor(r)] = jobs[JobFor(r)]
           /\ \A g \in FilesOf(JobFor(r)) :
                files'[g] = files[g] \/ files'[g].status \notin FinalFile,
         Holds(r, FileOf[r]) => files'[FileOf[r]] = files[FileOf[r]],
         JobFor(r) \in created =>
           /\ jobs'[JobFor(r)].status = "pending"
                => jobs[JobFor(r)].status = "pending"
           /\ files'[FileOf[r]].status = "pending"
                => files[FileOf[r]].status = "pending"
  PROVE  RunInv(r)'
<1> DEFINE f == FileOf[r]
           j == JobFor(r)
<1>1. /\ KnownWork(r) /\ StaysStarted(r) /\ OwnsJob(r) /\ OwnsFile(r)
      /\ CountsHold(r)
  BY DEF RunInv
<1>2. KnownWork(r)'
  BY <1>1 DEF KnownWork, JobFor
<1>3. StaysStarted(r)'
  BY <1>1 DEF KnownWork, StaysStarted, InSettle, FileExists, JobFor
<1>4. OwnsJob(r)'
  BY <1>1 DEF KnownWork, OwnsJob, InSettle, Holds, At, JobExists, JobFor
<1>5. OwnsFile(r)'
  BY <1>1 DEF OwnsFile, HasFlushed, Holds, FileExists, Flushed
<1>6. CountsHold(r)'
  <2> SUFFICES ASSUME tx[r].pc \in {"recount", "settle"},
                      \A g \in FilesOf(j) : Visible(r)'[g].status \in FinalFile
               PROVE  /\ tx[r].done = Counted(Visible(r)', j, "done")
                      /\ tx[r].pc = "settle" =>
                           tx[r].failed = Counted(Visible(r)', j, "failed")
    BY DEF CountsHold, FilesOf, JobFor, Counted
  <2>1. Holds(r, j) /\ Holds(r, f)
    BY <1>1 DEF OwnsJob, OwnsFile, InSettle, HasFlushed
  <2>2. files'[f] = files[f] /\ lock'[f] = r
    BY <2>1 DEF Holds
  <2>3. ASSUME NEW g \in FilesOf(j)
        PROVE  Visible(r)'[g] = Visible(r)[g]
    <3>1. g \in File
      BY DEF FilesOf
    <3>2. /\ Visible(r) = [files EXCEPT ![f] = tx[r].file]
          /\ Visible(r)' = [files' EXCEPT ![f] = tx[r].file]
      BY <2>1, <2>2 DEF Visible, Holds
    <3>3. CASE g = f
      BY <3>1, <3>2, <3>3
    <3>4. CASE g # f
      <4>1. Visible(r)'[g] = files'[g] /\ Visible(r)[g] = files[g]
        BY <3>1, <3>2, <3>4
      <4>2. files'[g].status \in FinalFile
        BY <4>1
      <4>3. files'[g] = files[g]
        BY <2>1, <4>2
      <4> QED
        BY <4>1, <4>3
    <3> QED
      BY <3>3, <3>4
  <2>4. \A g \in FilesOf(j) : Visible(r)[g].status \in FinalFile
    BY <2>3
  <2>5. \A st : Counted(Visible(r)', j, st) = Counted(Visible(r), j, st)
    BY <2>3 DEF Counted
  <2>6. CountsHold(r)
    BY <1>1
  <2> QED
    BY <2>4, <2>5, <2>6 DEF CountsHold
<1> QED
  BY <1>2, <1>3, <1>4, <1>5, <1>6 DEF RunInv

\* The first transaction of a task is start_file on the rows as they are when it
\* commits, or changes nothing: what it saw before does not matter.
LEMMA StartMoves ==
  ASSUME LocksInv, NEW r \in Run, StartCommit(r)
  PROVE  \/ UNCHANGED <<jobs, files>>
         \/ FileExists(FileOf[r]) /\ StartFile(FileOf[r])
<1> DEFINE f == FileOf[r]
           j == JobFor(r)
<1>1. /\ TablesInv /\ StaysStarted(r) /\ OwnsJob(r) /\ At(r, "start")
      /\ f \in File /\ j \in Job /\ f \in FilesOf(j) /\ j = JobOf[f]
      /\ jobs \in [Job -> JobRow] /\ jobs[j] \in JobRow
  BY RunRows DEF LocksInv, RunInv, StartCommit, TablesInv, RowsTypeOK, JobFor
<1>2. CASE Gives(r)
  BY <1>2 DEF Gives
<1> DEFINE writes == tx[r].seen.status # "processing"
           moved == IF Holds(r, j) THEN [jobs EXCEPT ![j] = tx[r].job] ELSE jobs
<1>3. CASE /\ writes => Free(f, r) /\ FileExists(f)
           /\ files' = IF writes THEN [files EXCEPT ![f].status = "processing"]
                                 ELSE files
           /\ jobs' = moved
  <2>1. CASE ~writes
    <3>1. ASSUME Holds(r, j)
          PROVE  FALSE
      <4>1. jobs[j].status = "pending" /\ JobExists(j)
        BY <1>1, <3>1 DEF OwnsJob
      <4>2. FileExists(f) /\ files[f].status = "pending"
        BY <1>1, <4>1
           DEF TablesInv, RowsTogether, PendingIffUntouched, JobExists
      <4> QED
        BY <1>1, <2>1, <4>2 DEF StaysStarted, At
    <3> QED
      BY <1>3, <2>1, <3>1
  <2>2. CASE writes
    <3>1. jobs' = [jobs EXCEPT ![j].status =
                     IF @ = "pending" THEN "processing" ELSE @]
      <4>1. CASE Holds(r, j)
        <5>1. /\ jobs[j].status = "pending"
              /\ tx[r].job = [jobs[j] EXCEPT !.status = "processing"]
          BY <1>1, <4>1 DEF OwnsJob, Moved
        <5> QED
          BY <1>3, <4>1, <5>1
      <4>2. CASE ~Holds(r, j)
        <5>1. jobs[j].status # "pending"
          BY <1>1, <4>2 DEF OwnsJob
        <5>2. [jobs[j] EXCEPT !.status = jobs[j].status] = jobs[j]
          BY <1>1 DEF JobRow
        <5>3. [jobs EXCEPT ![j] = [jobs[j] EXCEPT !.status = jobs[j].status]]
                = jobs
          BY <1>1, <5>2
        <5> QED
          BY <1>3, <4>2, <5>1, <5>3
      <4> QED
        BY <4>1, <4>2
    <3> QED
      BY <1>1, <1>3, <2>2, <3>1 DEF StartFile
  <2> QED
    BY <2>1, <2>2
<1> QED
  BY <1>2, <1>3 DEF StartCommit

\* The second transaction records a verdict on the rows as they are when it
\* commits, and its two counts are right when they matter.
LEMMA SettleMoves ==
  ASSUME LocksInv, NEW r \in Run, SettleCommit(r)
  PROVE  /\ Holds(r, JobFor(r)) /\ Holds(r, FileOf[r])
         /\ FileExists(FileOf[r]) /\ JobExists(JobFor(r))
         /\ tx[r].file \in FileRow
         /\ tx[r].file.status \notin {"pending", "absent"}
         /\ TablesInv'
<1> DEFINE f == FileOf[r]
           j == JobFor(r)
           d == tx[r].done
           e == tx[r].failed
<1>1. /\ TablesInv /\ StaysStarted(r) /\ OwnsJob(r) /\ OwnsFile(r)
      /\ CountsHold(r) /\ At(r, "settle")
      /\ f \in File /\ j \in Job /\ j = JobOf[f]
      /\ tx[r] \in Tx /\ d \in Nat /\ e \in Nat
      /\ files \in [File -> FileRow] /\ files[f] \in FileRow
  BY RunRows
     DEF LocksInv, RunInv, SettleCommit, LTypeOK, TablesInv, RowsTypeOK, JobFor,
         Tx
<1>2. InSettle(r) /\ HasFlushed(r)
  BY <1>1 DEF InSettle, HasFlushed, At
<1>3. /\ Holds(r, j) /\ Holds(r, f) /\ FileExists(f) /\ JobExists(j)
      /\ tx[r].job = Bumped(jobs[j])
      /\ tx[r].file = Flushed(r, files[f])
  BY <1>1, <1>2 DEF OwnsJob, OwnsFile
<1>4. files[f].status \notin {"pending", "absent"}
  BY <1>1, <1>2, <1>3 DEF StaysStarted, FileExists
<1>5. tx[r].file \in FileRow /\ tx[r].file.status \notin {"pending", "absent"}
  BY <1>1, <1>3, <1>4, FlushedIsRow
<1>6. /\ files' = [files EXCEPT ![f] = tx[r].file]
      /\ jobs' = [jobs EXCEPT ![j] =
                    Stamped([jobs[j] EXCEPT !.processed = @ + 1], d, e)]
  BY <1>3 DEF SettleCommit, Bumped
<1>7. ASSUME \A g \in FilesOf(j) : files'[g].status \in FinalFile
      PROVE  d = Counted(files', j, "done") /\ e = Counted(files', j, "failed")
  <2>1. files' = Visible(r)
    BY <1>3, <1>6 DEF Visible
  <2> QED
    BY <1>1, <1>7, <2>1 DEF CountsHold, At
<1>8. TablesInv'
  BY <1>1, <1>3, <1>5, <1>6, <1>7, VerdictKeepsTables
<1> QED
  BY <1>3, <1>5, <1>8

\* A run that has read and written nothing.
LEMMA FreshIsTx ==
  ASSUME NEW p \in Statement
  PROVE  Fresh(p) \in Tx
BY DEF Fresh, Tx, FinalFile, NoFileRow, NoJobRow, FileRow, JobRow

\* The end of a transaction frees its locks and nobody else's.
LEMMA LocksFreed ==
  ASSUME LTypeOK, NEW s \in Session, lock' = Released(s)
  PROVE  /\ lock' \in [Row -> Session \cup {Nobody}]
         /\ \A x \in Row : lock'[x] # s
         /\ \A x \in Row, r \in Run \ {s} : lock'[x] = r <=> lock[x] = r
BY RowLocksAssumption DEF LTypeOK, Released, Session

\* A free lock is taken from nobody.
LEMMA LockTaken ==
  ASSUME LTypeOK, NEW s \in Session, NEW x \in Row, Free(x, s),
         lock' = [lock EXCEPT ![x] = s]
  PROVE  /\ lock' \in [Row -> Session \cup {Nobody}]
         /\ lock'[x] = s
         /\ \A y \in Row : y # x => lock'[y] = lock[y]
         /\ \A y \in Row, r \in Run \ {s} : lock'[y] = r <=> lock[y] = r
BY RowLocksAssumption DEF LTypeOK, Free, Session

\* A step that leaves the committed rows alone disturbs only its own run.
LEMMA QuietStep ==
  ASSUME LocksInv, UNCHANGED <<jobs, files, created>>,
         NEW r \in Run, tx'[r] = tx[r],
         \A x \in Row : lock'[x] = r <=> lock[x] = r
  PROVE  RunInv(r)'
<1>1. files \in [File -> FileRow] /\ RunInv(r)
  BY DEF LocksInv, TablesInv, RowsTypeOK
<1> QED
  BY <1>1, RunRows, Undisturbed

\* A statement of r that leaves the committed rows alone keeps the invariant if
\* r still knows what it should.
LEMMA StatementKeeps ==
  ASSUME LocksInv, NEW r \in Run, NEW t \in Tx, Becomes(r, t),
         UNCHANGED <<jobs, files, created, del, view>>,
         tries' \in [Run -> 0..MaxRetries],
         lock' \in [Row -> Session \cup {Nobody}],
         \A x \in Row, s \in Run \ {r} : lock'[x] = s <=> lock[x] = s,
         RunInv(r)'
  PROVE  LocksInv'
<1>1. LTypeOK /\ TablesInv /\ DeletesAJob
  BY DEF LocksInv
<1>2. TablesInv' /\ RowsTypeOK'
  BY <1>1, IdleTables DEF TablesInv
<1>3. /\ tx' \in [Run -> Tx]
      /\ \A s \in Run \ {r} : tx'[s] = tx[s]
  BY <1>1 DEF LTypeOK, Becomes
<1>4. LTypeOK'
  BY <1>1, <1>2, <1>3 DEF LTypeOK
<1>5. ASSUME NEW s \in Run
      PROVE  RunInv(s)'
  BY <1>3, QuietStep
<1>6. DeletesAJob'
  BY <1>1 DEF DeletesAJob, JobExists
<1> QED
  BY <1>2, <1>4, <1>5, <1>6 DEF LocksInv

\* So does a transaction that is rolled back.
LEMMA RollbackKeeps ==
  ASSUME LocksInv, NEW r \in Run, NEW p \in {"queued", "over"},
         Becomes(r, Fresh(p)), lock' = RolledBack(r),
         UNCHANGED <<jobs, files, created, del, view>>,
         tries' \in [Run -> 0..MaxRetries],
         JobFor(r) \in created
  PROVE  LocksInv'
<1>1. LTypeOK /\ r \in Session /\ lock' = Released(r)
  BY DEF LocksInv, Session, RolledBack
<1>2. Fresh(p) \in Tx
  BY FreshIsTx DEF Statement
<1>3. /\ lock' \in [Row -> Session \cup {Nobody}]
      /\ \A x \in Row : lock'[x] # r
      /\ \A x \in Row, s \in Run \ {r} : lock'[x] = s <=> lock[x] = s
  BY <1>1, LocksFreed
<1>4. tx'[r] = Fresh(p)
  BY <1>1 DEF LTypeOK, Becomes
<1>5. RunInv(r)'
  BY <1>3, <1>4, RunRows, Rested DEF JobFor
<1> QED
  BY <1>2, <1>3, <1>5, StatementKeeps

\* An error that is not retried, at a statement of a started run.
LEMMA GivingUpKeeps ==
  ASSUME LocksInv, NEW r \in Run, JobFor(r) \in created, Gives(r)
  PROVE  LocksInv'
<1>1. tries' \in [Run -> 0..MaxRetries]
  BY DEF Gives, LocksInv, LTypeOK
<1> QED
  BY <1>1, RollbackKeeps DEF Gives

\* The statements of the first transaction before its commit.
LEMMA StartStatementsKeep ==
  ASSUME LocksInv, NEW r \in Run, StartGet(r) \/ StartPush(r)
  PROVE  LocksInv'
<1> DEFINE f == FileOf[r]
           j == JobFor(r)
<1>1. /\ LTypeOK /\ TablesInv /\ RunInv(r)
      /\ KnownWork(r) /\ StaysStarted(r) /\ OwnsJob(r) /\ OwnsFile(r)
      /\ tx[r] \in Tx /\ files[f] \in FileRow /\ jobs[j] \in JobRow
      /\ r \in Session
      /\ f \in File /\ j \in Job /\ f \in Row /\ j \in Row /\ f # j
      /\ r # Nobody
      /\ lock \in [Row -> Session \cup {Nobody}]
      /\ tries \in [Run -> 0..MaxRetries]
      /\ tx \in [Run -> Tx]
  BY RunRows
     DEF LocksInv, RunInv, LTypeOK, TablesInv, RowsTypeOK, Session
<1>2. CASE /\ StartGet(r) /\ ~FileExists(f) /\ Gives(r)
  BY <1>2, GivingUpKeeps DEF StartGet
<1>3. ASSUME StartGet(r), FileExists(f),
             Becomes(r, [tx[r] EXCEPT !.pc = "push", !.seen = files[f]]),
             UNCHANGED <<jobs, files, created, lock, tries, del, view>>
      PROVE  LocksInv'
  <2> DEFINE t == [tx[r] EXCEPT !.pc = "push", !.seen = files[f]]
  <2>1. t \in Tx /\ t.pc = "push" /\ t.seen = files[f]
    BY <1>1 DEF Tx, Statement
  <2>2. At(r, "queued") /\ j \in created
    BY <1>3 DEF StartGet
  <2>3. tx'[r] = t
    BY <1>1, <1>3 DEF Becomes
  <2>4. lock[j] # r /\ lock[f] # r
    BY <1>1, <2>2 DEF OwnsJob, OwnsFile, InSettle, HasFlushed, Holds, At
  <2> HIDE DEF t
  <2>5. RunInv(r)'
    <3>1. tx'[r].pc = "push" /\ tx'[r].seen = files'[f]
      BY <1>3, <2>1, <2>3
    <3>2. KnownWork(r)' /\ StaysStarted(r)' /\ CountsHold(r)'
      BY <1>3, <2>2, <3>1
         DEF KnownWork, StaysStarted, CountsHold, InSettle, JobFor
    <3>3. OwnsJob(r)' /\ OwnsFile(r)'
      BY <1>3, <2>4, <3>1
         DEF OwnsJob, OwnsFile, InSettle, HasFlushed, Holds, At, JobFor
    <3> QED
      BY <3>2, <3>3 DEF RunInv
  <2>6. lock' = lock /\ tries' = tries
    BY <1>3
  <2> QED
    BY <1>1, <1>3, <2>1, <2>5, <2>6, StatementKeeps DEF t
<1>4. ASSUME StartPush(r), jobs[j].status # "pending", lock' = lock,
             Becomes(r, [tx[r] EXCEPT !.pc = "start"])
      PROVE  LocksInv'
  <2> DEFINE t == [tx[r] EXCEPT !.pc = "start"]
  <2>1. t \in Tx /\ t.pc = "start" /\ t.seen = tx[r].seen
    BY <1>1 DEF Tx, Statement
  <2>2. At(r, "push") /\ UNCHANGED <<jobs, files, created, tries, del, view>>
    BY <1>4 DEF StartPush
  <2>3. tx'[r] = t
    BY <1>1, <1>4 DEF Becomes
  <2>4. lock[j] # r /\ lock[f] # r
    BY <1>1, <2>2 DEF OwnsJob, OwnsFile, InSettle, HasFlushed, Holds, At
  <2> HIDE DEF t
  <2>5. RunInv(r)'
    <3>1. tx'[r].pc = "start" /\ tx'[r].seen = tx[r].seen
      BY <2>1, <2>3
    <3>2. KnownWork(r)' /\ StaysStarted(r)' /\ CountsHold(r)'
      BY <1>1, <2>2, <3>1
         DEF KnownWork, StaysStarted, CountsHold, InSettle, JobFor, FileExists,
             At
    <3>3. OwnsJob(r)' /\ OwnsFile(r)'
      BY <1>4, <2>2, <2>4, <3>1
         DEF OwnsJob, OwnsFile, InSettle, HasFlushed, Holds, At, JobFor
    <3> QED
      BY <3>2, <3>3 DEF RunInv
  <2> QED
    BY <1>1, <1>4, <2>1, <2>2, <2>5, StatementKeeps DEF t
<1>5. ASSUME StartPush(r), jobs[j].status = "pending", Free(j, r),
             lock' = [lock EXCEPT ![j] = r],
             Becomes(r, [tx[r] EXCEPT !.pc = "start", !.job = Moved(jobs[j])])
      PROVE  LocksInv'
  <2> DEFINE t == [tx[r] EXCEPT !.pc = "start", !.job = Moved(jobs[j])]
  <2>0. Moved(jobs[j]) \in JobRow
    BY <1>1 DEF Moved, JobRow, JobStatus
  <2>1. t \in Tx /\ t.pc = "start" /\ t.seen = tx[r].seen /\ t.job = Moved(jobs[j])
    BY <1>1, <2>0 DEF Tx, Statement
  <2>2. At(r, "push") /\ UNCHANGED <<jobs, files, created, tries, del, view>>
    BY <1>5 DEF StartPush
  <2>3. tx'[r] = t
    BY <1>1, <1>5 DEF Becomes
  <2>4. lock[f] # r
    BY <1>1, <2>2 DEF OwnsFile, HasFlushed, Holds, At
  <2>5. /\ lock' \in [Row -> Session \cup {Nobody}]
        /\ lock'[j] = r /\ lock'[f] # r
        /\ \A x \in Row, s \in Run \ {r} : lock'[x] = s <=> lock[x] = s
    BY <1>1, <1>5, <2>4, LockTaken
  <2> HIDE DEF t
  <2>6. RunInv(r)'
    <3>1. /\ tx'[r].pc = "start" /\ tx'[r].seen = tx[r].seen
          /\ tx'[r].job = Moved(jobs'[j])
      BY <2>1, <2>2, <2>3
    <3>2. KnownWork(r)' /\ StaysStarted(r)' /\ CountsHold(r)'
      BY <1>1, <2>2, <3>1
         DEF KnownWork, StaysStarted, CountsHold, InSettle, JobFor, FileExists,
             At
    <3>3. OwnsJob(r)' /\ OwnsFile(r)'
      BY <1>5, <2>2, <2>5, <3>1
         DEF OwnsJob, OwnsFile, InSettle, HasFlushed, Holds, At, JobFor,
             JobExists
    <3> QED
      BY <3>2, <3>3 DEF RunInv
  <2> QED
    BY <1>1, <1>5, <2>1, <2>2, <2>5, <2>6, StatementKeeps DEF t
<1> QED
  BY <1>2, <1>3, <1>4, <1>5 DEF StartGet, StartPush

\* What holds of a run and its rows, before each of its steps.
LEMMA RunFacts ==
  ASSUME LocksInv, NEW r \in Run
  PROVE  /\ LTypeOK /\ TablesInv
         /\ KnownWork(r) /\ StaysStarted(r) /\ OwnsJob(r) /\ OwnsFile(r)
         /\ CountsHold(r)
         /\ tx[r] \in Tx /\ files[FileOf[r]] \in FileRow
         /\ jobs[JobFor(r)] \in JobRow
         /\ files \in [File -> FileRow] /\ jobs \in [Job -> JobRow]
         /\ r \in Session
         /\ lock \in [Row -> Session \cup {Nobody}]
         /\ tries \in [Run -> 0..MaxRetries]
         /\ tx \in [Run -> Tx]
BY RunRows DEF LocksInv, RunInv, LTypeOK, TablesInv, RowsTypeOK, Session

\* The second transaction up to its counts.
LEMMA SettleStatementsKeep ==
  ASSUME LocksInv, NEW r \in Run,
         SettleGet(r) \/ SettleBump(r) \/ SettleFlush(r)
  PROVE  LocksInv'
<1> DEFINE f == FileOf[r]
           j == JobFor(r)
<1>1. /\ f \in File /\ j \in Job /\ f \in Row /\ j \in Row /\ f # j
      /\ r # Nobody
  BY RunRows
<1>2. CASE Gives(r)
  <2>1. tx[r].pc # "queued"
    BY DEF SettleGet, SettleBump, SettleFlush, At
  <2> QED
    BY <1>2, <2>1, RunFacts, GivingUpKeeps DEF KnownWork
<1>3. ASSUME SettleGet(r), FileExists(f),
             NEW v \in FinalFile,
             Becomes(r, [tx[r] EXCEPT !.pc = "bump", !.verdict = v,
                                      !.seen = files[f]]),
             UNCHANGED <<jobs, files, created, lock, tries, del, view>>
      PROVE  LocksInv'
  <2> DEFINE t == [tx[r] EXCEPT !.pc = "bump", !.verdict = v, !.seen = files[f]]
  <2>1. t \in Tx /\ t.pc = "bump"
    BY <1>3, RunFacts DEF Tx, Statement
  <2>2. At(r, "work")
    BY <1>3 DEF SettleGet
  <2>3. tx'[r].pc = "bump"
    BY <1>3, <2>1, RunFacts DEF Becomes
  <2>4. lock[j] # r /\ lock[f] # r
    BY <1>1, <2>2, RunFacts
       DEF OwnsJob, OwnsFile, InSettle, HasFlushed, Holds, At
  <2> HIDE DEF t
  <2>5. RunInv(r)'
    <3>1. KnownWork(r)' /\ StaysStarted(r)' /\ CountsHold(r)'
      BY <1>3, <2>2, <2>3, RunFacts
         DEF KnownWork, StaysStarted, CountsHold, InSettle, JobFor, FileExists,
             At
    <3>2. OwnsJob(r)' /\ OwnsFile(r)'
      BY <1>3, <2>3, <2>4
         DEF OwnsJob, OwnsFile, InSettle, HasFlushed, Holds, At, JobFor
    <3> QED
      BY <3>1, <3>2 DEF RunInv
  <2>6. lock' = lock /\ tries' = tries
    BY <1>3
  <2> QED
    BY <1>1, <1>3, <2>1, <2>5, <2>6, RunFacts, StatementKeeps DEF t
<1>4. ASSUME SettleBump(r), JobExists(j), lock' = [lock EXCEPT ![j] = r],
             Becomes(r, [tx[r] EXCEPT !.pc = "flush", !.job = Bumped(jobs[j])]),
             UNCHANGED <<jobs, files, created, tries, del, view>>
      PROVE  LocksInv'
  <2> DEFINE t == [tx[r] EXCEPT !.pc = "flush", !.job = Bumped(jobs[j])]
  <2>1. Bumped(jobs[j]) \in JobRow
    BY RunFacts DEF Bumped, JobRow
  <2>2. t \in Tx /\ t.pc = "flush" /\ t.job = Bumped(jobs[j])
    BY <2>1, RunFacts DEF Tx, Statement
  <2>3. At(r, "bump") /\ Free(j, r)
    BY <1>4 DEF SettleBump
  <2>4. tx'[r] = t
    BY <1>4, RunFacts DEF Becomes
  <2>5. lock[f] # r
    BY <1>1, <2>3, RunFacts DEF OwnsFile, HasFlushed, Holds, At
  <2>6. /\ lock' \in [Row -> Session \cup {Nobody}]
        /\ lock'[j] = r /\ lock'[f] # r
        /\ \A x \in Row, s \in Run \ {r} : lock'[x] = s <=> lock[x] = s
    BY <1>1, <1>4, <2>3, <2>5, RunFacts, LockTaken
  <2> HIDE DEF t
  <2>7. RunInv(r)'
    <3>1. tx'[r].pc = "flush" /\ tx'[r].job = Bumped(jobs'[j])
      BY <1>4, <2>2, <2>4
    <3>2. KnownWork(r)' /\ StaysStarted(r)' /\ CountsHold(r)'
      BY <1>4, <2>3, <3>1, RunFacts
         DEF KnownWork, StaysStarted, CountsHold, InSettle, JobFor, FileExists,
             At
    <3>3. OwnsJob(r)' /\ OwnsFile(r)'
      BY <1>4, <2>6, <3>1
         DEF OwnsJob, OwnsFile, InSettle, HasFlushed, Holds, At, JobFor,
             JobExists
    <3> QED
      BY <3>2, <3>3 DEF RunInv
  <2>8. tries' = tries
    BY <1>4
  <2> QED
    BY <1>4, <2>2, <2>6, <2>7, <2>8, RunFacts, StatementKeeps DEF t
<1>5. ASSUME SettleFlush(r), FileExists(f), lock' = [lock EXCEPT ![f] = r],
             Becomes(r, [tx[r] EXCEPT !.pc = "count",
                                      !.file = Flushed(r, files[f])]),
             UNCHANGED <<jobs, files, created, tries, del, view>>
      PROVE  LocksInv'
  <2> DEFINE t == [tx[r] EXCEPT !.pc = "count", !.file = Flushed(r, files[f])]
  <2>1. At(r, "flush") /\ Free(f, r)
    BY <1>5 DEF SettleFlush
  <2>2. InSettle(r) /\ files[f].status \notin {"pending", "absent"}
    BY <1>5, <2>1, RunFacts DEF InSettle, At, StaysStarted, FileExists
  <2>3. Flushed(r, files[f]) \in FileRow
    BY <2>2, RunFacts, FlushedIsRow
  <2>4. /\ t \in Tx /\ t.pc = "count" /\ t.file = Flushed(r, files[f])
        /\ t.job = tx[r].job /\ t.seen = tx[r].seen /\ t.verdict = tx[r].verdict
    BY <2>3, RunFacts DEF Tx, Statement
  <2>5. tx'[r] = t
    BY <1>5, RunFacts DEF Becomes
  <2>6. /\ lock' \in [Row -> Session \cup {Nobody}]
        /\ lock'[f] = r /\ lock'[j] = lock[j]
        /\ \A x \in Row, s \in Run \ {r} : lock'[x] = s <=> lock[x] = s
    BY <1>1, <1>5, <2>1, RunFacts, LockTaken
  <2>7. lock[j] = r /\ tx[r].job = Bumped(jobs[j]) /\ JobExists(j)
    BY <2>2, RunFacts DEF OwnsJob, Holds
  <2> HIDE DEF t
  <2>8. RunInv(r)'
    <3>1. tx'[r].pc = "count" /\ tx'[r].job = Bumped(jobs'[j])
      BY <1>5, <2>4, <2>5, <2>7
    <3>2. KnownWork(r)' /\ StaysStarted(r)' /\ CountsHold(r)'
      BY <1>5, <2>1, <2>2, <3>1, RunFacts
         DEF KnownWork, StaysStarted, CountsHold, InSettle, JobFor, FileExists,
             At
    <3>3. OwnsJob(r)'
      BY <1>5, <2>6, <2>7, <3>1
         DEF OwnsJob, InSettle, Holds, At, JobFor, JobExists
    <3>4. Flushed(r, files[f])' = Flushed(r, files[f])
      BY <1>5, <2>4, <2>5 DEF Flushed
    <3>5. OwnsFile(r)'
      BY <1>5, <2>4, <2>5, <2>6, <3>1, <3>4
         DEF OwnsFile, HasFlushed, Holds, FileExists
    <3> QED
      BY <3>2, <3>3, <3>5 DEF RunInv
  <2>9. tries' = tries
    BY <1>5
  <2> QED
    BY <1>5, <2>4, <2>6, <2>8, <2>9, RunFacts, StatementKeeps DEF t
<1> QED
  BY <1>2, <1>3, <1>4, <1>5 DEF SettleGet, SettleBump, SettleFlush

\* The two counts.
LEMMA CountsKeep ==
  ASSUME LocksInv, NEW r \in Run, SettleCount(r) \/ SettleRecount(r)
  PROVE  LocksInv'
<1> DEFINE f == FileOf[r]
           j == JobFor(r)
           a == Counted(Visible(r), j, "done")
           b == Counted(Visible(r), j, "failed")
<1>1. /\ tx[r].pc \in {"count", "recount"} /\ InSettle(r) /\ HasFlushed(r)
      /\ UNCHANGED <<jobs, files, created, lock, tries, del, view>>
  BY DEF SettleCount, SettleRecount, At, InSettle, HasFlushed
<1>2. a \in Nat /\ b \in Nat
  BY RunRows, CountIsNat
<1>3. ASSUME NEW t \in Tx, Becomes(r, t),
             t.pc \in {"recount", "settle"},
             t.job = tx[r].job, t.file = tx[r].file, t.seen = tx[r].seen,
             t.verdict = tx[r].verdict,
             (\A g \in FilesOf(j) : Visible(r)[g].status \in FinalFile) =>
               t.done = a /\ (t.pc = "settle" => t.failed = b)
      PROVE  LocksInv'
  <2>1. tx'[r] = t
    BY <1>3, RunFacts DEF Becomes
  <2>2. KnownWork(r)' /\ StaysStarted(r)'
    BY <1>1, <1>3, <2>1, RunFacts
       DEF KnownWork, StaysStarted, InSettle, JobFor, FileExists
  <2>3. OwnsJob(r)'
    BY <1>1, <1>3, <2>1, RunFacts
       DEF OwnsJob, InSettle, Holds, At, JobFor, JobExists
  <2>4. Flushed(r, files[f])' = Flushed(r, files[f])
    BY <1>1, <1>3, <2>1 DEF Flushed
  <2>5. OwnsFile(r)'
    BY <1>1, <1>3, <2>1, <2>4, RunFacts
       DEF OwnsFile, HasFlushed, Holds, FileExists
  <2>6. Visible(r)' = Visible(r)
    BY <1>1, <1>3, <2>1 DEF Visible, Holds
  <2>7. CountsHold(r)'
    BY <1>1, <1>3, <2>1, <2>6 DEF CountsHold, Counted, FilesOf, JobFor
  <2>8. RunInv(r)'
    BY <2>2, <2>3, <2>5, <2>7 DEF RunInv
  <2>9. lock' = lock /\ tries' = tries
    BY <1>1
  <2> QED
    BY <1>1, <1>3, <2>8, <2>9, RunFacts, StatementKeeps
<1>4. CASE SettleCount(r)
  <2> DEFINE t == [tx[r] EXCEPT !.pc = "recount", !.done = a]
  <2>1. /\ t \in Tx /\ t.pc = "recount" /\ t.done = a
        /\ t.job = tx[r].job /\ t.file = tx[r].file /\ t.seen = tx[r].seen
        /\ t.verdict = tx[r].verdict
    BY <1>2, RunFacts DEF Tx, Statement
  <2>2. Becomes(r, t)
    BY <1>4 DEF SettleCount
  <2> HIDE DEF t
  <2> QED
    BY <1>3, <2>1, <2>2
<1>5. CASE SettleRecount(r)
  <2> DEFINE t == [tx[r] EXCEPT !.pc = "settle", !.failed = b]
  <2>1. /\ t \in Tx /\ t.pc = "settle" /\ t.failed = b /\ t.done = tx[r].done
        /\ t.job = tx[r].job /\ t.file = tx[r].file /\ t.seen = tx[r].seen
        /\ t.verdict = tx[r].verdict
    BY <1>2, RunFacts DEF Tx, Statement
  <2>2. Becomes(r, t) /\ tx[r].pc = "recount"
    BY <1>5 DEF SettleRecount, At
  <2>3. (\A g \in FilesOf(j) : Visible(r)[g].status \in FinalFile) =>
          tx[r].done = a
    BY <2>2, RunFacts DEF CountsHold
  <2> HIDE DEF t
  <2> QED
    BY <1>3, <2>1, <2>2, <2>3
<1> QED
  BY <1>4, <1>5

\* A commit of r that changes its job and its file disturbs no other run: it
\* holds the lock of what it changes.
LEMMA CommitSparesOthers ==
  ASSUME LocksInv, NEW r \in Run, Becomes(r, Fresh("work")) \/ Becomes(r, Fresh("over")),
         lock' = Released(r), UNCHANGED created,
         files' \in [File -> FileRow],
         \A k \in Job : jobs'[k] = jobs[k] \/ (/\ Holds(r, k)
                                               /\ jobs'[k].status # "pending"),
         \A g \in File : \/ files'[g] = files[g]
                         \/ /\ files'[g].status # "pending"
                            /\ Free(g, r)
                            /\ files'[g].status \notin FinalFile
                                 \/ Holds(r, JobOf[g]),
         NEW s \in Run, s # r
  PROVE  RunInv(s)'
<1> DEFINE f == FileOf[s]
           j == JobFor(s)
<1>1. /\ LTypeOK /\ RunInv(s) /\ r \in Session
      /\ files \in [File -> FileRow]
  BY DEF LocksInv, Session, TablesInv, RowsTypeOK
<1>2. /\ f \in File /\ j \in Job /\ f \in Row /\ j \in Row /\ s # Nobody
  BY RunRows
<1>3. \A x \in Row : lock'[x] = s <=> lock[x] = s
  BY <1>1, LocksFreed
<1>4. tx'[s] = tx[s]
  BY <1>1 DEF LTypeOK, Becomes
<1>5. Holds(s, j) => jobs'[j] = jobs[j]
  BY <1>2 DEF Holds
<1>6. ASSUME Holds(s, j), NEW g \in FilesOf(j)
      PROVE  files'[g] = files[g] \/ files'[g].status \notin FinalFile
  <2>1. g \in File /\ JobOf[g] = j
    BY DEF FilesOf
  <2> QED
    BY <1>6, <2>1 DEF Holds
<1>7. Holds(s, f) => files'[f] = files[f]
  BY <1>2 DEF Holds, Free
<1>8. jobs'[j].status = "pending" => jobs[j].status = "pending"
  BY <1>2
<1>9. files'[f].status = "pending" => files[f].status = "pending"
  BY <1>2
<1> QED
  BY <1>1, <1>2, <1>3, <1>4, <1>5, <1>6, <1>7, <1>8, <1>9, Undisturbed

\* A commit keeps the invariant if it keeps the tables, spares the others and
\* leaves its own run between transactions.
LEMMA CommitKeeps ==
  ASSUME LocksInv, NEW r \in Run, NEW p \in {"work", "over"},
         Becomes(r, Fresh(p)), lock' = Released(r),
         UNCHANGED <<created, tries, del, view>>,
         TablesInv', JobFor(r) \in created,
         files'[FileOf[r]].status # "pending",
         \A k \in Job : JobExists(k) => JobExists(k)',
         \A s \in Run : s # r => RunInv(s)'
  PROVE  LocksInv'
<1>1. LTypeOK /\ r \in Session /\ DeletesAJob
  BY DEF LocksInv, Session
<1>2. /\ lock' \in [Row -> Session \cup {Nobody}]
      /\ \A x \in Row : lock'[x] # r
  BY <1>1, LocksFreed
<1>3. Fresh(p) \in Tx
  BY FreshIsTx DEF Statement
<1>4. tx' \in [Run -> Tx] /\ tx'[r] = Fresh(p)
  BY <1>1, <1>3 DEF LTypeOK, Becomes
<1>5. LTypeOK'
  BY <1>1, <1>2, <1>4 DEF LTypeOK, TablesInv
<1>6. RunInv(r)'
  BY <1>2, <1>4, RunRows, Rested
<1>7. DeletesAJob'
  BY <1>1 DEF DeletesAJob, LTypeOK, Deletion
<1> QED
  BY <1>5, <1>6, <1>7 DEF LocksInv

\* The commit of the first transaction.
LEMMA StartCommitKeeps ==
  ASSUME LocksInv, NEW r \in Run, StartCommit(r)
  PROVE  LocksInv'
<1> DEFINE f == FileOf[r]
           j == JobFor(r)
           writes == tx[r].seen.status # "processing"
<1>1. /\ f \in File /\ j \in Job /\ f \in Row /\ j \in Row /\ f # j
      /\ r # Nobody /\ f \in FilesOf(j) /\ j = JobOf[f]
  BY RunRows DEF JobFor
<1>2. At(r, "start") /\ j \in created
  BY RunFacts DEF StartCommit, At, KnownWork
<1>3. CASE Gives(r)
  BY <1>2, <1>3, GivingUpKeeps
<1>4. ASSUME writes => Free(f, r) /\ FileExists(f),
             files' = IF writes THEN [files EXCEPT ![f].status = "processing"]
                                ELSE files,
             jobs' = IF Holds(r, j) THEN [jobs EXCEPT ![j] = tx[r].job] ELSE jobs,
             lock' = Released(r),
             Becomes(r, Fresh("work")),
             UNCHANGED <<created, tries, del, view>>
      PROVE  LocksInv'
  <2>1. TablesInv'
    <3>1. CASE UNCHANGED <<jobs, files>>
      BY <3>1, RunFacts, IdleTables
    <3>2. CASE FileExists(f) /\ StartFile(f)
      BY <1>1, <3>2, RunFacts, StartKeepsTables
    <3> QED
      BY <3>1, <3>2, StartMoves
  <2>2. files' \in [File -> FileRow]
    BY <2>1 DEF TablesInv, RowsTypeOK
  <2>3. \A k \in Job : jobs'[k] = jobs[k] \/ (/\ Holds(r, k)
                                             /\ jobs'[k].status = "processing")
    <3>1. CASE Holds(r, j)
      <4>1. tx[r].job = Moved(jobs[j])
        BY <1>2, <3>1, RunFacts DEF OwnsJob
      <4>2. tx[r].job.status = "processing"
        BY <4>1, RunFacts DEF Moved, JobRow
      <4> QED
        BY <1>1, <1>4, <3>1, <4>2, RunFacts
    <3>2. CASE ~Holds(r, j)
      BY <1>4, <3>2
    <3> QED
      BY <3>1, <3>2
  <2>4. \A g \in File : \/ files'[g] = files[g]
                        \/ /\ files'[g].status = "processing"
                           /\ Free(g, r)
    <3>1. CASE writes
      <4>1. files' = [files EXCEPT ![f].status = "processing"] /\ Free(f, r)
        BY <1>4, <3>1
      <4>2. files'[f].status = "processing"
        BY <1>1, <4>1, RunFacts DEF FileRow
      <4> QED
        BY <1>1, <4>1, <4>2, RunFacts
    <3>2. CASE ~writes
      BY <1>4, <3>2
    <3> QED
      BY <3>1, <3>2
  <2>5. ASSUME NEW s \in Run, s # r
        PROVE  RunInv(s)'
    <3>1. \A k \in Job : jobs'[k] = jobs[k] \/ (/\ Holds(r, k)
                                                /\ jobs'[k].status # "pending")
      BY <2>3
    <3>2. \A g \in File : \/ files'[g] = files[g]
                          \/ /\ files'[g].status # "pending"
                             /\ Free(g, r)
                             /\ files'[g].status \notin FinalFile
                                  \/ Holds(r, JobOf[g])
      BY <2>4 DEF FinalFile
    <3> QED
      BY <1>4, <2>2, <2>5, <3>1, <3>2, CommitSparesOthers
  <2>6. files'[f].status # "pending"
    <3>1. CASE writes
      BY <1>1, <1>4, <3>1, RunFacts DEF FileRow
    <3>2. CASE ~writes /\ FileExists(f)
      BY <1>2, <1>4, <3>2, RunFacts DEF StaysStarted, At
    <3>3. CASE ~writes /\ ~FileExists(f)
      BY <1>4, <3>3 DEF FileExists
    <3> QED
      BY <3>1, <3>2, <3>3
  <2>7. \A k \in Job : JobExists(k) => JobExists(k)'
    BY <2>3 DEF JobExists
  <2> QED
    BY <1>2, <1>4, <2>1, <2>5, <2>6, <2>7, CommitKeeps
<1> QED
  BY <1>3, <1>4 DEF StartCommit

\* The commit of the second.
LEMMA SettleCommitKeeps ==
  ASSUME LocksInv, NEW r \in Run, SettleCommit(r)
  PROVE  LocksInv'
<1> DEFINE f == FileOf[r]
           j == JobFor(r)
<1>1. /\ f \in File /\ j \in Job /\ f \in Row /\ j \in Row /\ f # j
      /\ r # Nobody /\ j = JobOf[f]
  BY RunRows DEF JobFor
<1>2. At(r, "settle") /\ j \in created
  BY RunFacts DEF SettleCommit, At, KnownWork
<1>3. /\ Holds(r, j) /\ Holds(r, f)
      /\ tx[r].file \in FileRow /\ tx[r].file.status \notin {"pending", "absent"}
      /\ TablesInv'
  BY SettleMoves
<1>4. /\ files' = [files EXCEPT ![f] = tx[r].file]
      /\ jobs' = [jobs EXCEPT ![j] =
                    Stamped(tx[r].job, tx[r].done, tx[r].failed)]
      /\ lock' = Released(r) /\ Becomes(r, Fresh("over"))
      /\ UNCHANGED <<created, tries, del, view>>
  BY DEF SettleCommit
<1>5. /\ files'[f] = tx[r].file
      /\ \A g \in File : g # f => files'[g] = files[g]
      /\ \A k \in Job : k # j => jobs'[k] = jobs[k]
  BY <1>1, <1>4, RunFacts
<1>6. JobExists(j)' /\ jobs'[j].status # "pending"
  <2>1. FileExists(f)' /\ f \in FilesOf(j)
    BY <1>1, <1>3, <1>5 DEF FileExists, FilesOf
  <2>2. JobExists(j)'
    BY <1>1, <1>3, <2>1 DEF TablesInv, RowsTogether
  <2> QED
    BY <1>1, <1>3, <1>5, <2>1, <2>2
       DEF TablesInv, PendingIffUntouched, FilesOf
<1>7. \A k \in Job : jobs'[k] = jobs[k] \/ (/\ Holds(r, k)
                                            /\ jobs'[k].status # "pending")
  BY <1>3, <1>5, <1>6
<1>8. \A g \in File : \/ files'[g] = files[g]
                      \/ /\ files'[g].status # "pending"
                         /\ Free(g, r)
                         /\ files'[g].status \notin FinalFile
                              \/ Holds(r, JobOf[g])
  BY <1>1, <1>3, <1>5 DEF Free, Holds
<1>9. \A s \in Run : s # r => RunInv(s)'
  <2>1. files' \in [File -> FileRow]
    BY <1>3 DEF TablesInv, RowsTypeOK
  <2> QED
    BY <1>4, <1>7, <1>8, <2>1, CommitSparesOthers
<1>10. \A k \in Job : JobExists(k) => JobExists(k)'
  BY <1>5, <1>6 DEF JobExists
<1> QED
  BY <1>2, <1>3, <1>4, <1>5, <1>9, <1>10, CommitKeeps

\* A new job is nobody's yet.
LEMMA CreateKeeps ==
  ASSUME LocksInv, NEW j \in Job, Create(j)
  PROVE  LocksInv'
<1>1. /\ LTypeOK /\ TablesInv /\ DeletesAJob /\ InsertJob(j) /\ j \notin created
      /\ jobs \in [Job -> JobRow] /\ files \in [File -> FileRow]
      /\ UNCHANGED <<lock, tx, tries, del, view>>
  BY DEF LocksInv, Create, InsertJob, TablesInv, RowsTypeOK
<1>2. TablesInv'
  BY <1>1, InsertKeepsTables
<1>3. /\ created' = created \cup {j}
      /\ \A k \in Job : k # j => jobs'[k] = jobs[k]
      /\ \A f \in File : JobOf[f] # j => files'[f] = files[f]
      /\ jobs'[j] = NewJobRow(j)
  BY <1>1 DEF InsertJob, FilesOf
<1>4. LTypeOK'
  BY <1>1, <1>2, <1>3 DEF LTypeOK, TablesInv
<1>5. ASSUME NEW r \in Run
      PROVE  RunInv(r)'
  <2>1. /\ RunInv(r) /\ tx'[r] = tx[r] /\ lock' = lock
        /\ files' \in [File -> FileRow]
    BY <1>1, <1>2 DEF LocksInv, TablesInv, RowsTypeOK
  <2>2. Holds(r, JobFor(r)) \/ Holds(r, FileOf[r]) => JobFor(r) \in created
    BY RunFacts DEF KnownWork, OwnsJob, OwnsFile, HasFlushed, InSettle, At
  <2>3. JobFor(r) \in created =>
          /\ jobs'[JobFor(r)] = jobs[JobFor(r)]
          /\ \A g \in FilesOf(JobFor(r)) : files'[g] = files[g]
          /\ files'[FileOf[r]] = files[FileOf[r]]
    BY <1>1, <1>3, RunRows DEF FilesOf
  <2>4. created \subseteq created'
    BY <1>3
  <2> QED
    BY <1>1, <2>1, <2>2, <2>3, <2>4, Undisturbed
<1>6. DeletesAJob'
  <2>1. NewJobRow(j).status = "pending"
    BY DEF NewJobRow, NoJobRow
  <2> QED
    BY <1>1, <1>3, <2>1 DEF DeletesAJob, JobExists, LTypeOK, Deletion
<1> QED
  BY <1>2, <1>4, <1>5, <1>6 DEF LocksInv

\* A DELETE locks rows nobody holds, and removes a job nobody holds.
LEMMA DeleteKeeps ==
  ASSUME LocksInv,
         (\E j \in Job : DeleteGet(j)) \/ DeleteStep
  PROVE  LocksInv'
<1>1. /\ LTypeOK /\ TablesInv /\ DeletesAJob /\ del \in Deletion
      /\ jobs \in [Job -> JobRow] /\ files \in [File -> FileRow]
      /\ \A r \in Run : RunInv(r)
      /\ Api \in Session /\ \A r \in Run : r # Api
  BY RowLocksAssumption DEF LocksInv, TablesInv, RowsTypeOK, LTypeOK, Session
<1>2. ASSUME NEW j \in Job, DeleteGet(j)
      PROVE  LocksInv'
  <2>1. /\ UNCHANGED <<jobs, files, created, lock, tx, tries, view>>
        /\ JobExists(j)
        /\ del' = [pc |-> "rows", job |-> j, todo |-> FilesOf(j)]
    BY <1>2 DEF DeleteGet
  <2>3. del' \in Deletion
    BY <2>1 DEF Deletion, FilesOf
  <2>4. TablesInv'
    BY <1>1, <2>1, IdleTables
  <2>5. LTypeOK'
    BY <1>1, <2>1, <2>3, <2>4 DEF LTypeOK, TablesInv
  <2>6. \A r \in Run : RunInv(r)'
    BY <2>1, QuietStep
  <2>7. DeletesAJob'
    BY <2>1 DEF DeletesAJob, JobExists
  <2> QED
    BY <2>4, <2>5, <2>6, <2>7 DEF LocksInv
<1>3. ASSUME NEW f \in File, DeleteRow(f)
      PROVE  LocksInv'
  <2>1. /\ UNCHANGED <<jobs, files, created, tx, tries, view>>
        /\ Free(f, Api) /\ f \in Row
        /\ lock' = [lock EXCEPT ![f] = Api]
        /\ del' = [del EXCEPT !.todo = @ \ {f}]
    BY <1>3 DEF DeleteRow, Row
  <2>2. del' \in Deletion /\ del'.pc = del.pc /\ del'.job = del.job
    BY <1>1, <2>1 DEF Deletion
  <2>3. /\ lock' \in [Row -> Session \cup {Nobody}]
        /\ \A x \in Row, r \in Run \ {Api} : lock'[x] = r <=> lock[x] = r
    BY <1>1, <2>1, LockTaken
  <2>4. TablesInv'
    BY <1>1, <2>1, IdleTables
  <2>5. LTypeOK'
    BY <1>1, <2>1, <2>2, <2>3, <2>4 DEF LTypeOK, TablesInv
  <2>6. \A r \in Run : RunInv(r)'
    BY <1>1, <2>1, <2>3, QuietStep
  <2>7. DeletesAJob'
    BY <1>1, <2>1, <2>2 DEF DeletesAJob, JobExists
  <2> QED
    BY <2>4, <2>5, <2>6, <2>7 DEF LocksInv
<1>4. ASSUME DeleteCommit
      PROVE  LocksInv'
  <2> DEFINE d == del.job
  <2>1. /\ d \in Job /\ Free(d, Api) /\ RemoveJob(d)
        /\ lock' = Released(Api)
        /\ del' = [del EXCEPT !.pc = "idle"]
        /\ UNCHANGED <<created, tx, tries, view>>
    BY <1>1, <1>4 DEF DeleteCommit, RemoveJob, Deletion
  <2>2. TablesInv'
    BY <1>1, <2>1, RemoveKeepsTables
  <2>3. del' \in Deletion /\ del'.pc = "idle"
    BY <1>1, <2>1 DEF Deletion
  <2>4. /\ lock' \in [Row -> Session \cup {Nobody}]
        /\ \A x \in Row, r \in Run \ {Api} : lock'[x] = r <=> lock[x] = r
    BY <1>1, <2>1, LocksFreed
  <2>5. LTypeOK'
    BY <1>1, <2>1, <2>2, <2>3, <2>4 DEF LTypeOK, TablesInv
  <2>6. /\ \A k \in Job : k # d => jobs'[k] = jobs[k]
        /\ jobs'[d] = NoJobRow
        /\ \A g \in File : JobOf[g] # d => files'[g] = files[g]
        /\ \A g \in File : JobOf[g] = d => files'[g] = NoFileRow
    BY <1>1, <2>1 DEF RemoveJob, FilesOf
  <2>7. ASSUME NEW r \in Run
        PROVE  RunInv(r)'
    <3> DEFINE f == FileOf[r]
               j == JobFor(r)
    <3>1. f \in File /\ j \in Job /\ j = JobOf[f] /\ f \in Row /\ j \in Row
      BY RunRows DEF JobFor
    <3>2. r # Api /\ r # Nobody
      BY RunRows
    <3>3. Holds(r, f) => Holds(r, j)
      BY RunFacts DEF OwnsFile, OwnsJob, HasFlushed, InSettle
    <3>4. Holds(r, j) => j # d
      BY <2>1, <3>2 DEF Holds, Free
    <3>5. Holds(r, j) => /\ jobs'[j] = jobs[j]
                         /\ files'[f] = files[f]
                         /\ \A g \in FilesOf(j) : files'[g] = files[g]
      BY <2>6, <3>1, <3>4 DEF FilesOf
    <3>6. /\ jobs'[j].status = "pending" => jobs[j].status = "pending"
          /\ files'[f].status = "pending" => files[f].status = "pending"
      BY <2>6, <3>1 DEF NoJobRow, NoFileRow
    <3>7. /\ tx'[r] = tx[r] /\ created \subseteq created' /\ RunInv(r)
          /\ files' \in [File -> FileRow]
          /\ (lock'[j] = r <=> lock[j] = r) /\ (lock'[f] = r <=> lock[f] = r)
      BY <1>1, <2>1, <2>2, <2>4, <3>1, <3>2 DEF TablesInv, RowsTypeOK
    <3> QED
      BY <1>1, <3>3, <3>5, <3>6, <3>7, Undisturbed
  <2>8. DeletesAJob'
    BY <2>3 DEF DeletesAJob
  <2> QED
    BY <2>2, <2>5, <2>7, <2>8 DEF LocksInv
<1> QED
  BY <1>2, <1>3, <1>4 DEF DeleteStep

\* Reading disturbs nobody.
LEMMA ReadKeeps ==
  ASSUME LocksInv, (\E j \in Job : ReadJob(j)) \/ ReadFiles
  PROVE  LocksInv'
<1>1. /\ LTypeOK /\ TablesInv /\ DeletesAJob
      /\ jobs \in [Job -> JobRow] /\ files \in [File -> FileRow]
      /\ view \in View
  BY DEF LocksInv, TablesInv, RowsTypeOK, LTypeOK
<1>2. UNCHANGED <<jobs, files, created, lock, tx, tries, del>>
  BY DEF ReadJob, ReadFiles
<1>3. view' \in View
  <2>1. ASSUME NEW j \in Job, ReadJob(j)
        PROVE  view' \in View
    <3>1. NoFiles \in [File -> FileStatus \cup {"absent"}]
      BY DEF NoFiles
    <3>2. jobs[j].status \in JobStatus \cup {"absent"}
      BY <1>1 DEF JobRow
    <3> QED
      BY <2>1, <3>1, <3>2 DEF ReadJob, View
  <2>2. ASSUME ReadFiles
        PROVE  view' \in View
    <3> DEFINE fs == [f \in File |-> IF f \in FilesOf(view.job)
                                     THEN files[f].status ELSE "absent"]
    <3>1. \A f \in File : files[f].status \in FileStatus \cup {"absent"}
      BY <1>1 DEF FileRow
    <3>2. fs \in [File -> FileStatus \cup {"absent"}]
      BY <3>1
    <3>3. view' = [view EXCEPT !.pc = "sent", !.files = fs]
      BY <2>2 DEF ReadFiles
    <3> HIDE DEF fs
    <3> QED
      BY <1>1, <3>2, <3>3 DEF View
  <2> QED
    BY <2>1, <2>2
<1>4. TablesInv'
  BY <1>1, <1>2, IdleTables
<1>5. LTypeOK'
  BY <1>1, <1>2, <1>3, <1>4 DEF LTypeOK, TablesInv
<1>6. \A r \in Run : RunInv(r)'
  BY <1>2, QuietStep
<1>7. DeletesAJob'
  BY <1>1, <1>2 DEF DeletesAJob, JobExists
<1> QED
  BY <1>4, <1>5, <1>6, <1>7 DEF LocksInv

\* Nor does a transaction the database aborts.
LEMMA AbortsKeep ==
  ASSUME LocksInv,
         (\E r \in Run : DeadlockVictim(r)) \/ ConnectionLost
  PROVE  LocksInv'
<1>1. ASSUME NEW r \in Run, tx[r].pc # "queued", Aborts(r)
      PROVE  LocksInv'
  <2> DEFINE p == IF tries[r] < MaxRetries THEN "queued" ELSE "over"
  <2>1. tries' \in [Run -> 0..MaxRetries]
    <3>1. tries \in [Run -> 0..MaxRetries] /\ MaxRetries \in Nat
      BY RunFacts, RowLocksAssumption
    <3>2. tries' = [tries EXCEPT ![r] = IF tries[r] < MaxRetries
                                        THEN tries[r] + 1 ELSE tries[r]]
      BY <1>1 DEF Aborts
    <3> QED
      BY <3>1, <3>2
  <2>2. /\ Becomes(r, Fresh(p)) /\ lock' = RolledBack(r)
        /\ UNCHANGED <<jobs, files, created, del, view>>
    BY <1>1 DEF Aborts
  <2>3. p \in {"queued", "over"}
    OBVIOUS
  <2>4. JobFor(r) \in created
    BY <1>1, RunFacts DEF KnownWork
  <2> HIDE DEF p
  <2> QED
    BY <2>1, <2>2, <2>3, <2>4, RollbackKeeps
<1>2. ASSUME AbortsDelete
      PROVE  LocksInv'
  <2>1. /\ LTypeOK /\ TablesInv /\ del \in Deletion
        /\ Api \in Session /\ \A r \in Run : r # Api
    BY RowLocksAssumption DEF LocksInv, LTypeOK, Session
  <2>2. /\ UNCHANGED <<jobs, files, created, tx, tries, view>>
        /\ lock' = Released(Api)
        /\ del' = [del EXCEPT !.pc = "idle", !.todo = {}]
    BY <1>2 DEF AbortsDelete, RolledBack
  <2>3. del' \in Deletion /\ del'.pc = "idle"
    BY <2>1, <2>2 DEF Deletion
  <2>4. /\ lock' \in [Row -> Session \cup {Nobody}]
        /\ \A x \in Row, r \in Run \ {Api} : lock'[x] = r <=> lock[x] = r
    BY <2>1, <2>2, LocksFreed
  <2>5. TablesInv'
    BY <2>1, <2>2, IdleTables
  <2>6. LTypeOK'
    BY <2>1, <2>2, <2>3, <2>4, <2>5 DEF LTypeOK, TablesInv
  <2>7. \A r \in Run : RunInv(r)'
    BY <2>1, <2>2, <2>4, QuietStep
  <2>8. DeletesAJob'
    BY <2>3 DEF DeletesAJob
  <2> QED
    BY <2>5, <2>6, <2>7, <2>8 DEF LocksInv
<1>3. ASSUME NEW r \in Run, DeadlockVictim(r)
      PROVE  LocksInv'
  <2>1. tx[r].pc # "queued"
    BY <1>3 DEF DeadlockVictim, Deadlocked, Wants, At
  <2> QED
    BY <1>1, <1>2, <1>3, <2>1 DEF DeadlockVictim
<1>4. CASE ConnectionLost
  BY <1>1, <1>2, <1>4 DEF ConnectionLost, At
<1> QED
  BY <1>3, <1>4

\* Nothing has been read, written or locked.
LEMMA LocksInitially == LInit => LocksInv
<1> SUFFICES ASSUME LInit PROVE LocksInv
  OBVIOUS
<1>1. TablesInv
  BY RowsInitConsistent DEF LInit
<1>2. /\ lock \in [Row -> Session \cup {Nobody}]
      /\ tries \in [Run -> 0..MaxRetries]
      /\ created \subseteq Job
  BY RowLocksAssumption DEF LInit, RowsInit
<1>3. tx \in [Run -> Tx]
  BY FreshIsTx DEF LInit, Statement
<1>4. del \in Deletion /\ del.pc = "idle"
  BY DEF LInit, Deletion
<1>5. view \in View
  BY DEF LInit, View, NoFiles
<1>6. LTypeOK
  BY <1>1, <1>2, <1>3, <1>4, <1>5 DEF LTypeOK, TablesInv
<1>7. ASSUME NEW r \in Run
      PROVE  RunInv(r)
  <2>1. tx[r] = Fresh("queued") /\ tx[r].pc = "queued"
    BY DEF LInit, Fresh
  <2>2. lock[JobFor(r)] # r /\ lock[FileOf[r]] # r
    BY RunRows DEF LInit
  <2> QED
    BY <2>1, <2>2
       DEF RunInv, KnownWork, StaysStarted, OwnsJob, OwnsFile, CountsHold,
           InSettle, HasFlushed, Holds, At
<1>8. DeletesAJob
  BY <1>4 DEF DeletesAJob
<1> QED
  BY <1>1, <1>6, <1>7, <1>8 DEF LocksInv

\* Every statement keeps what the runs know and the tables consistent.
LEMMA LocksStep == LocksInv /\ [LNext]_lvars => LocksInv'
<1> SUFFICES ASSUME LocksInv, [LNext]_lvars PROVE LocksInv'
  OBVIOUS
<1>1. ASSUME NEW r \in Run, RunStep(r)
      PROVE  LocksInv'
  BY <1>1, StartStatementsKeep, StartCommitKeeps, SettleStatementsKeep,
     CountsKeep, SettleCommitKeeps DEF RunStep
<1>2. ASSUME NEW j \in Job, Create(j) \/ DeleteGet(j) \/ ReadJob(j)
      PROVE  LocksInv'
  BY <1>2, CreateKeeps, DeleteKeeps, ReadKeeps
<1>3. CASE DeleteStep \/ ReadFiles
  BY <1>3, DeleteKeeps, ReadKeeps
<1>4. CASE (\E r \in Run : DeadlockVictim(r)) \/ ConnectionLost
  BY <1>4, AbortsKeep
<1>5. CASE UNCHANGED lvars
  <2>1. /\ UNCHANGED <<jobs, files, created, lock, tx, tries, del, view>>
        /\ LTypeOK /\ TablesInv /\ DeletesAJob
    BY <1>5 DEF lvars, LocksInv
  <2>2. TablesInv'
    BY <2>1, IdleTables
  <2>3. LTypeOK' /\ DeletesAJob'
    BY <2>1, <2>2 DEF LTypeOK, TablesInv, DeletesAJob, JobExists
  <2>4. \A r \in Run : RunInv(r)'
    BY <2>1, QuietStep
  <2> QED
    BY <2>2, <2>3, <2>4 DEF LocksInv
<1> QED
  BY <1>1, <1>2, <1>3, <1>4, <1>5 DEF LNext

\* What a task knows of the rows between two of its statements stays true,
\* whatever the other sessions do in between: its job and its file while it has
\* their locks, and its counts when they decide.
THEOREM LocksSuffice == LSpec => []LocksInv
BY LocksInitially, LocksStep, PTL DEF LSpec

\* The tables stay consistent under READ COMMITTED: any number of tasks, also
\* several on one file, statement by statement, with deletes, deadlocks and
\* lost connections between.
THEOREM ConsistentUnderLocks == LSpec => []TablesConsistent
<1>1. LocksInv => TablesConsistent
  BY DEF LocksInv, TablesConsistent
<1> QED
  BY <1>1, LocksSuffice, PTL

\* The statement-level variables keep their types.
THEOREM LocksTyped == LSpec => []LTypeOK
<1>1. LocksInv => LTypeOK
  BY DEF LocksInv
<1> QED
  BY <1>1, LocksSuffice, PTL

(***************************************************************************)
(* One task per file: MovesAtCommit and TerminalViewIsFinal                *)
(*                                                                         *)
(* Then every transaction is one of JobRows when it commits: start_file on *)
(* a file without a verdict, or the first verdict of its file, counted by  *)
(* statements that no other verdict on the job can come between.           *)
(***************************************************************************)

\* What LocksInv and OneTaskInv say of one run.
LEMMA OnceFacts ==
  ASSUME LocksInv, OneTaskInv, NEW r \in Run
  PROVE  /\ KnownWork(r) /\ StaysStarted(r) /\ OwnsJob(r) /\ OwnsFile(r)
         /\ Undecided(r) /\ SeenIsStored(r) /\ CountsAreExact(r)
         /\ tx \in [Run -> Tx] /\ tx[r] \in Tx
         /\ files \in [File -> FileRow] /\ jobs \in [Job -> JobRow]
         /\ TablesInv
BY DEF LocksInv, RunInv, OneTaskInv, OnceRun, LTypeOK, TablesInv, RowsTypeOK

\* The statements that write nothing.
Writes(r) == StartCommit(r) \/ SettleCommit(r)
LEMMA OnlyCommitsWrite ==
  ASSUME [LNext]_lvars
  PROVE  \/ \E j \in Job : Create(j)
         \/ \E r \in Run : Writes(r)
         \/ DeleteCommit
         \/ UNCHANGED <<jobs, files, created>>
BY DEF LNext, RunStep, StartGet, StartPush, SettleGet, SettleBump, SettleFlush,
       SettleCount, SettleRecount, Gives, DeleteGet, ReadJob, DeadlockVictim,
       Aborts, AbortsDelete, DeleteStep, DeleteRow, ReadFiles, ConnectionLost,
       Writes, lvars

\* The commit of a verdict is complete_file or fail_file on the rows as they are.
LEMMA SettleIsVerdict ==
  ASSUME LocksInv, OneTaskInv, NEW r \in Run, SettleCommit(r)
  PROVE  /\ FileExists(FileOf[r]) /\ UNCHANGED created
         /\ files[FileOf[r]].status = "processing"
         /\ tx[r].file \in FileRow /\ tx[r].file.status \in FinalFile
         /\ FileSettled(FileOf[r], tx[r].file)
         /\ \/ FailFile(FileOf[r])
            \/ /\ files'[FileOf[r]].output \in Nat
               /\ CompleteFile(FileOf[r], files'[FileOf[r]].output)
<1> DEFINE f == FileOf[r]
           j == JobFor(r)
           v == tx[r].verdict
           row == files[f]
           new == tx[r].file
           d == Counted([files EXCEPT ![f] = new], j, "done")
           e == Counted([files EXCEPT ![f] = new], j, "failed")
<1>1. /\ f \in File /\ j \in Job /\ j = JobOf[f]
      /\ row \in FileRow /\ v \in FinalFile
      /\ At(r, "settle") /\ InSettle(r) /\ HasFlushed(r)
  BY OnceFacts, RunRows DEF SettleCommit, InSettle, HasFlushed, At, JobFor, Tx
<1>2. /\ Holds(r, j) /\ Holds(r, f) /\ FileExists(f)
      /\ tx[r].job = Bumped(jobs[j])
      /\ new = Flushed(r, row)
  BY <1>1, OnceFacts DEF OwnsJob, OwnsFile
<1>3. tx[r].seen = row /\ row.status \notin FinalFile
  BY <1>1, <1>2, OnceFacts DEF SeenIsStored, Undecided, At
<1>4. row.status = "processing"
  <2>1. row.status # "pending"
    BY <1>1, <1>2, OnceFacts DEF StaysStarted
  <2> QED
    BY <1>1, <1>2, <1>3, <2>1 DEF FileExists, FileRow, FileStatus, FinalFile
<1>5. new = IF v = "done"
            THEN [row EXCEPT !.status = v, !.output = row.output + 1]
            ELSE [row EXCEPT !.status = v, !.error = TRUE]
  <2>1. row.status # v
    BY <1>1, <1>3
  <2> QED
    BY <1>2, <1>3, <2>1 DEF Flushed
<1>6. new \in FileRow /\ new.status = v
  <2>1. row.output + 1 \in Nat /\ v \in FileStatus
    BY <1>1 DEF FileRow, FinalFile, FileStatus
  <2> HIDE DEF v, row, new
  <2>2. CASE v = "done"
    <3>1. new = [row EXCEPT !.status = v, !.output = row.output + 1]
      BY <1>5, <2>2
    <3> QED
      BY <1>1, <2>1, <3>1 DEF FileRow
  <2>3. CASE v # "done"
    <3>1. new = [row EXCEPT !.status = v, !.error = TRUE]
      BY <1>5, <2>3
    <3> QED
      BY <1>1, <2>1, <3>1 DEF FileRow
  <2> QED
    BY <2>2, <2>3
<1>7. tx[r].done = d /\ tx[r].failed = e
  BY <1>1, <1>2, OnceFacts DEF CountsAreExact, Visible, At
<1>8. /\ files' = [files EXCEPT ![f] = new]
      /\ jobs' = [jobs EXCEPT ![j] = Stamped(Bumped(jobs[j]), d, e)]
      /\ UNCHANGED created
  BY <1>2, <1>7 DEF SettleCommit
<1>9. FileSettled(f, new)
  BY <1>1, <1>8 DEF FileSettled, Recomputed, Bumped
<1>10. CASE v = "done"
  <2>1. new = [row EXCEPT !.status = "done", !.output = row.output + 1]
    BY <1>5, <1>10
  <2>2. files'[f].output = row.output + 1 /\ row.output + 1 \in Nat
    BY <1>1, <1>8, <2>1, OnceFacts DEF FileRow
  <2>3. CompleteFile(f, row.output + 1)
    BY <1>9, <2>1 DEF CompleteFile
  <2> QED
    BY <1>1, <1>2, <1>4, <1>6, <1>8, <1>9, <2>2, <2>3
<1>11. CASE v = "failed"
  <2>1. new = [row EXCEPT !.status = "failed", !.error = TRUE]
    BY <1>5, <1>11
  <2>2. FailFile(f)
    BY <1>9, <2>1 DEF FailFile
  <2> QED
    BY <1>1, <1>2, <1>4, <1>6, <1>8, <1>9, <2>2
<1> QED
  BY <1>1, <1>10, <1>11 DEF FinalFile

\* Every step is a transaction of JobRows on files without a verdict, or leaves
\* the rows alone.
LEMMA StatementMovesOnce ==
  ASSUME LocksInv, OneTaskInv, [LNext]_lvars
  PROVE  OnceRows /\ [RowsNext]_rows
<1>1. ASSUME NEW j \in Job, Create(j)
      PROVE  OnceRows /\ [RowsNext]_rows
  BY <1>1 DEF Create, OnceRows, RowsNext
<1>2. CASE DeleteCommit
  <2>1. del.job \in Job /\ RemoveJob(del.job)
    BY <1>2 DEF DeleteCommit, LocksInv, LTypeOK, Deletion
  <2> QED
    BY <2>1 DEF OnceRows, RowsNext
<1>3. ASSUME NEW r \in Run, StartCommit(r)
      PROVE  OnceRows /\ [RowsNext]_rows
  <2>1. UNCHANGED created
    BY <1>3 DEF StartCommit, Gives
  <2>2. FileOf[r] \in File /\ files[FileOf[r]].status \notin FinalFile
    BY <1>3, OnceFacts, RunRows DEF StartCommit, Undecided, At
  <2> QED
    BY <1>3, <2>1, <2>2, StartMoves DEF OnceRows, RowsNext, rows
<1>4. ASSUME NEW r \in Run, SettleCommit(r)
      PROVE  OnceRows /\ [RowsNext]_rows
  <2>1. FileOf[r] \in File /\ files[FileOf[r]].status \notin FinalFile
    BY <1>4, SettleIsVerdict, RunRows DEF FinalFile
  <2>2. OnceRows
    BY <1>4, <2>1, SettleIsVerdict DEF OnceRows
  <2>3. RowsNext
    BY <1>4, <2>1, SettleIsVerdict DEF RowsNext
  <2> QED
    BY <2>2, <2>3
<1>5. CASE UNCHANGED <<jobs, files, created>>
  BY <1>5 DEF OnceRows, rows
<1> QED
  BY <1>1, <1>2, <1>3, <1>4, <1>5, OnlyCommitsWrite DEF Writes

\* What a step of another session leaves of what a run knows.
LEMMA OnceUndisturbed ==
  ASSUME LocksInv, LocksInv', NEW r \in Run, OnceRun(r), tx'[r] = tx[r],
         files \in [File -> FileRow], files' \in [File -> FileRow],
         \/ files'[FileOf[r]] = files[FileOf[r]]
         \/ files'[FileOf[r]].status = "absent"
         \/ At(r, "queued") /\ files'[FileOf[r]].status \notin FinalFile,
         InSettle(r) => \A g \in FilesOf(JobFor(r)) :
           \/ files'[g] = files[g]
           \/ files'[g].status \notin FinalFile /\ files[g].status \notin FinalFile
  PROVE  OnceRun(r)'
<1> DEFINE f == FileOf[r]
           j == JobFor(r)
<1>1. f \in File /\ f \in FilesOf(j) /\ j \in Job
  BY RunRows
<1>2. Undecided(r)'
  BY DEF OnceRun, Undecided, At, FinalFile
<1>3. SeenIsStored(r)'
  BY DEF OnceRun, SeenIsStored, FileExists, At
<1>4. ASSUME HasFlushed(r), NEW st \in FinalFile
      PROVE  Counted(Visible(r)', j, st) = Counted(Visible(r), j, st)
  <2>1. Holds(r, f) /\ Holds(r, f)' /\ InSettle(r)
    BY <1>4 DEF LocksInv, RunInv, OwnsFile, HasFlushed, InSettle
  <2>2. /\ Visible(r) = [files EXCEPT ![f] = tx[r].file]
        /\ Visible(r)' = [files' EXCEPT ![f] = tx[r].file]
    BY <2>1 DEF Visible, Holds
  <2>3. ASSUME NEW g \in FilesOf(j)
        PROVE  Visible(r)'[g].status = st <=> Visible(r)[g].status = st
    <3>1. g \in File
      BY DEF FilesOf
    <3>2. CASE g = f
      BY <1>1, <2>2, <3>2
    <3>3. CASE g # f
      <4>1. Visible(r)'[g] = files'[g] /\ Visible(r)[g] = files[g]
        BY <2>2, <3>1, <3>3
      <4> QED
        BY <2>1, <4>1
    <3> QED
      BY <3>2, <3>3
  <2>4. {g \in FilesOf(j) : Visible(r)'[g].status = st}
          = {g \in FilesOf(j) : Visible(r)[g].status = st}
    BY <2>3
  <2> QED
    BY <2>4 DEF Counted
<1>5. CountsAreExact(r)'
  <2> SUFFICES ASSUME tx[r].pc \in {"recount", "settle"}
               PROVE  /\ tx[r].done = Counted(Visible(r)', j, "done")
                      /\ tx[r].pc = "settle" =>
                           tx[r].failed = Counted(Visible(r)', j, "failed")
    BY DEF CountsAreExact, JobFor, Counted, FilesOf
  <2>1. /\ Counted(Visible(r)', j, "done") = Counted(Visible(r), j, "done")
        /\ Counted(Visible(r)', j, "failed") = Counted(Visible(r), j, "failed")
    BY <1>4 DEF HasFlushed, FinalFile
  <2> QED
    BY <2>1 DEF OnceRun, CountsAreExact
<1> QED
  BY <1>2, <1>3, <1>5 DEF OnceRun

\* No other session disturbs what a run knows of its file and of its counts.
LEMMA OthersLeaveOnce ==
  ASSUME LocksInv, LocksInv', OneTaskInv, OneTaskPerFile, [LNext]_lvars,
         NEW r \in Run, tx'[r] = tx[r]
  PROVE  OnceRun(r)'
<1> DEFINE f == FileOf[r]
           j == JobFor(r)
<1>1. /\ f \in File /\ j \in Job /\ f \in FilesOf(j) /\ j = JobOf[f]
      /\ r # Nobody /\ r # Api
  BY RunRows DEF JobFor
<1>2. /\ OnceRun(r) /\ KnownWork(r) /\ OwnsJob(r)
      /\ files \in [File -> FileRow] /\ files' \in [File -> FileRow]
      /\ tx \in [Run -> Tx]
      /\ InSettle(r) => Holds(r, j)
  BY DEF LocksInv, OneTaskInv, RunInv, LTypeOK, RowsTypeOK, OwnsJob
<1>3. CASE UNCHANGED files
  BY <1>2, <1>3, OnceUndisturbed
<1>4. ASSUME NEW k \in Job, Create(k)
      PROVE  OnceRun(r)'
  <2>1. /\ k \notin created
        /\ \A g \in File : files'[g] = IF g \in FilesOf(k) THEN NewFileRow
                                                          ELSE files[g]
    BY <1>4 DEF Create, InsertJob
  <2>2. NewFileRow.status = "pending"
    BY DEF NewFileRow, NoFileRow
  <2>3. CASE j = k
    <3>1. At(r, "queued")
      BY <1>2, <2>1, <2>3 DEF KnownWork, At
    <3>2. files'[f].status \notin FinalFile /\ ~InSettle(r)
      BY <1>1, <2>1, <2>2, <2>3, <3>1 DEF FinalFile, At, InSettle
    <3> QED
      BY <1>2, <3>1, <3>2, OnceUndisturbed
  <2>4. CASE j # k
    <3>1. \A g \in FilesOf(j) : files'[g] = files[g]
      BY <2>1, <2>4 DEF FilesOf
    <3> QED
      BY <1>1, <1>2, <3>1, OnceUndisturbed
  <2> QED
    BY <2>3, <2>4
<1>5. CASE DeleteCommit
  <2>1. /\ Free(del.job, Api)
        /\ \A g \in File : files'[g] = IF g \in FilesOf(del.job) THEN NoFileRow
                                                                ELSE files[g]
    BY <1>5 DEF DeleteCommit, RemoveJob
  <2>2. NoFileRow.status = "absent"
    BY DEF NoFileRow
  <2>3. CASE j = del.job
    <3>1. ~InSettle(r)
      BY <1>1, <1>2, <2>1, <2>3 DEF Free, Holds
    <3>2. files'[f].status = "absent"
      BY <1>1, <2>1, <2>2, <2>3
    <3> QED
      BY <1>2, <3>1, <3>2, OnceUndisturbed
  <2>4. CASE j # del.job
    <3>1. \A g \in FilesOf(j) : files'[g] = files[g]
      BY <2>1, <2>4 DEF FilesOf
    <3> QED
      BY <1>1, <1>2, <3>1, OnceUndisturbed
  <2> QED
    BY <2>3, <2>4
<1>6. ASSUME NEW s \in Run, StartCommit(s), ~UNCHANGED files
      PROVE  OnceRun(r)'
  <2>1. At(s, "start") /\ tx'[s].pc = "work"
    BY <1>2, <1>6 DEF StartCommit, Gives, Becomes, Fresh
  <2>2. s # r /\ FileOf[s] # f
    BY <2>1 DEF At, OneTaskPerFile
  <2>3. /\ FileOf[s] \in File
        /\ files' = [files EXCEPT ![FileOf[s]].status = "processing"]
        /\ files[FileOf[s]].status \notin FinalFile
    BY <1>6, <2>1, OnceFacts, RunRows DEF StartCommit, Gives, Undecided, At
  <2>4. \A g \in File :
          \/ files'[g] = files[g]
          \/ files'[g].status \notin FinalFile /\ files[g].status \notin FinalFile
    BY <1>2, <2>3 DEF FileRow, FinalFile
  <2>5. files'[f] = files[f] /\ \A g \in FilesOf(j) : g \in File
    BY <1>1, <1>2, <2>2, <2>3 DEF FilesOf
  <2> QED
    BY <1>2, <2>4, <2>5, OnceUndisturbed
<1>7. ASSUME NEW s \in Run, SettleCommit(s)
      PROVE  OnceRun(r)'
  <2>1. At(s, "settle") /\ tx'[s].pc = "over"
    BY <1>2, <1>7 DEF SettleCommit, Becomes, Fresh
  <2>2. s # r /\ FileOf[s] # f
    BY <2>1 DEF At, OneTaskPerFile
  <2>3. /\ FileOf[s] \in File /\ JobFor(s) = JobOf[FileOf[s]]
        /\ files' = [files EXCEPT ![FileOf[s]] = tx[s].file]
        /\ Holds(s, JobFor(s))
    BY <1>7, SettleMoves, RunRows DEF SettleCommit, JobFor
  <2>4. InSettle(r) => JobFor(s) # j
    BY <1>2, <2>2, <2>3 DEF Holds
  <2>5. \A g \in File : g # FileOf[s] => files'[g] = files[g]
    BY <1>2, <2>3
  <2>6. InSettle(r) => \A g \in FilesOf(j) : files'[g] = files[g]
    BY <2>3, <2>4, <2>5 DEF FilesOf
  <2> QED
    BY <1>1, <1>2, <2>2, <2>5, <2>6, OnceUndisturbed
<1> QED
  BY <1>3, <1>4, <1>5, <1>6, <1>7, OnlyCommitsWrite DEF Writes

\* A run keeps what it knows from one of its statements to the next.
LEMMA OwnKeepsOnce ==
  ASSUME LocksInv, LocksInv', OneTaskInv, NEW r \in Run,
         RunStep(r) \/ (Aborts(r) /\ ~At(r, "over"))
  PROVE  OnceRun(r)'
<1> DEFINE f == FileOf[r]
           j == JobFor(r)
<1>1. /\ f \in File /\ tx \in [Run -> Tx] /\ tx[r] \in Tx
      /\ files \in [File -> FileRow]
      /\ Undecided(r) /\ SeenIsStored(r) /\ CountsAreExact(r)
      /\ OwnsFile(r) /\ OwnsFile(r)'
  BY OnceFacts, RunRows DEF LocksInv, RunInv
<1>2. ASSUME NEW p \in {"queued", "work", "over"}, tx'[r].pc = p,
             p # "over" => files'[f].status \notin FinalFile
      PROVE  OnceRun(r)'
  BY <1>2 DEF OnceRun, Undecided, SeenIsStored, CountsAreExact, At
<1>3. CASE Gives(r)
  BY <1>1, <1>2, <1>3 DEF Gives, Becomes, Fresh
<1>4. CASE Aborts(r) /\ ~At(r, "over")
  <2>1. /\ tx'[r].pc \in {"queued", "over"} /\ UNCHANGED files
    BY <1>1, <1>4 DEF Aborts, Becomes, Fresh
  <2> QED
    BY <1>1, <1>2, <1>4, <2>1 DEF Undecided
<1>5. CASE StartCommit(r) /\ ~Gives(r)
  <2>1. /\ tx'[r].pc = "work" /\ At(r, "start")
        /\ \/ UNCHANGED files
           \/ files' = [files EXCEPT ![f].status = "processing"]
    BY <1>1, <1>5 DEF StartCommit, Becomes, Fresh
  <2>2. files'[f].status \notin FinalFile
    BY <1>1, <2>1 DEF Undecided, At, FileRow, FinalFile
  <2> QED
    BY <1>2, <2>1, <2>2
<1>6. CASE SettleCommit(r)
  <2>1. tx'[r].pc = "over"
    BY <1>1, <1>6 DEF SettleCommit, Becomes, Fresh
  <2> QED
    BY <1>2, <2>1
<1>7. CASE \/ StartGet(r) \/ StartPush(r) \/ SettleGet(r) \/ SettleBump(r)
           \/ SettleFlush(r)
  <2>1. CASE Gives(r)
    BY <1>3, <2>1
  <2>2. CASE ~Gives(r)
    <3>1. /\ UNCHANGED files /\ ~At(r, "over")
          /\ tx'[r].pc \in {"push", "start", "bump", "flush", "count"}
          /\ \/ tx'[r].seen = files[f]
             \/ /\ tx'[r].seen = tx[r].seen
                /\ tx[r].pc \in {"push", "bump", "flush"}
      <4>1. CASE StartGet(r)
        BY <1>1, <2>2, <4>1 DEF StartGet, Becomes, At, Tx
      <4>2. CASE StartPush(r)
        <5>1. /\ UNCHANGED files /\ tx[r].pc = "push"
              /\ \/ tx'[r] = [tx[r] EXCEPT !.pc = "start"]
                 \/ tx'[r] = [tx[r] EXCEPT !.pc = "start",
                                           !.job = Moved(jobs[j])]
          BY <1>1, <2>2, <4>2 DEF StartPush, Becomes, At
        <5> QED
          BY <1>1, <5>1 DEF At, Tx
      <4>3. CASE SettleGet(r)
        BY <1>1, <2>2, <4>3 DEF SettleGet, Becomes, At, Tx
      <4>4. CASE SettleBump(r)
        BY <1>1, <2>2, <4>4 DEF SettleBump, Becomes, At, Tx
      <4>5. CASE SettleFlush(r)
        BY <1>1, <2>2, <4>5 DEF SettleFlush, Becomes, At, Tx
      <4> QED
        BY <1>7, <4>1, <4>2, <4>3, <4>4, <4>5
    <3>2. SeenIsStored(r)'
      BY <1>1, <3>1 DEF SeenIsStored, FileExists
    <3>3. Undecided(r)' /\ CountsAreExact(r)'
      BY <1>1, <3>1 DEF Undecided, CountsAreExact, At
    <3> QED
      BY <3>2, <3>3 DEF OnceRun
  <2> QED
    BY <2>1, <2>2
<1>8. CASE SettleCount(r) \/ SettleRecount(r)
  <2>1. /\ UNCHANGED <<files, lock>> /\ HasFlushed(r)
        /\ tx'[r].file = tx[r].file /\ tx'[r].seen = tx[r].seen
        /\ tx'[r].pc \in {"recount", "settle"}
    <3>1. CASE SettleCount(r)
      BY <1>1, <3>1 DEF SettleCount, Becomes, HasFlushed, At, Tx
    <3>2. CASE SettleRecount(r)
      BY <1>1, <3>2 DEF SettleRecount, Becomes, HasFlushed, At, Tx
    <3> QED
      BY <1>8, <3>1, <3>2
  <2>2. Visible(r)' = Visible(r)
    BY <2>1 DEF Visible, Holds
  <2>3. /\ tx'[r].done = Counted(Visible(r), j, "done")
        /\ tx'[r].pc = "settle" =>
             tx'[r].failed = Counted(Visible(r), j, "failed")
    <3>1. CASE SettleCount(r)
      BY <1>1, <3>1 DEF SettleCount, Becomes, At, Tx
    <3>2. CASE SettleRecount(r)
      BY <1>1, <3>2 DEF SettleRecount, Becomes, At, Tx, CountsAreExact
    <3> QED
      BY <1>8, <3>1, <3>2
  <2>4. CountsAreExact(r)'
    BY <2>2, <2>3 DEF CountsAreExact, JobFor, Counted, FilesOf
  <2>5. Undecided(r)' /\ SeenIsStored(r)'
    BY <1>1, <2>1 DEF Undecided, SeenIsStored, HasFlushed, FileExists, At
  <2> QED
    BY <2>4, <2>5 DEF OnceRun
<1> QED
  BY <1>4, <1>5, <1>3, <1>6, <1>7, <1>8 DEF RunStep

\* What a reader has seen end stays true until it has read the files.
LEMMA SeenEndStays ==
  ASSUME LocksInv, LocksInv', OneTaskInv, OnceRows, [LNext]_lvars,
         UndecidedIsOpen', ExistingIsCreated'
  PROVE  SeenEndIsTrue' /\ TerminalViewIsFinal'
<1>1. /\ TablesInv /\ UndecidedIsOpen /\ ExistingIsCreated
      /\ SeenEndIsTrue /\ TerminalViewIsFinal /\ StatusMatchesTally
      /\ view \in View
  BY TablesGiveVerdict DEF LocksInv, LTypeOK, OneTaskInv
<1>2. CASE UNCHANGED view
  <2>1. TerminalViewIsFinal'
    BY <1>1, <1>2 DEF TerminalViewIsFinal
  <2>2. SeenEndIsTrue'
    <3> SUFFICES ASSUME view.pc = "files", view.status \in TerminalJob
                 PROVE  \/ jobs'[view.job].status = view.status
                        \/ view.job \in created' /\ ~JobExists(view.job)'
      BY <1>2 DEF SeenEndIsTrue, JobExists
    <3>1. view.job \in Job
      BY <1>1 DEF View
    <3>2. CASE jobs[view.job].status = view.status
      <4>1. jobs'[view.job].status \in {view.status, "absent"}
        BY <1>1, <3>1, <3>2, EndedIsOver
      <4>2. view.job \in created
        BY <1>1, <3>1, <3>2 DEF ExistingIsCreated, JobExists, TerminalJob
      <4>3. created \subseteq created'
        <5>1. \/ UNCHANGED created
              \/ \E k \in Job : created' = created \cup {k}
          BY DEF OnceRows, InsertJob, RemoveJob
        <5> QED
          BY <5>1
      <4> QED
        BY <1>2, <4>1, <4>2, <4>3 DEF JobExists
    <3>3. CASE view.job \in created /\ ~JobExists(view.job)
      BY <1>1, <1>2, <3>1, <3>3, DeletedIsOver DEF JobExists
    <3> QED
      BY <1>1, <3>2, <3>3 DEF SeenEndIsTrue
  <2> QED
    BY <2>1, <2>2
<1>3. ASSUME NEW j \in Job, ReadJob(j)
      PROVE  SeenEndIsTrue' /\ TerminalViewIsFinal'
  <2>1. /\ view'.pc = "files" /\ view'.job = j /\ view'.status = jobs[j].status
        /\ UNCHANGED jobs
    BY <1>3 DEF ReadJob
  <2> QED
    BY <2>1 DEF SeenEndIsTrue, TerminalViewIsFinal
<1>4. CASE ReadFiles
  <2> DEFINE j == view.job
             fs == [f \in File |-> IF f \in FilesOf(j) THEN files[f].status
                                                       ELSE "absent"]
  <2>1. /\ view.pc = "files" /\ view'.pc = "sent" /\ view'.job = j
        /\ view'.status = view.status /\ view'.files = fs
        /\ j \in Job
    BY <1>1, <1>4 DEF ReadFiles, View
  <2>2. \A f \in FilesOf(j) : f \in File /\ JobOf[f] = j
    BY DEF FilesOf
  <2>3. \A f \in FilesOf(j) : fs[f] = files[f].status
    BY <2>2
  <2>4. ASSUME view.status \in TerminalJob
        PROVE  \/ \A f \in FilesOf(j) : fs[f] = "absent"
               \/ view.status = Verdict([f \in FilesOf(j) |-> fs[f]])
    <3>1. CASE ~JobExists(j)
      BY <1>1, <2>2, <2>3, <3>1 DEF TablesInv, RowsTogether, FileExists
    <3>2. CASE JobExists(j) /\ jobs[j].status = view.status
      <4>1. AllFinal(j)
        BY <1>1, <2>1, <2>4, <3>2 DEF UndecidedIsOpen, TerminalJob
      <4>2. view.status = Verdict([f \in FilesOf(j) |-> files[f].status])
        BY <1>1, <2>1, <3>2, <4>1 DEF StatusMatchesTally
      <4>3. [f \in FilesOf(j) |-> files[f].status] = [f \in FilesOf(j) |-> fs[f]]
        BY <2>3
      <4> HIDE DEF fs
      <4> QED
        BY <4>2, <4>3
    <3> QED
      BY <1>1, <2>1, <2>4, <3>1, <3>2 DEF SeenEndIsTrue
  <2>5. SeenEndIsTrue'
    BY <2>1 DEF SeenEndIsTrue
  <2>6. TerminalViewIsFinal'
    <3>1. FilesOf(view'.job) = FilesOf(j)
      BY <2>1
    <3>2. \/ view'.status \notin TerminalJob
          \/ \A f \in FilesOf(view'.job) : view'.files[f] = "absent"
          \/ view'.status = Verdict([f \in FilesOf(view'.job) |-> view'.files[f]])
      <4> HIDE DEF fs, j
      <4> QED
        BY <2>1, <2>4, <3>1
    <3> QED
      BY <3>2 DEF TerminalViewIsFinal, FilesOf
  <2> QED
    BY <2>5, <2>6
<1>5. \/ UNCHANGED view
      \/ ReadFiles
      \/ \E j \in Job : ReadJob(j)
  BY DEF LNext, Create, RunStep, StartGet, StartPush, StartCommit, SettleGet,
         SettleBump, SettleFlush, SettleCount, SettleRecount, SettleCommit, Gives,
         DeleteGet, DeadlockVictim, Aborts, AbortsDelete, DeleteStep, DeleteRow,
         DeleteCommit, ConnectionLost, lvars
<1> QED
  BY <1>2, <1>3, <1>4, <1>5

LEMMA OneTaskStep ==
  ASSUME OneTaskPerFile
  PROVE  LocksInv /\ LocksInv' /\ OneTaskInv /\ [LNext]_lvars => OneTaskInv'
<1> SUFFICES ASSUME LocksInv, LocksInv', OneTaskInv, [LNext]_lvars
             PROVE  OneTaskInv'
  OBVIOUS
<1>1. OnceRows /\ TablesInv
  BY StatementMovesOnce DEF LocksInv
<1>2. UndecidedIsOpen' /\ ExistingIsCreated' /\ ProcessedIsExact'
  BY <1>1, OnceRowsKeep DEF OneTaskInv
<1>3. SeenEndIsTrue' /\ TerminalViewIsFinal'
  BY <1>1, <1>2, SeenEndStays
<1>4. ASSUME NEW r \in Run
      PROVE  OnceRun(r)'
  <2>1. CASE tx'[r] = tx[r]
    BY <2>1, OthersLeaveOnce
  <2>2. CASE tx'[r] # tx[r]
    <3>1. RunStep(r) \/ (Aborts(r) /\ ~At(r, "over"))
      <4>1. \/ \E s \in Run : \/ RunStep(s)
                              \/ Aborts(s) /\ ~At(s, "over")
            \/ UNCHANGED tx
        BY DEF LNext, Create, DeleteGet, ReadJob, DeadlockVictim, Deadlocked,
               Wants, At, AbortsDelete, DeleteStep, DeleteRow, DeleteCommit,
               ReadFiles, ConnectionLost, lvars
      <4>2. ASSUME NEW s \in Run, s # r, RunStep(s) \/ Aborts(s)
            PROVE  tx'[r] = tx[r]
        <5>1. \E t : tx' = [tx EXCEPT ![s] = t]
          BY <4>2 DEF RunStep, StartGet, StartPush, StartCommit, SettleGet,
               SettleBump, SettleFlush, SettleCount, SettleRecount,
               SettleCommit, Gives, Aborts, Becomes
        <5> QED
          BY <4>2, <5>1, OnceFacts
      <4> QED
        BY <2>2, <4>1, <4>2
    <3> QED
      BY <3>1, OwnKeepsOnce
  <2> QED
    BY <2>1, <2>2
<1> QED
  BY <1>2, <1>3, <1>4 DEF OneTaskInv

\* With one task per file, OneTaskInv holds throughout.
LEMMA OneTaskHolds == OneTaskPerFile => (LSpec => [](LocksInv /\ OneTaskInv))
<1> SUFFICES ASSUME OneTaskPerFile PROVE LSpec => [](LocksInv /\ OneTaskInv)
  OBVIOUS
<1>1. LInit => OneTaskInv
  <2> SUFFICES ASSUME LInit PROVE OneTaskInv
    OBVIOUS
  <2>1. \A j \in Job : ~JobExists(j)
    BY DEF LInit, RowsInit, NoJobRow, JobExists
  <2>2. view.pc = "idle"
    BY DEF LInit
  <2>3. \A r \in Run : OnceRun(r)
    BY RunRows DEF LInit, RowsInit, NoFileRow, Fresh, OnceRun, Undecided, FinalFile,
       SeenIsStored, CountsAreExact, At
  <2> QED
    BY <2>1, <2>2, <2>3
       DEF OneTaskInv, UndecidedIsOpen, ExistingIsCreated, ProcessedIsExact,
           SeenEndIsTrue, TerminalViewIsFinal
<1> QED
  BY <1>1, LocksInitially, LocksStep, OneTaskStep, PTL DEF LSpec

\* READ COMMITTED is enough while no message comes twice: every commit is one
\* transaction of JobRows on the rows of that moment.
THEOREM SerialWhileOnce == OneTaskPerFile => (LSpec => MovesAtCommit)
<1> SUFFICES ASSUME OneTaskPerFile PROVE LSpec => MovesAtCommit
  OBVIOUS
<1>1. LInit => RowsInit
  BY DEF LInit
<1>2. LocksInv /\ OneTaskInv /\ [LNext]_lvars => [RowsNext]_rows
  BY StatementMovesOnce
<1> QED
  BY <1>1, <1>2, OneTaskHolds, PTL DEF LSpec, MovesAtCommit, RowsSpec

\* So what was put together from statements that saw different rows is still, to
\* a reader of GET /jobs/{id}, a behaviour of JobContract: each file gets one
\* verdict and the job closes with the last of them.
THEOREM LocksKeepContract == OneTaskPerFile => (LSpec => KeepsContract)
<1> SUFFICES ASSUME OneTaskPerFile PROVE LSpec => KeepsContract
  OBVIOUS
<1>1. LInit => Contract!CInit
  BY RowsInitImplements DEF LInit
<1>2. LocksInv /\ LocksInv' /\ OneTaskInv /\ [LNext]_lvars
        => [Contract!CNext]_Contract!cvars
  <2> SUFFICES ASSUME LocksInv, LocksInv', OneTaskInv, [LNext]_lvars
               PROVE  [Contract!CNext]_Contract!cvars
    OBVIOUS
  <2>1. OnceRows
    BY StatementMovesOnce
  <2> QED
    BY <2>1, OnceRowsImplement DEF LocksInv, OneTaskInv
<1> QED
  BY <1>1, <1>2, OneTaskHolds, PTL DEF LSpec, KeepsContract, Contract!CSpec

\* A response that shows a terminal status shows the verdict of every file, or
\* none: the two SELECTs of GET /jobs/{id} may come from two snapshots.
THEOREM TerminalViewIsTrue == OneTaskPerFile => (LSpec => []TerminalViewIsFinal)
<1>1. OneTaskInv => TerminalViewIsFinal
  BY DEF OneTaskInv
<1> QED
  BY <1>1, OneTaskHolds, PTL

=============================================================================
