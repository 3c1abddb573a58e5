--------------------------- MODULE JobRowsProofs ---------------------------
(***************************************************************************)
(* Theorems about the tables: every transaction of services/jobs.py keeps  *)
(* them consistent, for any number of jobs and files, and for any order of *)
(* transactions, the orders a redelivered task produces included.          *)
(***************************************************************************)
EXTENDS JobRows, FiniteSetTheorems, TLAPS

(***************************************************************************)
(* The two counters of recompute_job_status lose nothing.                  *)
(***************************************************************************)

\* The files of a batch that have outcome s, as the count query selects them.
With(outcome, s) == {f \in DOMAIN outcome : outcome[f] = s}

\* Counts of a finite batch are naturals, and the two of them reach the total
\* exactly when no file is left without a verdict.
LEMMA CountsReachTotal ==
  ASSUME NEW S, IsFiniteSet(S), NEW outcome \in [S -> FileStatus]
  PROVE  /\ Cardinality(S) \in Nat
         /\ Cardinality(With(outcome, "done")) \in Nat
         /\ Cardinality(With(outcome, "failed")) \in Nat
         /\ Cardinality(With(outcome, "done"))
              + Cardinality(With(outcome, "failed")) <= Cardinality(S)
         /\ (Cardinality(With(outcome, "done"))
               + Cardinality(With(outcome, "failed")) = Cardinality(S))
              <=> \A f \in S : outcome[f] \in FinalFile
<1> DEFINE D == With(outcome, "done")
           F == With(outcome, "failed")
<1>1. D \in SUBSET S /\ F \in SUBSET S /\ (D \cup F) \in SUBSET S
  BY DEF With
<1>2. IsFiniteSet(D) /\ IsFiniteSet(F) /\ IsFiniteSet(D \cup F)
  BY <1>1, FS_Subset
<1>3. /\ Cardinality(S) \in Nat
      /\ Cardinality(D) \in Nat
      /\ Cardinality(F) \in Nat
  BY <1>2, FS_CardinalityType
<1>4. D \cap F = {}
  BY DEF With
<1>5. Cardinality(D \cap F) = 0
  BY <1>4, FS_EmptySet
<1>6. Cardinality(D \cup F) = Cardinality(D) + Cardinality(F)
  <2>1. Cardinality(D \cup F)
          = Cardinality(D) + Cardinality(F) - Cardinality(D \cap F)
    BY <1>2, FS_Union
  <2>2. QED
    BY <2>1, <1>5, <1>3
<1>7. Cardinality(D \cup F) <= Cardinality(S)
  BY <1>1, FS_Subset
<1>8. (Cardinality(D \cup F) = Cardinality(S)) <=> (D \cup F = S)
  BY <1>1, FS_Subset
<1>9. (D \cup F = S) <=> \A f \in S : outcome[f] \in FinalFile
  BY DEF With, FinalFile
<1> QED
  BY <1>3, <1>6, <1>7, <1>8, <1>9

\* compute_job_status on the counters of recompute_job_status is Verdict.
THEOREM TallyIsVerdict ==
  ASSUME NEW S, IsFiniteSet(S), S # {}, NEW outcome \in [S -> FileStatus]
  PROVE  ComputeJobStatus(Cardinality(S),
                          Cardinality(With(outcome, "done")),
                          Cardinality(With(outcome, "failed")))
           = Verdict(outcome)
<1> DEFINE d == Cardinality(With(outcome, "done"))
           k == Cardinality(With(outcome, "failed"))
           n == Cardinality(S)
<1>1. n \in Nat /\ d \in Nat /\ k \in Nat /\ d + k <= n
  BY CountsReachTotal
<1>2. (d + k = n) <=> \A f \in S : outcome[f] \in FinalFile
  BY CountsReachTotal
<1>3. n > 0
  BY <1>1, FS_EmptySet
<1>4. IsFiniteSet(With(outcome, "done")) /\ IsFiniteSet(With(outcome, "failed"))
  BY FS_Subset DEF With
<1>5. (k = 0) <=> \A f \in S : outcome[f] # "failed"
  BY <1>4, FS_EmptySet DEF With
<1>6. (d = 0) <=> \A f \in S : outcome[f] # "done"
  BY <1>4, FS_EmptySet DEF With
<1>7. DOMAIN outcome = S
  OBVIOUS
<1> HIDE DEF d, k, n
<1>8. CASE \E f \in S : outcome[f] \notin FinalFile
  <2>1. d + k < n
    BY <1>1, <1>2, <1>8
  <2>2. ComputeJobStatus(n, d, k) = "processing"
    BY <2>1, <1>1, <1>3 DEF ComputeJobStatus
  <2>3. Verdict(outcome) = "processing"
    BY <1>7, <1>8 DEF Verdict
  <2> QED
    BY <2>2, <2>3 DEF d, k, n
<1>9. CASE \A f \in S : outcome[f] \in FinalFile
  <2>1. d + k >= n /\ ~(d + k < n) /\ ~(n <= 0)
    BY <1>1, <1>2, <1>3, <1>9
  <2>2. CASE \A f \in S : outcome[f] = "done"
    <3>1. k = 0
      BY <2>2, <1>5
    <3>2. ComputeJobStatus(n, d, k) = "done"
      BY <2>1, <3>1, <1>1 DEF ComputeJobStatus
    <3> QED
      BY <3>2, <1>7, <1>9, <2>2 DEF Verdict, d, k, n
  <2>3. CASE \A f \in S : outcome[f] = "failed"
    <3>1. d = 0 /\ k # 0 /\ ~(\A f \in S : outcome[f] = "done")
      BY <2>3, <1>5, <1>6
    <3>2. ComputeJobStatus(n, d, k) = "failed"
      BY <2>1, <3>1, <1>1 DEF ComputeJobStatus
    <3> QED
      BY <3>1, <3>2, <1>7, <1>9, <2>3 DEF Verdict, d, k, n
  <2>4. CASE /\ ~(\A f \in S : outcome[f] = "done")
             /\ ~(\A f \in S : outcome[f] = "failed")
    <3>1. d # 0 /\ k # 0
      BY <2>4, <1>9, <1>5, <1>6 DEF FinalFile
    <3>2. ComputeJobStatus(n, d, k) = "partial_success"
      BY <2>1, <3>1, <1>1 DEF ComputeJobStatus
    <3> QED
      BY <3>2, <1>7, <1>9, <2>4 DEF Verdict, d, k, n
  <2> QED
    BY <2>2, <2>3, <2>4
<1> QED
  BY <1>8, <1>9

(***************************************************************************)
(* The tables                                                              *)
(***************************************************************************)

\* Every job has finitely many files.
LEMMA FilesOfFinite ==
  ASSUME NEW j \in Job
  PROVE  IsFiniteSet(FilesOf(j)) /\ Cardinality(FilesOf(j)) \in Nat
<1>1. FilesOf(j) \in SUBSET File
  BY DEF FilesOf
<1>2. IsFiniteSet(FilesOf(j))
  BY <1>1, JobRowsAssumption, FS_Subset
<1> QED
  BY <1>2, FS_CardinalityType

\* The files of a job that have a verdict in fs.
FinalsIn(fs, j) == {f \in FilesOf(j) : fs[f].status \in FinalFile}

\* Fewer verdicts, smaller count.
LEMMA FinalsCounted ==
  ASSUME NEW j \in Job, NEW fs
  PROVE  /\ IsFiniteSet(FinalsIn(fs, j))
         /\ Cardinality(FinalsIn(fs, j)) \in Nat
         /\ \A S \in SUBSET FinalsIn(fs, j) :
              /\ Cardinality(S) \in Nat
              /\ Cardinality(S) <= Cardinality(FinalsIn(fs, j))
<1>1. FinalsIn(fs, j) \in SUBSET FilesOf(j)
  BY DEF FinalsIn
<1>2. IsFiniteSet(FinalsIn(fs, j))
  BY <1>1, FilesOfFinite, FS_Subset
<1>3. \A S \in SUBSET FinalsIn(fs, j) :
        /\ IsFiniteSet(S)
        /\ Cardinality(S) <= Cardinality(FinalsIn(fs, j))
  BY <1>2, FS_Subset
<1> QED
  BY <1>2, <1>3, FS_CardinalityType

\* How many files of a job have a status is a number.
LEMMA CountIsNat ==
  ASSUME NEW j \in Job, NEW fs, NEW st
  PROVE  Counted(fs, j, st) \in Nat
<1>1. {f \in FilesOf(j) : fs[f].status = st} \in SUBSET FilesOf(j)
  OBVIOUS
<1> QED
  BY <1>1, FilesOfFinite, FS_Subset, FS_CardinalityType DEF Counted

\* The rows recompute_job_status writes are job rows, whatever it has counted;
\* those of a job with files are not pending, and those of a terminal job are
\* stamped.
LEMMA StampedIsRow ==
  ASSUME NEW row \in JobRow, NEW d \in Nat, NEW e \in Nat,
         row.status # "absent"
  PROVE  /\ Stamped(row, d, e) \in JobRow
         /\ Stamped(row, d, e).status \in JobStatus
         /\ Stamped(row, d, e).total = row.total
         /\ Stamped(row, d, e).processed = row.processed
         /\ Stamped(row, d, e).status = ComputeJobStatus(row.total, d, e)
<1> DEFINE s == ComputeJobStatus(row.total, d, e)
<1>1. s \in JobStatus
  BY DEF ComputeJobStatus, JobStatus
<1> QED
  BY <1>1 DEF Stamped, JobRow

LEMMA StampedNotPending ==
  ASSUME NEW row \in JobRow, NEW j \in Job, NEW d \in Nat, NEW e \in Nat,
         FilesOf(j) # {}, row.total = Cardinality(FilesOf(j))
  PROVE  Stamped(row, d, e).status # "pending"
<1>1. IsFiniteSet(FilesOf(j)) /\ Cardinality(FilesOf(j)) \in Nat
  BY FilesOfFinite
<1>2. row.total > 0
  BY <1>1, FS_EmptySet
<1> QED
  BY <1>2 DEF Stamped, ComputeJobStatus, JobRow

LEMMA StampedIsStamped ==
  ASSUME NEW row \in JobRow, NEW d \in Nat, NEW e \in Nat,
         Stamped(row, d, e).status \in TerminalJob
  PROVE  /\ Stamped(row, d, e).completed
         /\ Stamped(row, d, e).status # "done" => Stamped(row, d, e).error
<1> DEFINE s == ComputeJobStatus(row.total, d, e)
<1>1. s \in TerminalJob
  BY DEF Stamped, JobRow
<1>2. s # "done" => e > 0
  BY <1>1 DEF ComputeJobStatus, TerminalJob
<1>3. /\ Stamped(row, d, e).status = s
      /\ Stamped(row, d, e).completed = (row.completed \/ s \in TerminalJob)
      /\ Stamped(row, d, e).error = (row.error \/ (s \in TerminalJob /\ e > 0))
  BY DEF Stamped, JobRow
<1> HIDE DEF s
<1> QED
  BY <1>1, <1>2, <1>3

\* start_file keeps the tables consistent, whatever state the file is in: a
\* message delivered a second time included.
LEMMA StartKeepsTables ==
  ASSUME TablesInv, NEW f \in File, FileExists(f), StartFile(f)
  PROVE  TablesInv'
<1> USE JobRowsAssumption
<1> DEFINE j == JobOf[f]
<1>1. j \in Job /\ JobExists(j) /\ f \in FilesOf(j)
  BY DEF TablesInv, RowsTypeOK, RowsTogether, FilesOf
<1>2. /\ files' = [files EXCEPT ![f].status = "processing"]
      /\ jobs' = [jobs EXCEPT ![j].status =
                    IF @ = "pending" THEN "processing" ELSE @]
  BY DEF StartFile
<1>3. jobs' \in [Job -> JobRow] /\ files' \in [File -> FileRow]
  <2> DEFINE s == IF jobs[j].status = "pending" THEN "processing"
                                               ELSE jobs[j].status
  <2>1. jobs[j] \in JobRow /\ files[f] \in FileRow
    BY <1>1 DEF TablesInv, RowsTypeOK
  <2>2. s \in JobStatus \cup {"absent"}
    BY <2>1 DEF JobRow, JobStatus
  <2>3. [jobs[j] EXCEPT !.status = s] \in JobRow
    BY <2>1, <2>2 DEF JobRow
  <2>4. [files[f] EXCEPT !.status = "processing"] \in FileRow
    BY <2>1 DEF FileRow, FileStatus
  <2>5. /\ jobs' = [jobs EXCEPT ![j] = [jobs[j] EXCEPT !.status = s]]
        /\ files' = [files EXCEPT ![f] =
                       [files[f] EXCEPT !.status = "processing"]]
    BY <1>2
  <2> QED
    BY <2>3, <2>4, <2>5 DEF TablesInv, RowsTypeOK
<1>4. /\ \A k \in Job : jobs'[k].total = jobs[k].total
      /\ \A k \in Job : jobs'[k].status # "absent" <=> jobs[k].status # "absent"
      /\ \A g \in File : files'[g].status # "absent" <=> files[g].status # "absent"
  BY <1>1, <1>2 DEF TablesInv, RowsTypeOK, JobRow, FileRow, FileExists, JobExists
<1>5. RowsTogether' /\ JobsAreSized'
  BY <1>4 DEF TablesInv, RowsTypeOK, RowsTogether, JobsAreSized, FileExists, JobExists,
              FilesOf
<1>6. \A k \in Job : k # j =>
        /\ jobs'[k] = jobs[k]
        /\ \A g \in FilesOf(k) : files'[g] = files[g]
  BY <1>1, <1>2 DEF TablesInv, RowsTypeOK, FilesOf
<1>7. /\ files'[f].status = "processing"
      /\ jobs'[j].status # "pending"
  BY <1>1, <1>2 DEF TablesInv, RowsTypeOK, JobRow, FileRow
<1>8. CountsAgree'
  <2> SUFFICES ASSUME NEW k \in Job, JobExists(k)', AllFinal(k)'
               PROVE  jobs'[k].status =
                        ComputeJobStatus(jobs'[k].total,
                          Counted(files', k, "done"),
                          Counted(files', k, "failed"))
    BY DEF CountsAgree
  <2>1. k # j
    BY <1>1, <1>7 DEF AllFinal, FinalFile
  <2>2. jobs'[k] = jobs[k] /\ \A g \in FilesOf(k) : files'[g] = files[g]
    BY <1>6, <2>1
  <2>3. JobExists(k) /\ AllFinal(k)
    BY <2>2 DEF JobExists, AllFinal, FilesOf
  <2>4. \A s : Counted(files', k, s) = Counted(files, k, s)
    BY <2>2 DEF Counted
  <2> QED
    BY <2>2, <2>3, <2>4 DEF TablesInv, RowsTypeOK, CountsAgree
<1>9. PendingIffUntouched'
  <2> SUFFICES ASSUME NEW k \in Job, JobExists(k)'
               PROVE  (jobs'[k].status = "pending")
                        <=> \A g \in FilesOf(k) : files'[g].status = "pending"
    BY DEF PendingIffUntouched, FilesOf
  <2>1. CASE k = j
    BY <2>1, <1>1, <1>7
  <2>2. CASE k # j
    BY <2>2, <1>4, <1>6 DEF TablesInv, RowsTypeOK, PendingIffUntouched, JobExists
  <2> QED
    BY <2>1, <2>2
<1>10. TerminalIsStamped'
  <2> SUFFICES ASSUME NEW k \in Job, jobs'[k].status \in TerminalJob
               PROVE  /\ jobs'[k].completed
                      /\ jobs'[k].status # "done" => jobs'[k].error
    BY DEF TerminalIsStamped
  <2>1. /\ jobs[k].status = jobs'[k].status
        /\ jobs[k].completed = jobs'[k].completed
        /\ jobs[k].error = jobs'[k].error
    <3>1. CASE k = j
      BY <3>1, <1>1, <1>2 DEF TablesInv, RowsTypeOK, JobRow, TerminalJob
    <3>2. CASE k # j
      BY <3>2, <1>6
    <3> QED
      BY <3>1, <3>2
  <2> QED
    BY <2>1 DEF TablesInv, TerminalIsStamped
<1>11. CounterCoversFinals'
  <2> SUFFICES ASSUME NEW k \in Job, JobExists(k)'
               PROVE  jobs'[k].processed >= Cardinality(FinalsIn(files', k))
    BY DEF CounterCoversFinals, FinalsOf, FinalsIn, FilesOf
  <2>1. JobExists(k) /\ jobs'[k].processed = jobs[k].processed
    BY <1>1, <1>2, <1>4 DEF TablesInv, RowsTypeOK, JobRow, JobExists
  <2>2. /\ jobs[k].processed >= Cardinality(FinalsIn(files, k))
        /\ jobs[k].processed \in Nat
    BY <2>1 DEF TablesInv, RowsTypeOK, JobRow, CounterCoversFinals, FinalsOf,
                FinalsIn
  <2>3. FinalsIn(files', k) \in SUBSET FinalsIn(files, k)
    BY <1>2, <1>6, <1>7 DEF TablesInv, RowsTypeOK, FinalsIn, FinalFile, FilesOf
  <2> QED
    BY <2>1, <2>2, <2>3, FinalsCounted
<1> QED
  BY <1>3, <1>5, <1>8, <1>9, <1>10, <1>11 DEF TablesInv, RowsTypeOK

\* A verdict, with the recomputation of its job in the same transaction, keeps
\* the tables consistent: it is enough that the counts d and e are right when
\* every file of the job has its verdict.
LEMMA VerdictKeepsTables ==
  ASSUME TablesInv, NEW f \in File, FileExists(f),
         NEW row \in FileRow, row.status \notin {"pending", "absent"},
         NEW d \in Nat, NEW e \in Nat,
         files' = [files EXCEPT ![f] = row],
         jobs' = [jobs EXCEPT ![JobOf[f]] =
                    Stamped([jobs[JobOf[f]] EXCEPT !.processed = @ + 1], d, e)],
         (\A g \in FilesOf(JobOf[f]) : files'[g].status \in FinalFile) =>
            /\ d = Counted(files', JobOf[f], "done")
            /\ e = Counted(files', JobOf[f], "failed")
  PROVE  TablesInv'
<1> USE JobRowsAssumption
<1> DEFINE j   == JobOf[f]
           old == [jobs[j] EXCEPT !.processed = @ + 1]
           new == Stamped(old, d, e)
<1>1. j \in Job /\ JobExists(j) /\ f \in FilesOf(j)
  BY DEF TablesInv, RowsTypeOK, RowsTogether, FilesOf
<1>2. files' = [files EXCEPT ![f] = row] /\ jobs' = [jobs EXCEPT ![j] = new]
  OBVIOUS
<1>3. /\ old \in JobRow
      /\ old.status = jobs[j].status
      /\ old.total = jobs[j].total
      /\ old.processed = jobs[j].processed + 1
      /\ jobs[j].processed \in Nat
  <2>1. jobs[j] \in JobRow
    BY <1>1 DEF TablesInv, RowsTypeOK
  <2> QED
    BY <2>1 DEF JobRow
<1>4. /\ new \in JobRow
      /\ new.status \in JobStatus
      /\ new.total = jobs[j].total
      /\ new.processed = jobs[j].processed + 1
      /\ new.status = ComputeJobStatus(jobs[j].total, d, e)
  <2>1. old.status # "absent"
    BY <1>1, <1>3 DEF JobExists
  <2> HIDE DEF old
  <2> QED
    BY <1>3, <2>1, StampedIsRow
<1>5. FilesOf(j) # {} /\ old.total = Cardinality(FilesOf(j))
  BY <1>1, <1>3 DEF TablesInv, RowsTypeOK, JobsAreSized
<1>6. new.status # "pending"
  BY <1>1, <1>3, <1>5, StampedNotPending
<1>7. jobs' \in [Job -> JobRow] /\ files' \in [File -> FileRow]
  BY <1>1, <1>2, <1>4 DEF TablesInv, RowsTypeOK
<1>14. new.status \in TerminalJob =>
         new.completed /\ (new.status # "done" => new.error)
  BY <1>3, StampedIsStamped
<1>8. /\ jobs'[j] = new
      /\ files'[f] = row
      /\ \A k \in Job : k # j =>
           /\ jobs'[k] = jobs[k]
           /\ \A g \in FilesOf(k) : files'[g] = files[g]
      /\ \A g \in File : g # f => files'[g] = files[g]
  BY <1>1, <1>2 DEF TablesInv, RowsTypeOK, FilesOf
<1> HIDE DEF new, old
<1>9. new.status # "absent" /\ row.status # "absent"
  BY <1>4 DEF JobStatus
<1>10. /\ \A k \in Job : jobs'[k].total = jobs[k].total
       /\ \A k \in Job : jobs'[k].status # "absent" <=> jobs[k].status # "absent"
       /\ \A g \in File : files'[g].status # "absent" <=> files[g].status # "absent"
  BY <1>1, <1>4, <1>8, <1>9 DEF FileExists, JobExists
<1>11. RowsTogether' /\ JobsAreSized'
  BY <1>10 DEF TablesInv, RowsTypeOK, RowsTogether, JobsAreSized, FileExists, JobExists,
               FilesOf
<1>12. CountsAgree'
  <2> SUFFICES ASSUME NEW k \in Job, JobExists(k)', AllFinal(k)'
               PROVE  jobs'[k].status =
                        ComputeJobStatus(jobs'[k].total,
                          Counted(files', k, "done"),
                          Counted(files', k, "failed"))
    BY DEF CountsAgree
  <2>1. CASE k = j
    <3>1. /\ d = Counted(files', j, "done")
          /\ e = Counted(files', j, "failed")
      BY <2>1 DEF AllFinal, FilesOf
    <3> QED
      BY <2>1, <3>1, <1>4, <1>8
  <2>2. CASE k # j
    <3>1. jobs'[k] = jobs[k] /\ \A g \in FilesOf(k) : files'[g] = files[g]
      BY <1>8, <2>2
    <3>2. JobExists(k) /\ AllFinal(k)
      BY <3>1 DEF JobExists, AllFinal, FilesOf
    <3>3. \A s : Counted(files', k, s) = Counted(files, k, s)
      BY <3>1 DEF Counted
    <3> QED
      BY <3>1, <3>2, <3>3 DEF TablesInv, RowsTypeOK, CountsAgree
  <2> QED
    BY <2>1, <2>2
<1>13. PendingIffUntouched'
  <2> SUFFICES ASSUME NEW k \in Job, JobExists(k)'
               PROVE  (jobs'[k].status = "pending")
                        <=> \A g \in FilesOf(k) : files'[g].status = "pending"
    BY DEF PendingIffUntouched, FilesOf
  <2>1. CASE k = j
    BY <2>1, <1>1, <1>6, <1>8
  <2>2. CASE k # j
    <3>1. JobExists(k) /\ PendingIffUntouched
      BY <1>10 DEF TablesInv, JobExists
    <3>2. jobs'[k] = jobs[k] /\ \A g \in FilesOf(k) : files'[g] = files[g]
      BY <1>8, <2>2
    <3> QED
      BY <3>1, <3>2 DEF PendingIffUntouched
  <2> QED
    BY <2>1, <2>2
<1>15. TerminalIsStamped'
  <2> SUFFICES ASSUME NEW k \in Job, jobs'[k].status \in TerminalJob
               PROVE  /\ jobs'[k].completed
                      /\ jobs'[k].status # "done" => jobs'[k].error
    BY DEF TerminalIsStamped
  <2> QED
    BY <1>8, <1>14 DEF TablesInv, TerminalIsStamped
<1>16. CounterCoversFinals'
  <2> SUFFICES ASSUME NEW k \in Job, JobExists(k)'
               PROVE  jobs'[k].processed >= Cardinality(FinalsIn(files', k))
    BY DEF CounterCoversFinals, FinalsOf, FinalsIn, FilesOf
  <2>1. /\ jobs[k].processed >= Cardinality(FinalsIn(files, k))
        /\ jobs[k].processed \in Nat
    BY <1>10 DEF TablesInv, RowsTypeOK, JobRow, JobExists, CounterCoversFinals,
                 FinalsOf, FinalsIn
  <2>2. CASE k = j
    <3>1. FinalsIn(files', j) \in SUBSET (FinalsIn(files, j) \cup {f})
      BY <1>8 DEF FinalsIn, FilesOf
    <3>2. /\ IsFiniteSet(FinalsIn(files, j) \cup {f})
          /\ Cardinality(FinalsIn(files, j) \cup {f})
               <= Cardinality(FinalsIn(files, j)) + 1
          /\ Cardinality(FinalsIn(files, j) \cup {f}) \in Nat
          /\ Cardinality(FinalsIn(files, j)) \in Nat
      <4> DEFINE F == FinalsIn(files, j)
      <4>1. IsFiniteSet(F) /\ Cardinality(F) \in Nat
        BY <1>1, FinalsCounted
      <4> HIDE DEF F
      <4>2. /\ IsFiniteSet(F \cup {f})
            /\ Cardinality(F \cup {f}) \in {Cardinality(F), Cardinality(F) + 1}
        BY <4>1, FS_AddElement
      <4>3. Cardinality(F \cup {f}) <= Cardinality(F) + 1
        BY <4>1, <4>2
      <4> QED
        BY <4>1, <4>2, <4>3 DEF F
    <3>3. Cardinality(FinalsIn(files', j)) \in Nat
      BY <1>1, FinalsCounted
    <3>4. Cardinality(FinalsIn(files', j))
            <= Cardinality(FinalsIn(files, j) \cup {f})
      BY <3>1, <3>2, FS_Subset
    <3> QED
      BY <2>1, <2>2, <3>2, <3>3, <3>4, <1>4, <1>8
  <2>3. CASE k # j
    <3>1. FinalsIn(files', k) = FinalsIn(files, k)
      BY <1>8, <2>3 DEF FinalsIn
    <3> QED
      BY <1>8, <2>1, <2>3, <3>1
  <2> QED
    BY <2>2, <2>3
<1> QED
  BY <1>7, <1>11, <1>12, <1>13, <1>15, <1>16 DEF TablesInv, RowsTypeOK

\* The same for a transaction that is one step: it counts what it has written.
LEMMA SettledKeepsTables ==
  ASSUME TablesInv, NEW f \in File, FileExists(f),
         NEW row \in FileRow, row.status \in FinalFile, FileSettled(f, row)
  PROVE  TablesInv'
<1> DEFINE j  == JobOf[f]
           fs == [files EXCEPT ![f] = row]
<1>1. j \in Job
  BY JobRowsAssumption
<1>2. Counted(fs, j, "done") \in Nat /\ Counted(fs, j, "failed") \in Nat
  BY <1>1, CountIsNat
<1>3. row.status \notin {"pending", "absent"}
  BY DEF FinalFile
<1>4. files' = fs
  BY DEF FileSettled
<1>5. jobs' = [jobs EXCEPT ![j] =
                 Stamped([jobs[j] EXCEPT !.processed = @ + 1],
                         Counted(fs, j, "done"), Counted(fs, j, "failed"))]
  BY DEF FileSettled, Recomputed
<1> QED
  BY <1>2, <1>3, <1>4, <1>5, VerdictKeepsTables

\* The insert of a new job: one row for it and one for each of its files.
LEMMA InsertKeepsTables ==
  ASSUME TablesInv, NEW j \in Job, InsertJob(j)
  PROVE  TablesInv'
<1> USE JobRowsAssumption
<1>1. /\ FilesOf(j) # {}
      /\ jobs' = [jobs EXCEPT ![j] = NewJobRow(j)]
      /\ files' = [f \in File |-> IF f \in FilesOf(j) THEN NewFileRow
                                                      ELSE files[f]]
  BY DEF InsertJob
<1>2. /\ NewJobRow(j) \in JobRow
      /\ NewJobRow(j).status = "pending"
      /\ NewJobRow(j).total = Cardinality(FilesOf(j))
  BY FilesOfFinite DEF NewJobRow, NoJobRow, JobRow, JobStatus
<1>3. NewFileRow \in FileRow /\ NewFileRow.status = "pending"
  BY DEF NewFileRow, NoFileRow, FileRow, FileStatus
<1>4. jobs' \in [Job -> JobRow] /\ files' \in [File -> FileRow]
  BY <1>1, <1>2, <1>3 DEF TablesInv, RowsTypeOK
<1>5. /\ jobs'[j] = NewJobRow(j)
      /\ \A f \in FilesOf(j) : files'[f] = NewFileRow
      /\ \A k \in Job : k # j =>
           /\ jobs'[k] = jobs[k]
           /\ \A f \in FilesOf(k) : files'[f] = files[f]
  BY <1>1 DEF TablesInv, RowsTypeOK, FilesOf
<1>6. RowsTogether' /\ JobsAreSized'
  <2>1. ASSUME NEW f \in File
        PROVE  FileExists(f)' <=> JobExists(JobOf[f])'
    <3>1. JobOf[f] \in Job /\ f \in FilesOf(JobOf[f])
      BY DEF FilesOf
    <3>2. CASE JobOf[f] = j
      BY <3>1, <3>2, <1>2, <1>3, <1>5 DEF FileExists, JobExists
    <3>3. CASE JobOf[f] # j
      <4>1. files'[f] = files[f] /\ jobs'[JobOf[f]] = jobs[JobOf[f]]
        BY <3>1, <3>3, <1>5
      <4>2. FileExists(f) <=> JobExists(JobOf[f])
        BY DEF TablesInv, RowsTypeOK, RowsTogether
      <4> QED
        BY <4>1, <4>2 DEF FileExists, JobExists
    <3> QED
      BY <3>2, <3>3
  <2>2. ASSUME NEW k \in Job, JobExists(k)'
        PROVE  FilesOf(k) # {} /\ jobs'[k].total = Cardinality(FilesOf(k))
    BY <2>2, <1>1, <1>2, <1>5 DEF TablesInv, RowsTypeOK, JobsAreSized, JobExists
  <2> QED
    BY <2>1, <2>2 DEF RowsTogether, JobsAreSized, FilesOf
<1>7. CountsAgree'
  <2> SUFFICES ASSUME NEW k \in Job, JobExists(k)', AllFinal(k)'
               PROVE  jobs'[k].status =
                        ComputeJobStatus(jobs'[k].total,
                          Counted(files', k, "done"),
                          Counted(files', k, "failed"))
    BY DEF CountsAgree
  <2>1. k # j
    BY <1>1, <1>3, <1>5 DEF AllFinal, FinalFile, FilesOf
  <2>2. JobExists(k) /\ AllFinal(k)
    BY <2>1, <1>5 DEF JobExists, AllFinal, FilesOf
  <2>3. \A s : Counted(files', k, s) = Counted(files, k, s)
    BY <2>1, <1>5 DEF Counted
  <2> QED
    BY <2>1, <2>2, <2>3, <1>5 DEF TablesInv, RowsTypeOK, CountsAgree
<1>8. PendingIffUntouched'
  <2> SUFFICES ASSUME NEW k \in Job, JobExists(k)'
               PROVE  (jobs'[k].status = "pending")
                        <=> \A g \in FilesOf(k) : files'[g].status = "pending"
    BY DEF PendingIffUntouched, FilesOf
  <2>1. CASE k = j
    BY <2>1, <1>2, <1>3, <1>5
  <2>2. CASE k # j
    BY <2>2, <1>5 DEF TablesInv, RowsTypeOK, PendingIffUntouched, JobExists
  <2> QED
    BY <2>1, <2>2
<1>9. TerminalIsStamped'
  BY <1>2, <1>5 DEF TablesInv, TerminalIsStamped, TerminalJob
<1>10. CounterCoversFinals'
  <2> SUFFICES ASSUME NEW k \in Job, JobExists(k)'
               PROVE  jobs'[k].processed >= Cardinality(FinalsIn(files', k))
    BY DEF CounterCoversFinals, FinalsOf, FinalsIn, FilesOf
  <2>1. CASE k = j
    <3>1. FinalsIn(files', j) = {}
      BY <1>3, <1>5 DEF FinalsIn, FinalFile
    <3>2. jobs'[j].processed = 0
      BY <1>5 DEF NewJobRow, NoJobRow
    <3> QED
      BY <2>1, <3>1, <3>2, FS_EmptySet
  <2>2. CASE k # j
    <3>1. FinalsIn(files', k) = FinalsIn(files, k)
      BY <1>5, <2>2 DEF FinalsIn
    <3> QED
      BY <1>5, <2>2, <3>1
         DEF TablesInv, CounterCoversFinals, FinalsOf, FinalsIn, JobExists
  <2> QED
    BY <2>1, <2>2
<1> QED
  BY <1>4, <1>6, <1>7, <1>8, <1>9, <1>10 DEF TablesInv, RowsTypeOK

\* The delete of a job: its row and, by the cascade, those of its files.
LEMMA RemoveKeepsTables ==
  ASSUME TablesInv, NEW j \in Job, RemoveJob(j)
  PROVE  TablesInv'
<1> USE JobRowsAssumption
<1>1. /\ jobs' = [jobs EXCEPT ![j] = NoJobRow]
      /\ files' = [f \in File |-> IF f \in FilesOf(j) THEN NoFileRow
                                                      ELSE files[f]]
  BY DEF RemoveJob
<1>2. NoJobRow \in JobRow /\ NoJobRow.status = "absent"
  BY DEF NoJobRow, JobRow
<1>3. NoFileRow \in FileRow /\ NoFileRow.status = "absent"
  BY DEF NoFileRow, FileRow
<1>4. jobs' \in [Job -> JobRow] /\ files' \in [File -> FileRow]
  BY <1>1, <1>2, <1>3 DEF TablesInv, RowsTypeOK
<1>5. /\ jobs'[j] = NoJobRow
      /\ \A f \in FilesOf(j) : files'[f] = NoFileRow
      /\ \A k \in Job : k # j =>
           /\ jobs'[k] = jobs[k]
           /\ \A f \in FilesOf(k) : files'[f] = files[f]
  BY <1>1 DEF TablesInv, RowsTypeOK, FilesOf
<1>6. RowsTogether' /\ JobsAreSized'
  <2>1. ASSUME NEW f \in File
        PROVE  FileExists(f)' <=> JobExists(JobOf[f])'
    <3>1. JobOf[f] \in Job /\ f \in FilesOf(JobOf[f])
      BY DEF FilesOf
    <3>2. CASE JobOf[f] = j
      BY <3>1, <3>2, <1>2, <1>3, <1>5 DEF FileExists, JobExists
    <3>3. CASE JobOf[f] # j
      <4>1. files'[f] = files[f] /\ jobs'[JobOf[f]] = jobs[JobOf[f]]
        BY <3>1, <3>3, <1>5
      <4>2. FileExists(f) <=> JobExists(JobOf[f])
        BY DEF TablesInv, RowsTypeOK, RowsTogether
      <4> QED
        BY <4>1, <4>2 DEF FileExists, JobExists
    <3> QED
      BY <3>2, <3>3
  <2>2. ASSUME NEW k \in Job, JobExists(k)'
        PROVE  FilesOf(k) # {} /\ jobs'[k].total = Cardinality(FilesOf(k))
    BY <2>2, <1>1, <1>2, <1>5 DEF TablesInv, RowsTypeOK, JobsAreSized, JobExists
  <2> QED
    BY <2>1, <2>2 DEF RowsTogether, JobsAreSized, FilesOf
<1>7. \A k \in Job : JobExists(k)' => k # j
  BY <1>2, <1>5 DEF JobExists
<1>8. CountsAgree'
  <2> SUFFICES ASSUME NEW k \in Job, JobExists(k)', AllFinal(k)'
               PROVE  jobs'[k].status =
                        ComputeJobStatus(jobs'[k].total,
                          Counted(files', k, "done"),
                          Counted(files', k, "failed"))
    BY DEF CountsAgree
  <2>1. k # j /\ JobExists(k) /\ AllFinal(k)
    BY <1>5, <1>7 DEF JobExists, AllFinal, FilesOf
  <2>2. \A s : Counted(files', k, s) = Counted(files, k, s)
    BY <2>1, <1>5 DEF Counted
  <2> QED
    BY <2>1, <2>2, <1>5 DEF TablesInv, RowsTypeOK, CountsAgree
<1>9. PendingIffUntouched'
  BY <1>5, <1>7 DEF TablesInv, RowsTypeOK, PendingIffUntouched, JobExists, FilesOf
<1>10. TerminalIsStamped'
  BY <1>2, <1>5 DEF TablesInv, TerminalIsStamped, TerminalJob
<1>11. CounterCoversFinals'
  <2> SUFFICES ASSUME NEW k \in Job, JobExists(k)'
               PROVE  jobs'[k].processed >= Cardinality(FinalsIn(files', k))
    BY DEF CounterCoversFinals, FinalsOf, FinalsIn, FilesOf
  <2>1. FinalsIn(files', k) = FinalsIn(files, k)
    BY <1>5, <1>7 DEF FinalsIn
  <2> QED
    BY <1>5, <1>7, <2>1
       DEF TablesInv, CounterCoversFinals, FinalsOf, FinalsIn, JobExists
<1> QED
  BY <1>4, <1>6, <1>8, <1>9, <1>10, <1>11 DEF TablesInv, RowsTypeOK

\* A step that leaves both tables alone keeps them consistent.
LEMMA IdleTables ==
  ASSUME TablesInv, UNCHANGED <<jobs, files>>
  PROVE  TablesInv'
BY DEF TablesInv, RowsTypeOK, RowsTogether, JobsAreSized, CountsAgree, AllFinal, Counted,
       PendingIffUntouched, FileExists, JobExists, FilesOf, TerminalIsStamped,
       CounterCoversFinals, FinalsOf

\* Every transaction keeps the tables consistent.
LEMMA RowsStepKeeps == TablesInv /\ [RowsNext]_rows => TablesInv'
<1> SUFFICES ASSUME TablesInv, [RowsNext]_rows PROVE TablesInv'
  OBVIOUS
<1>1. ASSUME NEW j \in Job, InsertJob(j) \/ RemoveJob(j)
      PROVE  TablesInv'
  BY <1>1, InsertKeepsTables, RemoveKeepsTables
<1>2. ASSUME NEW f \in File, FileExists(f),
             StartFile(f) \/ FailFile(f) \/ \E n \in Nat : CompleteFile(f, n)
      PROVE  TablesInv'
  <2>1. files[f] \in FileRow
    BY DEF TablesInv, RowsTypeOK
  <2>2. CASE StartFile(f)
    BY <1>2, <2>2, StartKeepsTables
  <2>3. CASE FailFile(f)
    <3> DEFINE row == [files[f] EXCEPT !.status = "failed", !.error = TRUE]
    <3>1. row \in FileRow /\ row.status \in FinalFile
      BY <2>1 DEF FileRow, FileStatus, FinalFile
    <3> QED
      BY <1>2, <2>3, <3>1, SettledKeepsTables DEF FailFile
  <2>4. ASSUME NEW n \in Nat, CompleteFile(f, n)
        PROVE  TablesInv'
    <3> DEFINE row == [files[f] EXCEPT !.status = "done", !.output = n]
    <3>1. row \in FileRow /\ row.status \in FinalFile
      BY <2>1 DEF FileRow, FileStatus, FinalFile
    <3> QED
      BY <1>2, <2>4, <3>1, SettledKeepsTables DEF CompleteFile
  <2> QED
    BY <1>2, <2>2, <2>3, <2>4
<1>3. CASE UNCHANGED rows
  BY <1>3, IdleTables DEF rows
<1> QED
  BY <1>1, <1>2, <1>3 DEF RowsNext

\* The empty tables are consistent.
LEMMA RowsInitConsistent == RowsInit => TablesInv
BY JobRowsAssumption
   DEF RowsInit, TablesInv, RowsTypeOK, JobRow, FileRow, NoJobRow, NoFileRow,
       RowsTogether, JobsAreSized, CountsAgree, PendingIffUntouched,
       TerminalIsStamped, TerminalJob, CounterCoversFinals, FileExists,
       JobExists

\* Whatever the order of the transactions, the tables stay consistent.
THEOREM RowsConsistent == RowsSpec => []TablesInv
BY RowsInitConsistent, RowsStepKeeps, PTL DEF RowsSpec

\* The status of a finished batch is the verdict on its files.
LEMMA TablesGiveVerdict == TablesInv => StatusMatchesTally
<1> SUFFICES ASSUME TablesInv, NEW j \in Job, JobExists(j), AllFinal(j)
             PROVE  jobs[j].status =
                      Verdict([f \in FilesOf(j) |-> files[f].status])
  BY DEF StatusMatchesTally
<1> DEFINE outcome == [f \in FilesOf(j) |-> files[f].status]
<1>1. /\ jobs[j].status = ComputeJobStatus(jobs[j].total,
           Counted(files, j, "done"), Counted(files, j, "failed"))
      /\ jobs[j].total = Cardinality(FilesOf(j))
      /\ FilesOf(j) # {}
  BY DEF TablesInv, CountsAgree, JobsAreSized
<1>2. outcome \in [FilesOf(j) -> FileStatus]
  BY DEF AllFinal, FinalFile, FileStatus
<1>3. \A s : Cardinality(With(outcome, s)) = Counted(files, j, s)
  <2> SUFFICES ASSUME NEW s
               PROVE  With(outcome, s) = {f \in FilesOf(j) : files[f].status = s}
    BY DEF Counted
  <2> QED
    BY DEF With
<1>4. ComputeJobStatus(Cardinality(FilesOf(j)),
                       Cardinality(With(outcome, "done")),
                       Cardinality(With(outcome, "failed")))
        = Verdict(outcome)
  <2> HIDE DEF outcome
  <2> QED
    BY <1>1, <1>2, FilesOfFinite, TallyIsVerdict
<1> QED
  BY <1>1, <1>3, <1>4

(***************************************************************************)
(* While no file is started or decided after its verdict                   *)
(***************************************************************************)

\* A verdict shows on the job at once: its status is the verdict on all its
\* files, whatever they are at, and one more of them is counted.
LEMMA SettledShows ==
  ASSUME TablesInv, NEW f \in File, FileExists(f),
         NEW row \in FileRow, row.status \in FinalFile, FileSettled(f, row)
  PROVE  /\ files' = [files EXCEPT ![f] = row]
         /\ jobs'[JobOf[f]].status =
              Verdict([g \in FilesOf(JobOf[f]) |-> files'[g].status])
         /\ jobs'[JobOf[f]].processed = jobs[JobOf[f]].processed + 1
         /\ \A k \in Job : k # JobOf[f] => jobs'[k] = jobs[k]
<1> DEFINE j  == JobOf[f]
           fs == [files EXCEPT ![f] = row]
           S  == FilesOf(j)
           outcome == [g \in S |-> fs[g].status]
           d == Counted(fs, j, "done")
           e == Counted(fs, j, "failed")
           counted == [jobs[j] EXCEPT !.processed = @ + 1]
<1>1. j \in Job /\ f \in S /\ IsFiniteSet(S)
  BY JobRowsAssumption, FilesOfFinite DEF FilesOf
<1>2. jobs \in [Job -> JobRow] /\ files \in [File -> FileRow]
  BY DEF TablesInv, RowsTypeOK
<1>3. jobs[j] \in JobRow /\ JobExists(j)
  BY <1>1, <1>2 DEF TablesInv, RowsTogether
<1>4. jobs[j].total = Cardinality(S)
  BY <1>1, <1>3 DEF TablesInv, JobsAreSized
<1>5. files' = fs /\ jobs' = [jobs EXCEPT ![j] = Stamped(counted, d, e)]
  BY DEF FileSettled, Recomputed
<1>6. counted.total = jobs[j].total /\ counted.processed = jobs[j].processed + 1
  BY <1>3 DEF JobRow
<1>7. /\ Stamped(counted, d, e).status = ComputeJobStatus(jobs[j].total, d, e)
      /\ Stamped(counted, d, e).processed = jobs[j].processed + 1
  BY <1>3 DEF Stamped, JobRow
<1>8. \A g \in S : fs[g].status \in FileStatus
  <2> SUFFICES ASSUME NEW g \in S PROVE fs[g].status \in FileStatus
    OBVIOUS
  <2>1. g \in File /\ JobOf[g] = j
    BY DEF FilesOf
  <2>2. FileExists(g) /\ files[g] \in FileRow
    BY <1>2, <1>3, <2>1 DEF TablesInv, RowsTogether
  <2>3. row.status \in FileStatus
    BY DEF FinalFile, FileStatus
  <2> QED
    BY <1>2, <2>1, <2>2, <2>3 DEF FileExists, FileRow
<1>9. outcome \in [S -> FileStatus]
  BY <1>8
<1>10. \A s : Cardinality(With(outcome, s)) = Counted(fs, j, s)
  <2> SUFFICES ASSUME NEW s
               PROVE  With(outcome, s) = {g \in S : fs[g].status = s}
    BY DEF Counted
  <2> QED
    BY DEF With
<1>11. ComputeJobStatus(Cardinality(S), Cardinality(With(outcome, "done")),
                        Cardinality(With(outcome, "failed"))) = Verdict(outcome)
  <2> HIDE DEF outcome, S
  <2> QED
    BY <1>1, <1>9, TallyIsVerdict
<1>12. jobs'[j] = Stamped(counted, d, e)
  BY <1>1, <1>2, <1>5
<1>13. jobs'[j].status = Verdict(outcome)
  <2>1. /\ Cardinality(With(outcome, "done")) = d
        /\ Cardinality(With(outcome, "failed")) = e
    BY <1>10
  <2>2. jobs'[j].status = ComputeJobStatus(Cardinality(S), d, e)
    BY <1>4, <1>7, <1>12
  <2> HIDE DEF outcome, S, d, e, j
  <2> QED
    BY <1>11, <2>1, <2>2
<1>14. outcome = [g \in FilesOf(j) |-> files'[g].status]
  BY <1>5
<1> QED
  BY <1>1, <1>2, <1>5, <1>7, <1>12, <1>13, <1>14

\* A verdict on a file that had none is counted once.
LEMMA VerdictCountsOnce ==
  ASSUME TablesInv, UndecidedIsOpen, ExistingIsCreated, ProcessedIsExact,
         UNCHANGED created, NEW f \in File, FileExists(f),
         files[f].status \notin FinalFile,
         NEW row \in FileRow, row.status \in FinalFile, FileSettled(f, row)
  PROVE  UndecidedIsOpen' /\ ExistingIsCreated' /\ ProcessedIsExact'
<1> DEFINE j == JobOf[f]
<1>1. j \in Job /\ f \in FilesOf(j)
  BY JobRowsAssumption DEF FilesOf
<1>2. /\ files' = [files EXCEPT ![f] = row]
      /\ jobs'[j].status = Verdict([g \in FilesOf(j) |-> files'[g].status])
      /\ jobs'[j].processed = jobs[j].processed + 1
      /\ \A k \in Job : k # j => jobs'[k] = jobs[k]
  BY SettledShows
<1>3. JobExists(j)
  BY <1>1 DEF TablesInv, RowsTogether
<1>4. files \in [File -> FileRow]
  BY DEF TablesInv, RowsTypeOK
<1>5. files'[f] = row /\ \A g \in File : g # f => files'[g] = files[g]
  BY <1>2, <1>4
<1>6. ExistingIsCreated'
  BY <1>2, <1>3 DEF ExistingIsCreated, JobExists
<1>7. \A k \in Job : k # j => \A g \in FilesOf(k) : files'[g] = files[g]
  BY <1>5 DEF FilesOf
<1>8. UndecidedIsOpen'
  <2> SUFFICES ASSUME NEW k \in Job, jobs'[k].status # "absent",
                      ~(\A g \in FilesOf(k) : files'[g].status \in FinalFile)
               PROVE  jobs'[k].status \in {"pending", "processing"}
    BY DEF UndecidedIsOpen, JobExists, AllFinal, FilesOf
  <2>1. CASE k = j
    <3> DEFINE outcome == [g \in FilesOf(j) |-> files'[g].status]
    <3>1. \E g \in DOMAIN outcome : outcome[g] \notin FinalFile
      BY <2>1
    <3>2. Verdict(outcome) = "processing"
      BY <3>1 DEF Verdict
    <3> QED
      BY <1>2, <2>1, <3>2
  <2>2. CASE k # j
    <3>1. jobs'[k] = jobs[k] /\ ~AllFinal(k)
      BY <1>2, <1>7, <2>2 DEF AllFinal
    <3> QED
      BY <3>1 DEF UndecidedIsOpen, JobExists
  <2> QED
    BY <2>1, <2>2
<1>9. ProcessedIsExact'
  <2> SUFFICES ASSUME NEW k \in Job, jobs'[k].status # "absent"
               PROVE  jobs'[k].processed = Cardinality(FinalsIn(files', k))
    BY DEF ProcessedIsExact, JobExists, FinalsOf, FinalsIn, FilesOf
  <2>1. CASE k = j
    <3> DEFINE F == FinalsIn(files, j)
    <3>1. IsFiniteSet(F) /\ Cardinality(F) \in Nat
      BY <1>1, FinalsCounted
    <3>2. jobs[j].processed = Cardinality(F)
      BY <1>1, <1>3 DEF ProcessedIsExact, FinalsOf, FinalsIn
    <3>3. f \notin F
      BY DEF FinalsIn
    <3>4. FinalsIn(files', j) = F \cup {f}
      BY <1>1, <1>5 DEF FinalsIn, FilesOf
    <3> HIDE DEF F
    <3>5. Cardinality(F \cup {f}) = Cardinality(F) + 1
      BY <3>1, <3>3, FS_AddElement
    <3> QED
      BY <1>2, <2>1, <3>2, <3>4, <3>5
  <2>2. CASE k # j
    <3>1. FinalsIn(files', k) = FinalsIn(files, k)
      BY <1>7, <2>2 DEF FinalsIn
    <3> QED
      BY <1>2, <2>2, <3>1 DEF ProcessedIsExact, JobExists, FinalsOf, FinalsIn
  <2> QED
    BY <2>1, <2>2
<1> QED
  BY <1>6, <1>8, <1>9

\* The start of a file that has no verdict.
LEMMA StartCountsNothing ==
  ASSUME TablesInv, UndecidedIsOpen, ExistingIsCreated, ProcessedIsExact,
         UNCHANGED created, NEW f \in File, FileExists(f),
         files[f].status \notin FinalFile, StartFile(f)
  PROVE  UndecidedIsOpen' /\ ExistingIsCreated' /\ ProcessedIsExact'
<1> DEFINE j == JobOf[f]
<1>1. j \in Job /\ f \in FilesOf(j)
  BY JobRowsAssumption DEF FilesOf
<1>2. files \in [File -> FileRow] /\ jobs \in [Job -> JobRow]
  BY DEF TablesInv, RowsTypeOK
<1>3. JobExists(j) /\ ~AllFinal(j)
  BY <1>1 DEF TablesInv, RowsTogether, AllFinal
<1>4. jobs[j].status \in {"pending", "processing"}
  BY <1>1, <1>3 DEF UndecidedIsOpen
<1>5. /\ files'[f].status = "processing"
      /\ \A g \in File : g # f => files'[g] = files[g]
  BY <1>2 DEF StartFile, FileRow
<1>6. /\ jobs'[j].status = "processing"
      /\ jobs'[j].processed = jobs[j].processed
      /\ \A k \in Job : k # j => jobs'[k] = jobs[k]
  BY <1>1, <1>2, <1>4 DEF StartFile, JobRow
<1>7. \A k \in Job : FinalsIn(files', k) = FinalsIn(files, k)
  <2> SUFFICES ASSUME NEW k \in Job, NEW g \in FilesOf(k)
               PROVE  files'[g].status \in FinalFile
                        <=> files[g].status \in FinalFile
    BY DEF FinalsIn
  <2>1. g \in File
    BY DEF FilesOf
  <2> QED
    BY <1>5, <2>1 DEF FinalFile
<1>8. ExistingIsCreated'
  BY <1>3, <1>6 DEF ExistingIsCreated, JobExists
<1>9. UndecidedIsOpen'
  <2> SUFFICES ASSUME NEW k \in Job, jobs'[k].status # "absent",
                      ~(\A g \in FilesOf(k) : files'[g].status \in FinalFile)
               PROVE  jobs'[k].status \in {"pending", "processing"}
    BY DEF UndecidedIsOpen, JobExists, AllFinal, FilesOf
  <2>1. CASE k = j
    BY <1>6, <2>1
  <2>2. CASE k # j
    <3>1. jobs'[k] = jobs[k] /\ ~AllFinal(k)
      BY <1>5, <1>6, <2>2 DEF AllFinal, FilesOf
    <3> QED
      BY <3>1 DEF UndecidedIsOpen, JobExists
  <2> QED
    BY <2>1, <2>2
<1>10. ProcessedIsExact'
  <2> SUFFICES ASSUME NEW k \in Job, jobs'[k].status # "absent"
               PROVE  jobs'[k].processed = Cardinality(FinalsIn(files', k))
    BY DEF ProcessedIsExact, JobExists, FinalsOf, FinalsIn, FilesOf
  <2>1. jobs'[k].processed = jobs[k].processed /\ JobExists(k)
    BY <1>3, <1>6 DEF JobExists
  <2> QED
    BY <1>7, <2>1 DEF ProcessedIsExact, FinalsOf, FinalsIn
<1> QED
  BY <1>8, <1>9, <1>10

\* What a step does to the tables while no message is delivered twice: no file
\* is started or decided after its verdict, and none is decided unstarted.
OnceRows ==
  \/ UNCHANGED <<jobs, files, created>>
  \/ \E j \in Job : InsertJob(j) \/ RemoveJob(j)
  \/ \E f \in File :
       /\ FileExists(f) /\ files[f].status \notin FinalFile
       /\ UNCHANGED created
       /\ \/ StartFile(f)
          \/ /\ files[f].status = "processing"
             /\ \E row \in FileRow :
                  row.status \in FinalFile /\ FileSettled(f, row)

\* The rows' part of OnceInv.
LEMMA OnceRowsKeep ==
  ASSUME TablesInv, OnceRows, UndecidedIsOpen, ExistingIsCreated,
         ProcessedIsExact
  PROVE  UndecidedIsOpen' /\ ExistingIsCreated' /\ ProcessedIsExact'
<1>0. jobs \in [Job -> JobRow] /\ files \in [File -> FileRow]
  BY DEF TablesInv, RowsTypeOK
<1>1. CASE UNCHANGED <<jobs, files, created>>
  BY <1>1 DEF UndecidedIsOpen, ExistingIsCreated, ProcessedIsExact, JobExists,
              AllFinal, FinalsOf, FilesOf
<1>2. ASSUME NEW j \in Job, InsertJob(j) \/ RemoveJob(j)
      PROVE  UndecidedIsOpen' /\ ExistingIsCreated' /\ ProcessedIsExact'
  <2>1. \A g \in FilesOf(j) : g \in File
    BY DEF FilesOf
  <2>2. \A k \in Job : k # j =>
          jobs'[k] = jobs[k] /\ \A g \in FilesOf(k) : files'[g] = files[g]
    BY <1>0, <1>2 DEF InsertJob, RemoveJob, FilesOf
  <2>3. \/ jobs'[j].status = "absent" /\ created' = created
        \/ /\ jobs'[j].status = "pending" /\ jobs'[j].processed = 0
           /\ created' = created \cup {j}
           /\ \A g \in FilesOf(j) : files'[g].status = "pending"
    <3>1. CASE RemoveJob(j)
      BY <1>0, <3>1 DEF RemoveJob, NoJobRow
    <3>2. CASE InsertJob(j)
      <4>1. /\ NewJobRow(j).status = "pending" /\ NewJobRow(j).processed = 0
            /\ NewFileRow.status = "pending"
        BY DEF NewJobRow, NoJobRow, NewFileRow, NoFileRow
      <4>2. jobs'[j] = NewJobRow(j) /\ created' = created \cup {j}
        BY <1>0, <3>2 DEF InsertJob
      <4>3. \A g \in FilesOf(j) : files'[g] = NewFileRow
        BY <2>1, <3>2 DEF InsertJob
      <4> QED
        BY <4>1, <4>2, <4>3
    <3> QED
      BY <1>2, <3>1, <3>2
  <2>4. ExistingIsCreated'
    BY <2>2, <2>3 DEF ExistingIsCreated, JobExists
  <2>5. UndecidedIsOpen'
    <3> SUFFICES ASSUME NEW k \in Job, jobs'[k].status # "absent",
                        ~(\A g \in FilesOf(k) : files'[g].status \in FinalFile)
                 PROVE  jobs'[k].status \in {"pending", "processing"}
      BY DEF UndecidedIsOpen, JobExists, AllFinal, FilesOf
    <3>1. CASE k = j
      BY <2>3, <3>1
    <3>2. CASE k # j
      BY <2>2, <3>2 DEF UndecidedIsOpen, JobExists, AllFinal
    <3> QED
      BY <3>1, <3>2
  <2>6. ProcessedIsExact'
    <3> SUFFICES ASSUME NEW k \in Job, jobs'[k].status # "absent"
                 PROVE  jobs'[k].processed = Cardinality(FinalsIn(files', k))
      BY DEF ProcessedIsExact, JobExists, FinalsOf, FinalsIn, FilesOf
    <3>1. CASE k = j
      <4>1. FinalsIn(files', j) = {}
        BY <2>3, <3>1 DEF FinalsIn, FinalFile
      <4> QED
        BY <2>3, <3>1, <4>1, FS_EmptySet
    <3>2. CASE k # j
      <4>1. FinalsIn(files', k) = FinalsIn(files, k)
        BY <2>2, <3>2 DEF FinalsIn
      <4> QED
        BY <2>2, <3>2, <4>1 DEF ProcessedIsExact, JobExists, FinalsOf, FinalsIn
    <3> QED
      BY <3>1, <3>2
  <2> QED
    BY <2>4, <2>5, <2>6
<1>3. ASSUME NEW f \in File, FileExists(f), files[f].status \notin FinalFile,
             UNCHANGED created,
             \/ StartFile(f)
             \/ \E row \in FileRow :
                  row.status \in FinalFile /\ FileSettled(f, row)
      PROVE  UndecidedIsOpen' /\ ExistingIsCreated' /\ ProcessedIsExact'
  BY <1>3, StartCountsNothing, VerdictCountsOnce
<1> QED
  BY <1>1, <1>2, <1>3 DEF OnceRows

\* A job that has ended stays as it is, or is deleted.
LEMMA EndedIsOver ==
  ASSUME TablesInv, OnceRows, UndecidedIsOpen, ExistingIsCreated,
         NEW j \in Job, jobs[j].status \in TerminalJob
  PROVE  jobs'[j].status \in {jobs[j].status, "absent"}
<1>1. jobs \in [Job -> JobRow]
  BY DEF TablesInv, RowsTypeOK
<1>2. JobExists(j) /\ j \in created /\ AllFinal(j)
  BY DEF TerminalJob, JobExists, UndecidedIsOpen, ExistingIsCreated
<1>3. ASSUME NEW k \in Job, InsertJob(k) \/ RemoveJob(k)
      PROVE  jobs'[j].status \in {jobs[j].status, "absent"}
  BY <1>1, <1>2, <1>3 DEF InsertJob, RemoveJob, NoJobRow
<1>4. ASSUME NEW f \in File, files[f].status \notin FinalFile,
             StartFile(f) \/ \E row \in FileRow : FileSettled(f, row)
      PROVE  jobs'[j].status \in {jobs[j].status, "absent"}
  <2>1. JobOf[f] # j
    BY <1>2, <1>4 DEF AllFinal, FilesOf
  <2> QED
    BY <1>1, <1>4, <2>1 DEF StartFile, FileSettled
<1> QED
  BY <1>3, <1>4 DEF OnceRows

\* A job that was deleted never comes back.
LEMMA DeletedIsOver ==
  ASSUME TablesInv, OnceRows, NEW j \in Job, j \in created, ~JobExists(j)
  PROVE  j \in created' /\ ~JobExists(j)'
<1>1. jobs \in [Job -> JobRow]
  BY DEF TablesInv, RowsTypeOK
<1>2. ASSUME NEW k \in Job, InsertJob(k) \/ RemoveJob(k)
      PROVE  j \in created' /\ ~JobExists(j)'
  BY <1>1, <1>2 DEF InsertJob, RemoveJob, NoJobRow, JobExists
<1>3. ASSUME NEW f \in File, FileExists(f), UNCHANGED created,
             StartFile(f) \/ \E row \in FileRow : FileSettled(f, row)
      PROVE  j \in created' /\ ~JobExists(j)'
  <2>1. JobOf[f] # j
    BY <1>3 DEF TablesInv, RowsTogether
  <2> QED
    BY <1>1, <1>3, <2>1 DEF StartFile, FileSettled, JobExists
<1> QED
  BY <1>2, <1>3 DEF OnceRows, JobExists

(***************************************************************************)
(* The rows implement JobContract                                          *)
(***************************************************************************)

\* The verdict on a batch of which a reader only knows that some files wait.
LEMMA VerdictOfOutcomes ==
  ASSUME NEW S, NEW v, NEW outcome, DOMAIN v = S, DOMAIN outcome = S,
         \A g \in S :
           /\ v[g] \in FileStatus
           /\ outcome[g] = IF v[g] \in {"pending", "processing"} THEN "waiting"
                                                               ELSE v[g]
  PROVE  Contract!Verdict(outcome) = Verdict(v)
<1>1. \A g \in S : /\ v[g] \notin FinalFile <=> outcome[g] \notin FinalFile
                   /\ v[g] = "done" <=> outcome[g] = "done"
                   /\ v[g] = "failed" <=> outcome[g] = "failed"
  BY DEF FinalFile, FileStatus
<1>2. /\ (\E g \in S : v[g] \notin FinalFile)
           <=> (\E g \in S : outcome[g] \notin FinalFile)
      /\ (\A g \in S : v[g] = "done") <=> (\A g \in S : outcome[g] = "done")
      /\ (\A g \in S : v[g] = "failed") <=> (\A g \in S : outcome[g] = "failed")
  BY <1>1
<1>3. Contract!FinalFile = FinalFile
  BY DEF Contract!FinalFile, FinalFile
<1> QED
  BY <1>2, <1>3 DEF Verdict, Contract!Verdict

\* A transaction of OnceRows is a step of the contract, or shows nothing new.
LEMMA OnceRowsImplement ==
  ASSUME TablesInv, TablesInv', OnceRows, UndecidedIsOpen, ExistingIsCreated
  PROVE  [Contract!CNext]_Contract!cvars
<1>0. /\ jobs \in [Job -> JobRow] /\ files \in [File -> FileRow]
      /\ jobs' \in [Job -> JobRow] /\ files' \in [File -> FileRow]
  BY DEF TablesInv, RowsTypeOK
<1>1. CASE UNCHANGED <<jobs, files, created>>
  BY <1>1 DEF Contract!cvars
<1>2. ASSUME NEW j \in Job, InsertJob(j)
      PROVE  Contract!Open(j)
  <2>1. j \notin created /\ created' = created \cup {j}
    BY <1>2 DEF InsertJob
  <2>2. Contract!Batch(j) = FilesOf(j) /\ FilesOf(j) # {}
    BY <1>2 DEF InsertJob, Contract!Batch, FilesOf
  <2>3. jobs' = [jobs EXCEPT ![j] = NewJobRow(j)]
    BY <1>2 DEF InsertJob
  <2>4. NewJobRow(j).status = "pending" /\ NewFileRow.status = "pending"
    BY DEF NewJobRow, NoJobRow, NewFileRow, NoFileRow
  <2>5. [k \in Job |-> jobs'[k].status]
          = [[k \in Job |-> jobs[k].status] EXCEPT ![j] = "pending"]
    BY <1>0, <2>3, <2>4
  <2>6. \A f \in File : files'[f] = IF f \in FilesOf(j) THEN NewFileRow
                                                        ELSE files[f]
    BY <1>2 DEF InsertJob
  <2> QED
    BY <2>1, <2>2, <2>4, <2>5, <2>6 DEF Contract!Open
<1>3. ASSUME NEW j \in Job, RemoveJob(j)
      PROVE  Contract!Withdraw(j)
  <2>1. jobs[j].status # "absent" /\ created' = created
    BY <1>3 DEF RemoveJob, JobExists
  <2>2. Contract!Batch(j) = FilesOf(j)
    BY DEF Contract!Batch, FilesOf
  <2>3. jobs' = [jobs EXCEPT ![j] = NoJobRow]
    BY <1>3 DEF RemoveJob
  <2>4. NoJobRow.status = "absent" /\ NoFileRow.status = "absent"
    BY DEF NoJobRow, NoFileRow
  <2>5. [k \in Job |-> jobs'[k].status]
          = [[k \in Job |-> jobs[k].status] EXCEPT ![j] = "absent"]
    BY <1>0, <2>3, <2>4
  <2>6. \A f \in File : files'[f] = IF f \in FilesOf(j) THEN NoFileRow
                                                        ELSE files[f]
    BY <1>3 DEF RemoveJob
  <2> QED
    BY <2>1, <2>2, <2>4, <2>5, <2>6 DEF Contract!Withdraw
<1>4. ASSUME NEW f \in File, FileExists(f), files[f].status \notin FinalFile,
             UNCHANGED created
      PROVE  /\ JobOf[f] \in Job /\ f \in FilesOf(JobOf[f])
             /\ JobExists(JobOf[f])
             /\ jobs[JobOf[f]].status \in {"pending", "processing"}
             /\ files[f].status \in {"pending", "processing"}
  <2>1. JobOf[f] \in Job /\ f \in FilesOf(JobOf[f])
    BY JobRowsAssumption DEF FilesOf
  <2>2. JobExists(JobOf[f]) /\ ~AllFinal(JobOf[f])
    BY <1>4, <2>1 DEF TablesInv, RowsTogether, AllFinal
  <2>3. files[f].status \in FileStatus
    BY <1>0, <1>4 DEF FileExists, FileRow
  <2> QED
    BY <1>0, <1>4, <2>1, <2>2, <2>3 DEF UndecidedIsOpen, FileStatus, FinalFile
<1>5. ASSUME NEW f \in File, FileExists(f), files[f].status \notin FinalFile,
             UNCHANGED created, StartFile(f)
      PROVE  Contract!Begin(JobOf[f]) \/ UNCHANGED Contract!cvars
  <2> DEFINE j == JobOf[f]
  <2>1. /\ j \in Job
        /\ jobs[j].status \in {"pending", "processing"}
        /\ files[f].status \in {"pending", "processing"}
    BY <1>4, <1>5
  <2>2. /\ jobs'[j].status = "processing"
        /\ \A k \in Job : k # j => jobs'[k] = jobs[k]
    BY <1>0, <1>5, <2>1 DEF StartFile, JobRow
  <2>3. /\ files'[f].status = "processing"
        /\ \A g \in File : g # f => files'[g] = files[g]
    BY <1>0, <1>5 DEF StartFile, FileRow
  <2>4. [g \in File |-> IF files'[g].status \in {"pending", "processing"}
                        THEN "waiting" ELSE files'[g].status]
          = [g \in File |-> IF files[g].status \in {"pending", "processing"}
                            THEN "waiting" ELSE files[g].status]
    BY <2>1, <2>3
  <2>5. [k \in Job |-> jobs'[k].status]
          = [[k \in Job |-> jobs[k].status] EXCEPT ![j] = "processing"]
    BY <2>1, <2>2
  <2>6. CASE jobs[j].status = "pending"
    BY <1>5, <2>1, <2>4, <2>5, <2>6 DEF Contract!Begin
  <2>7. CASE jobs[j].status = "processing"
    <3>1. [k \in Job |-> jobs'[k].status] = [k \in Job |-> jobs[k].status]
      BY <2>2, <2>7
    <3> QED
      BY <1>5, <2>4, <3>1 DEF Contract!cvars
  <2> QED
    BY <2>1, <2>6, <2>7
<1>6. ASSUME NEW f \in File, FileExists(f), files[f].status = "processing",
             UNCHANGED created, NEW row \in FileRow, row.status \in FinalFile,
             FileSettled(f, row)
      PROVE  Contract!Decide(f, row.status)
  <2> DEFINE j == JobOf[f]
  <2>1. /\ j \in Job /\ f \in FilesOf(j)
        /\ JobExists(j)
        /\ jobs[j].status \in {"pending", "processing"}
    <3>1. files[f].status \notin FinalFile
      BY <1>6 DEF FinalFile
    <3> QED
      BY <1>4, <1>6, <3>1
  <2>2. jobs[j].status = "processing"
    BY <1>6, <2>1 DEF TablesInv, PendingIffUntouched
  <2>3. /\ files' = [files EXCEPT ![f] = row]
        /\ jobs'[j].status = Verdict([g \in FilesOf(j) |-> files'[g].status])
        /\ \A k \in Job : k # j => jobs'[k] = jobs[k]
    BY <1>6, SettledShows
  <2>4. Contract!Batch(j) = FilesOf(j)
    BY DEF Contract!Batch, FilesOf
  <2>5. \A g \in FilesOf(j) : files'[g].status \in FileStatus
    <3> SUFFICES ASSUME NEW g \in FilesOf(j)
                 PROVE  files'[g].status \in FileStatus
      OBVIOUS
    <3>1. g \in File /\ JobOf[g] = j
      BY DEF FilesOf
    <3>2. FileExists(g) /\ files[g].status \in FileStatus
      BY <1>0, <2>1, <3>1 DEF TablesInv, RowsTogether, FileExists, FileRow
    <3> QED
      BY <1>0, <1>6, <2>3, <3>1, <3>2 DEF FinalFile, FileStatus
  <2> DEFINE seen == [g \in File |->
                        IF files'[g].status \in {"pending", "processing"}
                        THEN "waiting" ELSE files'[g].status]
             batch == [g \in FilesOf(j) |-> seen[g]]
  <2>6. jobs'[j].status = Contract!Verdict(batch)
    <3> DEFINE v == [g \in FilesOf(j) |-> files'[g].status]
    <3>1. DOMAIN batch = FilesOf(j) /\ DOMAIN v = FilesOf(j)
      OBVIOUS
    <3>2. \A g \in FilesOf(j) :
            /\ v[g] \in FileStatus
            /\ batch[g] = IF v[g] \in {"pending", "processing"} THEN "waiting"
                                                             ELSE v[g]
      BY <2>5 DEF FilesOf
    <3>3. jobs'[j].status = Verdict(v)
      BY <2>3
    <3> HIDE DEF batch, v
    <3> QED
      BY <3>1, <3>2, <3>3, VerdictOfOutcomes
  <2>7. seen = [[g \in File |-> IF files[g].status \in {"pending", "processing"}
                                THEN "waiting" ELSE files[g].status]
                 EXCEPT ![f] = row.status]
    BY <1>0, <1>6, <2>3 DEF FinalFile
  <2>8. [k \in Job |-> jobs'[k].status]
          = [[k \in Job |-> jobs[k].status] EXCEPT ![j] = Contract!Verdict(batch)]
    BY <2>1, <2>3, <2>6
  <2> QED
    BY <1>6, <2>1, <2>2, <2>4, <2>7, <2>8 DEF Contract!Decide
<1>7. ASSUME NEW f \in File, FileExists(f), files[f].status \notin FinalFile,
             UNCHANGED created,
             \/ StartFile(f)
             \/ /\ files[f].status = "processing"
                /\ \E row \in FileRow :
                     row.status \in FinalFile /\ FileSettled(f, row)
      PROVE  [Contract!CNext]_Contract!cvars
  <2>1. JobOf[f] \in Job /\ Contract!FinalFile = FinalFile
    BY JobRowsAssumption DEF Contract!FinalFile, FinalFile
  <2> QED
    BY <1>5, <1>6, <1>7, <2>1 DEF Contract!CNext
<1> QED
  BY <1>1, <1>2, <1>3, <1>7 DEF OnceRows, Contract!CNext

\* No rows, no jobs.
LEMMA RowsInitImplements == RowsInit => Contract!CInit
BY DEF RowsInit, NoJobRow, NoFileRow, Contract!CInit

=============================================================================
