-------------------------- MODULE ConversionProofs --------------------------
(***************************************************************************)
(* Theorems about Conversion, for every set of jobs, files and workers and *)
(* every retry limit.  They hold for every number of faults of every kind, *)
(* except where a hypothesis names the kinds that are left out:            *)
(* MessagesComeOnce (no message is delivered twice) and NothingIsLost.     *)
(*                                                                         *)
(* The tables are treated apart from the rest of the state: every step is  *)
(* a transaction of JobRows or leaves the rows alone, so TablesInv holds   *)
(* by JobRowsProofs; RestInv says what holds of the queue, the slots and   *)
(* the disk.  IInv is the two together.                                    *)
(***************************************************************************)
EXTENDS Conversion, JobRowsProofs

\* What everything else satisfies.
RestInv == /\ created \subseteq Job
           /\ queue \in [Message -> Nat]
           /\ workers \in [Worker -> Slot]
           /\ disk \subseteq File \X Nat
           /\ runs \in [File -> Nat]
           /\ api \in Handler
           /\ faults \in 0..MaxFaults
           /\ SlotsAreBusy

\* IInv is the two parts.
LEMMA IInvParts == IInv <=> TablesInv /\ RestInv
BY DEF IInv, TypeOK, TablesInv, RestInv

\* The three transactions of a task are transactions of JobRows, whichever order
\* the tasks run them in and whether or not the worker sees the reply.
LEMMA TaskOnRows ==
  ASSUME RestInv, TablesInv, NEW w \in Worker,
         Load(w) \/ RecordFailure(w) \/ RecordSuccess(w)
  PROVE  [RowsNext]_rows
<1> DEFINE f == workers[w].file
<1>1. f \in File /\ workers[w].doc \in Nat
  BY DEF RestInv, SlotsAreBusy, Slot, Load, RecordFailure, RecordSuccess
<1>2. UNCHANGED created
  BY DEF Load, RecordFailure, RecordSuccess
<1>3. CASE UNCHANGED <<jobs, files>>
  BY <1>2, <1>3 DEF rows
<1>4. CASE FileExists(f) /\ StartFile(f)
  BY <1>1, <1>2, <1>4 DEF RowsNext
<1>5. CASE FileExists(f) /\ FailFile(f)
  BY <1>1, <1>2, <1>5 DEF RowsNext
<1>6. CASE FileExists(f) /\ CompleteFile(f, workers[w].doc)
  <2>1. files'[f].output = workers[w].doc
    BY <1>1, <1>6 DEF CompleteFile, FileSettled, TablesInv, RowsTypeOK, FileRow
  <2>2. CompleteFile(f, files'[f].output)
    BY <1>6, <2>1
  <2> QED
    BY <1>1, <1>2, <1>6, <2>1, <2>2 DEF RowsNext
<1> QED
  BY <1>3, <1>4, <1>5, <1>6 DEF Load, RecordFailure, RecordSuccess

\* Every step of the system moves the tables by one transaction of JobRows, or
\* leaves them alone.
LEMMA StepOnRows ==
  ASSUME RestInv, TablesInv, [Next]_vars
  PROVE  [RowsNext]_rows
<1>1. ASSUME NEW j \in Job, CreateJob(j) \/ DeleteJob(j)
      PROVE  [RowsNext]_rows
  BY <1>1 DEF CreateJob, DeleteJob, RowsNext
<1>2. CASE ApiStep \/ HandlerDies \/ Evict \/ UNCHANGED vars
  BY <1>2 DEF ApiStep, Dispatch, Unlink, HandlerDies, Evict, vars, rows
<1>3. ASSUME NEW w \in Worker, Receive(w) \/ WorkerFault(w)
      PROVE  [RowsNext]_rows
  BY <1>3 DEF Receive, WorkerFault, ConvertBlowsUp, ConnectionLost, WorkerLost,
              BrokerLost, TimeLimit, rows
<1>4. ASSUME NEW w \in Worker, TaskStep(w)
      PROVE  [RowsNext]_rows
  <2>1. CASE Load(w) \/ RecordFailure(w) \/ RecordSuccess(w)
    BY <2>1, TaskOnRows
  <2>2. CASE \/ Validate(w) \/ ConvertOk(w) \/ ConvertFails(w)
             \/ PublishRetry(w) \/ Ack(w)
    BY <2>2 DEF Validate, ConvertOk, ConvertFails, PublishRetry, Ack, rows
  <2> QED
    BY <1>4, <2>1, <2>2 DEF TaskStep
<1> QED
  BY <1>1, <1>2, <1>3, <1>4 DEF Next

\* A fault stays within the bound, and so does a step without one.
LEMMA FaultsBounded ==
  ASSUME RestInv, (\E k \in AllFaults : Fault(k)) \/ UNCHANGED faults
  PROVE  faults' \in 0..MaxFaults
BY ConversionAssumption DEF RestInv, Fault

\* The workers after a slot has moved.
LEMMA SlotMoves ==
  ASSUME RestInv, NEW w \in Worker, workers[w].file \in File,
         NEW s \in Step, NEW d \in Nat,
         workers' = [workers EXCEPT ![w].pc = s, ![w].doc = d]
  PROVE  workers' \in [Worker -> Slot] /\ SlotsAreBusy'
<1>1. workers[w] \in Slot
  BY DEF RestInv
<1>2. [workers[w] EXCEPT !.pc = s, !.doc = d] \in Slot
  BY <1>1 DEF Slot
<1>3. workers' = [workers EXCEPT ![w] = [workers[w] EXCEPT !.pc = s, !.doc = d]]
  OBVIOUS
<1>4. workers' \in [Worker -> Slot]
  BY <1>2, <1>3 DEF RestInv
<1>5. workers'[w].file = workers[w].file
  BY <1>1, <1>3 DEF RestInv, Slot
<1>6. \A x \in Worker : x # w => workers'[x] = workers[x]
  BY <1>3 DEF RestInv
<1>7. SlotsAreBusy'
  BY <1>5, <1>6 DEF RestInv, SlotsAreBusy
<1> QED
  BY <1>4, <1>7

\* The workers after a slot has been freed.
LEMMA SlotFreed ==
  ASSUME RestInv, NEW w \in Worker,
         workers' = [workers EXCEPT ![w] = IdleSlot]
  PROVE  workers' \in [Worker -> Slot] /\ SlotsAreBusy'
<1>1. IdleSlot \in Slot
  BY ConversionAssumption DEF IdleSlot, Slot, Step
<1> QED
  BY <1>1 DEF RestInv, SlotsAreBusy, IdleSlot

\* Publishing a message leaves a queue.
LEMMA QueueGrows ==
  ASSUME RestInv, NEW m
  PROVE  [queue EXCEPT ![m] = @ + 1] \in [Message -> Nat]
<1> DEFINE q == [queue EXCEPT ![m] = @ + 1]
<1>1. queue \in [Message -> Nat]
  BY DEF RestInv
<1>2. \A x \in Message : q[x] \in Nat
  <2>1. SUFFICES ASSUME NEW x \in Message PROVE q[x] \in Nat
    OBVIOUS
  <2>2. queue[x] \in Nat
    BY <1>1
  <2>3. q[x] = queue[x] \/ q[x] = queue[x] + 1
    BY <1>1
  <2> QED
    BY <2>2, <2>3
<1>3. q = [x \in Message |-> q[x]]
  BY <1>1
<1> QED
  BY <1>2, <1>3

\* Every step of a task, and every fault that strikes one, keeps the queue,
\* the slots and the disk well-formed.
LEMMA TaskKeepsRest ==
  ASSUME RestInv, TablesInv, NEW w \in Worker, TaskStep(w) \/ WorkerFault(w)
  PROVE  RestInv'
<1> DEFINE f == workers[w].file
<1>1. workers[w].pc # "idle" => f \in File
  BY DEF RestInv, SlotsAreBusy
<1>2. /\ workers[w] \in Slot
      /\ workers[w].doc \in Nat
      /\ workers[w].retries \in 0..MaxRetries
  BY DEF RestInv, Slot
<1>3. AfterRetryable(w) \in Step
  BY DEF AfterRetryable, Step
<1>4. ASSUME NEW step \in Step, GoTo(w, step), f \in File
      PROVE  workers' \in [Worker -> Slot] /\ SlotsAreBusy'
  <2>1. workers' = [workers EXCEPT ![w].pc = step, ![w].doc = 0]
    BY <1>4 DEF GoTo
  <2> QED
    BY <1>4, <2>1, SlotMoves
<1>5. ASSUME NEW step \in Step, Committed(w, step), f \in File
      PROVE  /\ workers' \in [Worker -> Slot] /\ SlotsAreBusy'
             /\ faults' \in 0..MaxFaults
  <2>1. CASE GoTo(w, step) /\ UNCHANGED faults
    BY <1>4, <1>5, <2>1, FaultsBounded
  <2>2. CASE Fault("ambiguous") /\ GoTo(w, AfterRetryable(w))
    BY <1>3, <1>4, <1>5, <2>2, FaultsBounded DEF AllFaults
  <2> QED
    BY <1>5, <2>1, <2>2 DEF Committed
<1>6. ASSUME f \in File, WriteOutput(f)
      PROVE  runs' \in [File -> Nat] /\ disk' \subseteq File \X Nat
  <2>1. runs[f] \in Nat
    BY <1>6 DEF RestInv
  <2> QED
    BY <1>6, <2>1 DEF RestInv, WriteOutput
<1>7. Requeued(w) \in [Message -> Nat]
  BY QueueGrows DEF RestInv, Requeued
<1>8. CASE Load(w)
  <2>1. f \in File
    BY <1>1, <1>8 DEF Load
  <2>2. CASE GoTo(w, "ack") /\ UNCHANGED faults
    BY <1>4, <1>8, <2>1, <2>2, FaultsBounded DEF Load, RestInv, Step
  <2>3. CASE Committed(w, "validate")
    BY <1>5, <1>8, <2>1, <2>3 DEF Load, RestInv, Step
  <2> QED
    BY <1>8, <2>2, <2>3 DEF Load
<1>9. CASE Validate(w)
  <2>1. f \in File
    BY <1>1, <1>9 DEF Validate
  <2> DEFINE step == IF <<f, 0>> \in disk THEN "convert" ELSE "fail"
  <2>2. step \in Step /\ GoTo(w, step)
    BY <1>9 DEF Validate, Step
  <2>3. workers' \in [Worker -> Slot] /\ SlotsAreBusy'
    BY <1>4, <2>1, <2>2
  <2> QED
    BY <1>9, <2>3, FaultsBounded DEF Validate, RestInv
<1>10. CASE ConvertOk(w)
  <2>1. f \in File /\ runs[f] + 1 \in Nat
    BY <1>1, <1>10 DEF ConvertOk, RestInv
  <2>2. workers' = [workers EXCEPT ![w].pc = "complete", ![w].doc = runs[f] + 1]
    BY <1>10 DEF ConvertOk
  <2>3. workers' \in [Worker -> Slot] /\ SlotsAreBusy'
    BY <2>1, <2>2, SlotMoves DEF Step
  <2> QED
    BY <1>6, <1>10, <2>1, <2>3, FaultsBounded DEF ConvertOk, RestInv
<1>11. CASE ConvertFails(w)
  <2>1. f \in File /\ GoTo(w, "fail")
    BY <1>1, <1>11 DEF ConvertFails
  <2>2. workers' \in [Worker -> Slot] /\ SlotsAreBusy'
    BY <1>4, <2>1 DEF Step
  <2>3. runs' \in [File -> Nat] /\ disk' \subseteq File \X Nat
    BY <1>6, <1>11, <2>1 DEF ConvertFails, RestInv
  <2>4. faults' \in 0..MaxFaults
    BY <1>11, FaultsBounded DEF ConvertFails, AllFaults
  <2> QED
    BY <1>11, <2>2, <2>3, <2>4 DEF ConvertFails, RestInv
<1>12. CASE RecordFailure(w)
  <2>1. f \in File
    BY <1>1, <1>12 DEF RecordFailure
  <2>2. CASE GoTo(w, "ack") /\ UNCHANGED faults
    BY <1>4, <1>12, <2>1, <2>2, FaultsBounded DEF RecordFailure, RestInv, Step
  <2>3. CASE Committed(w, "ack")
    BY <1>5, <1>12, <2>1, <2>3 DEF RecordFailure, RestInv, Step
  <2> QED
    BY <1>12, <2>2, <2>3 DEF RecordFailure
<1>13. CASE RecordSuccess(w)
  <2>1. f \in File
    BY <1>1, <1>13 DEF RecordSuccess
  <2>2. CASE GoTo(w, "ack") /\ UNCHANGED faults
    BY <1>4, <1>13, <2>1, <2>2, FaultsBounded DEF RecordSuccess, RestInv, Step
  <2>3. CASE Committed(w, "ack")
    BY <1>5, <1>13, <2>1, <2>3 DEF RecordSuccess, RestInv, Step
  <2> QED
    BY <1>13, <2>2, <2>3 DEF RecordSuccess
<1>14. CASE PublishRetry(w)
  <2>1. f \in File /\ GoTo(w, "ack")
    BY <1>1, <1>14 DEF PublishRetry
  <2>2. queue' \in [Message -> Nat]
    BY <1>14 DEF PublishRetry, RestInv
  <2>3. faults' \in 0..MaxFaults
    BY <1>14, FaultsBounded DEF PublishRetry, AllFaults
  <2>4. workers' \in [Worker -> Slot] /\ SlotsAreBusy'
    BY <1>4, <2>1 DEF Step
  <2> QED
    BY <1>14, <2>2, <2>3, <2>4 DEF PublishRetry, RestInv
<1>15. CASE Ack(w)
  BY <1>15, SlotFreed, FaultsBounded DEF Ack, RestInv
<1>16. CASE ConvertBlowsUp(w) \/ ConnectionLost(w) \/ TimeLimit(w)
  <2>1. f \in File
    BY <1>1, <1>16 DEF ConvertBlowsUp, ConnectionLost, TimeLimit
  <2>2. GoTo(w, "ack") \/ GoTo(w, AfterRetryable(w))
    BY <1>16 DEF ConvertBlowsUp, ConnectionLost, TimeLimit
  <2>3. workers' \in [Worker -> Slot] /\ SlotsAreBusy'
    BY <1>3, <1>4, <2>1, <2>2 DEF Step
  <2>4. faults' \in 0..MaxFaults
    BY <1>16, FaultsBounded
       DEF ConvertBlowsUp, ConnectionLost, TimeLimit, AllFaults
  <2> QED
    BY <1>16, <2>3, <2>4 DEF ConvertBlowsUp, ConnectionLost, TimeLimit, RestInv
<1>17. CASE WorkerLost(w)
  <2>1. faults' \in 0..MaxFaults
    BY <1>17, FaultsBounded DEF WorkerLost, AllFaults
  <2>2. workers' \in [Worker -> Slot] /\ SlotsAreBusy'
    BY <1>17, SlotFreed DEF WorkerLost
  <2> QED
    BY <1>7, <1>17, <2>1, <2>2 DEF WorkerLost, RestInv
<1>18. CASE BrokerLost(w)
  <2>1. faults' \in 0..MaxFaults
    BY <1>18, FaultsBounded DEF BrokerLost, AllFaults
  <2>2. workers' = [workers EXCEPT ![w] = [workers[w] EXCEPT !.held = FALSE]]
    BY <1>18 DEF BrokerLost
  <2>3. [workers[w] EXCEPT !.held = FALSE] \in Slot
    BY <1>2 DEF Slot
  <2>4. workers' \in [Worker -> Slot]
    BY <2>2, <2>3 DEF RestInv
  <2>5. \A x \in Worker : /\ workers'[x].pc = workers[x].pc
                          /\ workers'[x].file = workers[x].file
    BY <1>2, <2>2 DEF RestInv, Slot
  <2>6. SlotsAreBusy'
    BY <2>5 DEF RestInv, SlotsAreBusy
  <2> QED
    BY <1>7, <1>18, <2>1, <2>4, <2>6 DEF BrokerLost, RestInv
<1> QED
  BY <1>8, <1>9, <1>10, <1>11, <1>12, <1>13, <1>14, <1>15, <1>16, <1>17, <1>18
     DEF TaskStep, WorkerFault

\* The other steps: a message taken from the queue, the API process, Redis.
LEMMA OthersKeepRest ==
  ASSUME RestInv, TablesInv,
         \/ \E j \in Job : CreateJob(j) \/ DeleteJob(j)
         \/ ApiStep
         \/ \E w \in Worker : Receive(w)
         \/ HandlerDies
         \/ Evict
  PROVE  RestInv'
<1>1. ASSUME NEW j \in Job, CreateJob(j)
      PROVE  RestInv'
  BY <1>1 DEF CreateJob, InsertJob, RestInv, SlotsAreBusy, FilesOf, Handler
<1>2. ASSUME NEW j \in Job, DeleteJob(j)
      PROVE  RestInv'
  <2> DEFINE paths == {p \in FilesOf(j) \X {0} : p[1] \notin Escaping}
                      \cup {<<f, files[f].output>> :
                              f \in {g \in FilesOf(j) : files[g].output # 0}}
  <2>1. \A f \in FilesOf(j) : f \in File /\ files[f].output \in Nat
    BY DEF TablesInv, RowsTypeOK, FileRow, FilesOf
  <2>2. paths \subseteq File \X Nat
    BY <2>1
  <2>3. api' = [api EXCEPT !.unlink = paths]
    BY <1>2 DEF DeleteJob
  <2>4. api' \in Handler
    BY <2>2, <2>3 DEF RestInv, Handler
  <2> QED
    BY <1>2, <2>4 DEF DeleteJob, RemoveJob, RestInv, SlotsAreBusy
<1>3. ASSUME NEW f \in File, Dispatch(f)
      PROVE  RestInv'
  <2>1. queue' \in [Message -> Nat]
    BY <1>3, QueueGrows DEF Dispatch
  <2>2. api' \in Handler
    BY <1>3 DEF Dispatch, RestInv, Handler
  <2> QED
    BY <1>3, <2>1, <2>2 DEF Dispatch, RestInv, SlotsAreBusy
<1>4. ASSUME NEW p \in api.unlink, Unlink(p)
      PROVE  RestInv'
  <2>1. faults' \in 0..MaxFaults
    BY <1>4, FaultsBounded DEF Unlink, AllFaults
  <2>2. api' \in Handler
    BY <1>4 DEF Unlink, RestInv, Handler
  <2> QED
    BY <1>4, <2>1, <2>2 DEF Unlink, RestInv, SlotsAreBusy
<1>5. ASSUME NEW w \in Worker, Receive(w)
      PROVE  RestInv'
  <2>1. PICK m \in Message :
          /\ queue[m] > 0
          /\ queue' = [queue EXCEPT ![m] = @ - 1]
          /\ workers' = [workers EXCEPT ![w] =
               [pc |-> "load", file |-> m.file, retries |-> m.retries,
                held |-> TRUE, doc |-> 0]]
    BY <1>5 DEF Receive
  <2>2. queue' \in [Message -> Nat]
    BY <2>1 DEF RestInv
  <2>3. [pc |-> "load", file |-> m.file, retries |-> m.retries,
         held |-> TRUE, doc |-> 0] \in Slot
    BY DEF Slot, Step, Message
  <2>4. workers' \in [Worker -> Slot]
    BY <2>1, <2>3 DEF RestInv
  <2>5. SlotsAreBusy'
    BY <2>1 DEF RestInv, SlotsAreBusy, Message
  <2> QED
    BY <1>5, <2>2, <2>4, <2>5 DEF Receive, RestInv
<1>6. ASSUME HandlerDies
      PROVE  RestInv'
  <2>1. faults' \in 0..MaxFaults
    BY <1>6, FaultsBounded DEF HandlerDies, AllFaults
  <2> QED
    BY <1>6, <2>1
       DEF HandlerDies, RestInv, SlotsAreBusy, NoHandler, Handler
<1>7. ASSUME Evict
      PROVE  RestInv'
  <2>1. faults' \in 0..MaxFaults
    BY <1>7, FaultsBounded DEF Evict, AllFaults
  <2>2. queue' \in [Message -> Nat]
    BY <1>7 DEF Evict, RestInv
  <2> QED
    BY <1>7, <2>1, <2>2 DEF Evict, RestInv, SlotsAreBusy
<1> QED
  BY <1>1, <1>2, <1>3, <1>4, <1>5, <1>6, <1>7 DEF ApiStep

LEMMA InitEstablishesIInv == Init => IInv
<1> SUFFICES ASSUME Init PROVE IInv
  OBVIOUS
<1>1. TablesInv
  BY RowsInitConsistent DEF Init
<1>2. RestInv
  BY ConversionAssumption
     DEF Init, RowsInit, RestInv, NoHandler, Handler, IdleSlot, Slot, Step,
         SlotsAreBusy
<1> QED
  BY <1>1, <1>2, IInvParts

LEMMA NextKeepsIInv == IInv /\ [Next]_vars => IInv'
<1> SUFFICES ASSUME TablesInv, RestInv, [Next]_vars
             PROVE  TablesInv' /\ RestInv'
  <2>1. IInv' <=> TablesInv' /\ RestInv'
    BY IInvParts, PTL
  <2> QED
    BY <2>1, IInvParts
<1>1. TablesInv'
  BY StepOnRows, RowsStepKeeps
<1>2. ASSUME \/ \E j \in Job : CreateJob(j) \/ DeleteJob(j)
             \/ ApiStep \/ HandlerDies \/ Evict
             \/ \E w \in Worker : Receive(w)
      PROVE  RestInv'
  BY <1>2, OthersKeepRest
<1>3. ASSUME NEW w \in Worker, TaskStep(w) \/ WorkerFault(w)
      PROVE  RestInv'
  BY <1>3, TaskKeepsRest
<1>4. CASE UNCHANGED vars
  <2>1. UNCHANGED <<created, queue, workers, disk, runs, api, faults>>
    BY <1>4 DEF vars
  <2> QED
    BY <1>1, <2>1 DEF RestInv, SlotsAreBusy
<1> QED
  BY <1>1, <1>2, <1>3, <1>4 DEF Next

\* The inductive invariant holds throughout.
THEOREM Consistent == Spec => []IInv
BY InitEstablishesIInv, NextKeepsIInv, PTL DEF Spec

\* Type correctness of every variable.
THEOREM TypeCorrect == Spec => []TypeOK
<1>1. IInv => TypeOK
  BY DEF IInv
<1> QED
  BY <1>1, Consistent, PTL

\* Whatever the queue, the workers and the faults do, the tables only ever move
\* by whole transactions of services/jobs.py.
THEOREM MovesByTransactions == Spec => RowsSpec
<1>1. Init => RowsInit
  BY DEF Init
<1>2. IInv /\ [Next]_vars => [RowsNext]_rows
  BY IInvParts, StepOnRows
<1> QED
  BY <1>1, <1>2, Consistent, PTL DEF Spec, RowsSpec

\* A job is pending exactly while none of its files has been started.
THEOREM PendingIsExact == Spec => []PendingIffUntouched
<1>1. IInv => PendingIffUntouched
  BY DEF IInv, TablesInv
<1> QED
  BY <1>1, Consistent, PTL

\* Once every file of a job has its verdict, the job shows the verdict on the
\* batch: whatever is redelivered, retried, killed or deleted meanwhile.
THEOREM StatusIsVerdict == Spec => []StatusMatchesTally
<1>1. IInv => StatusMatchesTally
  BY TablesGiveVerdict DEF IInv
<1> QED
  BY <1>1, Consistent, PTL

\* A job that has ended is stamped, and says so when a file of it failed.
THEOREM TerminalJobsAreStamped == Spec => []TerminalIsStamped
<1>1. IInv => TerminalIsStamped
  BY DEF IInv, TablesInv
<1> QED
  BY <1>1, Consistent, PTL

\* No verdict goes uncounted, however often a file is converted.
THEOREM NoVerdictUncounted == Spec => []CounterCoversFinals
<1>1. IInv => CounterCoversFinals
  BY DEF IInv, TablesInv
<1> QED
  BY <1>1, Consistent, PTL

(***************************************************************************)
(* What the rows say is on disk: RowsPointAtDisk, from DiskInv.            *)
(***************************************************************************)

\* Rows and files stay together when a step leaves both alone, or only adds to
\* the disk.
LEMMA DiskGrows ==
  ASSUME DiskInv, UNCHANGED files, disk \subseteq disk'
  PROVE  RowsPointAtDisk'
BY DEF DiskInv, RowsPointAtDisk, FileExists

\* A queue that lost messages, or got one about a file of a created job.
LEMMA QueueIsKnown ==
  ASSUME RestInv, WorkIsKnown, UNCHANGED created, NEW m,
         \/ queue' = queue
         \/ queue' = [queue EXCEPT ![m] = @ - 1]
         \/ queue' = [queue EXCEPT ![m] = @ + 1] /\ JobOf[m.file] \in created
  PROVE  \A x \in Message : queue'[x] > 0 => JobOf[x.file] \in created'
<1> SUFFICES ASSUME NEW x \in Message, queue'[x] > 0
             PROVE  JobOf[x.file] \in created
  OBVIOUS
<1>1. queue \in [Message -> Nat] /\ queue[x] \in Nat
  BY DEF RestInv
<1>2. CASE x # m
  BY <1>1, <1>2 DEF WorkIsKnown
<1>3. CASE x = m /\ queue' = [queue EXCEPT ![m] = @ - 1]
  <2>1. queue[x] > 0
    BY <1>1, <1>3
  <2> QED
    BY <2>1 DEF WorkIsKnown
<1>4. CASE x = m /\ queue' = queue
  BY <1>4 DEF WorkIsKnown
<1> QED
  BY <1>2, <1>3, <1>4

\* A slot that moves without an output to record, the others staying put.
LEMMA SlotsAreKnown ==
  ASSUME WorkIsKnown, DocsOnDisk, SlotsAreBusy, UNCHANGED created,
         NEW w \in Worker,
         \A x \in Worker : x # w => workers'[x] = workers[x],
         workers'[w].pc # "idle" => JobOf[workers'[w].file] \in created,
         workers'[w].pc # "complete",
         \A f \in File : files'[f].status # "absent" => FileExists(f),
         disk \subseteq disk'
  PROVE  /\ \A x \in Worker : workers'[x].pc # "idle" =>
              JobOf[workers'[x].file] \in created'
         /\ DocsOnDisk'
<1>1. \A x \in Worker : workers'[x].pc # "idle" =>
         JobOf[workers'[x].file] \in created'
  BY DEF WorkIsKnown
<1>2. ASSUME NEW x \in Worker, workers'[x].pc = "complete",
             files'[workers'[x].file].status # "absent"
      PROVE  /\ workers'[x].doc # 0
             /\ <<workers'[x].file, workers'[x].doc>> \in disk'
  <2>1. x # w /\ workers'[x] = workers[x]
    BY <1>2
  <2>2. workers[x].file \in File
    BY <1>2, <2>1 DEF SlotsAreBusy
  <2>3. FileExists(workers[x].file)
    BY <1>2, <2>1, <2>2
  <2> QED
    BY <1>2, <2>1, <2>3 DEF DocsOnDisk
<1> QED
  BY <1>1, <1>2 DEF DocsOnDisk, FileExists

\* What a step of a task does to the rows: none appears, and those there are
\* keep pointing at the disk.
LEMMA TaskRowsOnDisk ==
  ASSUME RestInv, TablesInv, DiskInv, NEW w \in Worker,
         TaskStep(w) \/ WorkerFault(w)
  PROVE  /\ UNCHANGED <<created, api>>
         /\ disk \subseteq disk'
         /\ \A g \in File : files'[g].status # "absent" => FileExists(g)
         /\ RowsPointAtDisk'
<1> DEFINE f == workers[w].file
<1>1. workers[w].pc # "idle" => f \in File
  BY DEF RestInv, SlotsAreBusy
<1>2. UNCHANGED <<created, api>> /\ disk \subseteq disk'
  BY DEF TaskStep, WorkerFault, Load, Validate, ConvertOk, ConvertFails,
         RecordFailure, RecordSuccess, PublishRetry, Ack, ConvertBlowsUp,
         ConnectionLost, WorkerLost, BrokerLost, TimeLimit, WriteOutput
<1>3. CASE UNCHANGED files
  BY <1>2, <1>3, DiskGrows DEF FileExists
<1>4. ASSUME f \in File, FileExists(f), UNCHANGED disk,
             NEW row, row.status # "absent",
             files' = [files EXCEPT ![f] = row],
             row.output # 0 => <<f, row.output>> \in disk,
             row.status = "done" => row.output # 0
      PROVE  /\ \A g \in File : files'[g].status # "absent" => FileExists(g)
             /\ RowsPointAtDisk'
  <2>1. files \in [File -> FileRow]
    BY DEF TablesInv, RowsTypeOK
  <2>2. \A g \in File : g # f => files'[g] = files[g]
    BY <1>4, <2>1
  <2>3. files'[f] = row
    BY <1>4, <2>1
  <2>4. ASSUME NEW g \in File, files'[g].status # "absent"
        PROVE  /\ FileExists(g)
               /\ <<g, 0>> \in disk'
               /\ files'[g].output # 0 => <<g, files'[g].output>> \in disk'
               /\ files'[g].status = "done" => files'[g].output # 0
    <3>1. FileExists(g)
      BY <1>4, <2>2, <2>4 DEF FileExists
    <3>2. CASE g = f
      <4>1. <<f, 0>> \in disk
        BY <1>4 DEF DiskInv, RowsPointAtDisk
      <4>2. files'[g] = row /\ <<g, 0>> \in disk'
        BY <1>4, <2>3, <3>2, <4>1
      <4>3. row.output # 0 => <<g, row.output>> \in disk'
        BY <1>4, <3>2
      <4> QED
        BY <1>4, <3>1, <4>2, <4>3
    <3>3. CASE g # f
      BY <1>4, <2>2, <3>1, <3>3 DEF DiskInv, RowsPointAtDisk
    <3> QED
      BY <3>1, <3>2, <3>3
  <2> QED
    BY <2>4 DEF RowsPointAtDisk, FileExists
<1>5. files[f] \in FileRow \/ f \notin File
  BY DEF TablesInv, RowsTypeOK
<1>6. CASE Load(w) /\ FileExists(f) /\ StartFile(f)
  <2> DEFINE row == [files[f] EXCEPT !.status = "processing"]
  <2>1. f \in File /\ UNCHANGED disk
    BY <1>1, <1>6 DEF Load
  <2>2. row.status = "processing" /\ row.output = files[f].output
    BY <1>5, <2>1 DEF FileRow
  <2>3. row.output # 0 => <<f, row.output>> \in disk
    BY <1>6, <2>1, <2>2 DEF DiskInv, RowsPointAtDisk
  <2>4. files' = [files EXCEPT ![f] = row]
    BY <1>6 DEF StartFile
  <2>5. row.status # "absent" /\ row.status # "done"
    BY <2>2
  <2> HIDE DEF row
  <2> QED
    BY <1>2, <1>4, <1>6, <2>1, <2>3, <2>4, <2>5
<1>7. CASE RecordFailure(w) /\ FileExists(f) /\ FailFile(f)
  <2> DEFINE row == [files[f] EXCEPT !.status = "failed", !.error = TRUE]
  <2>1. f \in File /\ UNCHANGED disk
    BY <1>1, <1>7 DEF RecordFailure
  <2>2. row.status = "failed" /\ row.output = files[f].output
    BY <1>5, <2>1 DEF FileRow
  <2>3. row.output # 0 => <<f, row.output>> \in disk
    BY <1>7, <2>1, <2>2 DEF DiskInv, RowsPointAtDisk
  <2>4. files' = [files EXCEPT ![f] = row]
    BY <1>7 DEF FailFile, FileSettled
  <2>5. row.status # "absent" /\ row.status # "done"
    BY <2>2
  <2> HIDE DEF row
  <2> QED
    BY <1>2, <1>4, <1>7, <2>1, <2>3, <2>4, <2>5
<1>8. CASE RecordSuccess(w) /\ FileExists(f) /\ CompleteFile(f, workers[w].doc)
  <2> DEFINE row == [files[f] EXCEPT !.status = "done",
                                     !.output = workers[w].doc]
  <2>1. f \in File /\ UNCHANGED disk
    BY <1>1, <1>8 DEF RecordSuccess
  <2>2. row.status = "done" /\ row.output = workers[w].doc
    BY <1>5, <2>1 DEF FileRow
  <2>3. row.output # 0 /\ <<f, row.output>> \in disk
    BY <1>8, <2>1, <2>2 DEF DiskInv, DocsOnDisk, RecordSuccess
  <2>4. files' = [files EXCEPT ![f] = row]
    BY <1>8 DEF CompleteFile, FileSettled
  <2>5. row.status # "absent"
    BY <2>2
  <2> HIDE DEF row
  <2> QED
    BY <1>2, <1>4, <1>8, <2>1, <2>3, <2>4, <2>5
<1>9. \/ UNCHANGED files
      \/ Load(w) /\ FileExists(f) /\ StartFile(f)
      \/ RecordFailure(w) /\ FileExists(f) /\ FailFile(f)
      \/ RecordSuccess(w) /\ FileExists(f) /\ CompleteFile(f, workers[w].doc)
  BY DEF TaskStep, WorkerFault, Load, Validate, ConvertOk, ConvertFails,
         RecordFailure, RecordSuccess, PublishRetry, Ack, ConvertBlowsUp,
         ConnectionLost, WorkerLost, BrokerLost, TimeLimit
<1> QED
  BY <1>3, <1>6, <1>7, <1>8, <1>9

\* What a step of a task does to the slots and the queue: it stays a task of a
\* created job, and an output waiting to be recorded is on disk.
LEMMA TaskSlotsKnown ==
  ASSUME RestInv, TablesInv, DiskInv, NEW w \in Worker,
         TaskStep(w) \/ WorkerFault(w)
  PROVE  WorkIsKnown' /\ DocsOnDisk'
<1> DEFINE f == workers[w].file
<1>1. /\ workers \in [Worker -> Slot]
      /\ workers[w] \in Slot
      /\ SlotsAreBusy /\ WorkIsKnown /\ DocsOnDisk
  BY DEF RestInv, DiskInv
<1>2. /\ UNCHANGED <<created, api>>
      /\ disk \subseteq disk'
      /\ \A g \in File : files'[g].status # "absent" => FileExists(g)
  BY TaskRowsOnDisk
<1>3. workers[w].pc # "idle"
  BY DEF TaskStep, WorkerFault, Load, Validate, ConvertOk, ConvertFails,
         RecordFailure, RecordSuccess, PublishRetry, Ack, ConvertBlowsUp,
         ConnectionLost, WorkerLost, BrokerLost, TimeLimit
<1>4. f \in File /\ JobOf[f] \in created
  BY <1>1, <1>3 DEF SlotsAreBusy, WorkIsKnown
<1>5. \A g \in api'.dispatch : JobOf[g] \in created'
  BY <1>1, <1>2 DEF WorkIsKnown
<1>6. \A x \in Message : queue'[x] > 0 => JobOf[x.file] \in created'
  <2> DEFINE again == [file |-> f, retries |-> workers[w].retries]
             next  == [file |-> f, retries |-> workers[w].retries + 1]
  <2>1. CASE queue' = queue
    BY <1>1, <1>2, <2>1 DEF WorkIsKnown
  <2>2. CASE queue' = [queue EXCEPT ![again] = @ + 1]
    BY <1>1, <1>2, <1>4, <2>2, QueueIsKnown
  <2>3. CASE queue' = [queue EXCEPT ![next] = @ + 1]
    BY <1>1, <1>2, <1>4, <2>3, QueueIsKnown
  <2> QED
    BY <2>1, <2>2, <2>3
       DEF TaskStep, WorkerFault, Load, Validate, ConvertOk, ConvertFails,
           RecordFailure, RecordSuccess, PublishRetry, Ack, ConvertBlowsUp,
           ConnectionLost, WorkerLost, BrokerLost, TimeLimit, Requeued
<1> DEFINE SlotsKnown == /\ \A x \in Worker : workers'[x].pc # "idle" =>
                              JobOf[workers'[x].file] \in created'
                         /\ DocsOnDisk'
<1>7. ASSUME NEW s, GoTo(w, s), s # "complete"
      PROVE  SlotsKnown
  <2>1. /\ workers'[w].pc = s
        /\ workers'[w].file = f
        /\ \A x \in Worker : x # w => workers'[x] = workers[x]
    BY <1>1, <1>7 DEF GoTo, Slot
  <2> QED
    BY <1>1, <1>2, <1>4, <1>7, <2>1, SlotsAreKnown
<1>8. CASE workers' = [workers EXCEPT ![w] = IdleSlot]
  <2>1. /\ workers'[w].pc = "idle"
        /\ \A x \in Worker : x # w => workers'[x] = workers[x]
    BY <1>1, <1>8 DEF IdleSlot
  <2>2. SlotsKnown
    BY <1>1, <1>2, <2>1, SlotsAreKnown
  <2> QED
    BY <1>5, <1>6, <2>2 DEF WorkIsKnown
<1>9. CASE BrokerLost(w)
  <2>1. \A x \in Worker : /\ workers'[x].pc = workers[x].pc
                          /\ workers'[x].file = workers[x].file
                          /\ workers'[x].doc = workers[x].doc
    BY <1>1, <1>9 DEF BrokerLost, Slot
  <2>2. UNCHANGED <<files, disk>>
    BY <1>9 DEF BrokerLost
  <2>3. SlotsKnown
    BY <1>1, <1>2, <2>1, <2>2 DEF WorkIsKnown, DocsOnDisk, FileExists
  <2> QED
    BY <1>5, <1>6, <2>3 DEF WorkIsKnown
<1>10. CASE ConvertOk(w)
  <2>1. /\ workers'[w].file = f
        /\ workers'[w].doc = runs[f] + 1
        /\ \A x \in Worker : x # w => workers'[x] = workers[x]
    BY <1>1, <1>10 DEF ConvertOk, Slot
  <2>2. runs[f] + 1 # 0 /\ <<f, runs[f] + 1>> \in disk'
    BY <1>4, <1>10 DEF ConvertOk, WriteOutput, RestInv
  <2>3. UNCHANGED files
    BY <1>10 DEF ConvertOk
  <2>4. ASSUME NEW x \in Worker
        PROVE  /\ JobOf[workers'[x].file] \in created' \/ workers'[x].pc = "idle"
               /\ workers'[x].pc = "complete"
                    /\ files'[workers'[x].file].status # "absent" =>
                    /\ workers'[x].doc # 0
                    /\ <<workers'[x].file, workers'[x].doc>> \in disk'
    <3>1. CASE x = w
      BY <1>2, <1>4, <2>1, <2>2, <3>1
    <3>2. CASE x # w
      BY <1>1, <1>2, <2>1, <2>3, <3>2 DEF WorkIsKnown, DocsOnDisk, FileExists
    <3> QED
      BY <3>1, <3>2
  <2>5. SlotsKnown
    BY <2>4 DEF DocsOnDisk, FileExists
  <2> QED
    BY <1>5, <1>6, <2>5 DEF WorkIsKnown
<1>11. AfterRetryable(w) # "complete"
  BY DEF AfterRetryable
<1>12. CASE \E s : GoTo(w, s) /\ s # "complete"
  BY <1>5, <1>6, <1>7, <1>12 DEF WorkIsKnown
<1>13. \/ \E s : GoTo(w, s) /\ s # "complete"
       \/ workers' = [workers EXCEPT ![w] = IdleSlot]
       \/ BrokerLost(w) \/ ConvertOk(w)
  <2>1. CASE Load(w) \/ RecordFailure(w) \/ RecordSuccess(w)
    BY <1>11, <2>1 DEF Load, RecordFailure, RecordSuccess, Committed
  <2>2. CASE Validate(w) \/ ConvertFails(w) \/ PublishRetry(w)
    BY <2>2 DEF Validate, ConvertFails, PublishRetry
  <2>3. CASE ConvertBlowsUp(w) \/ ConnectionLost(w) \/ TimeLimit(w)
    BY <1>11, <2>3 DEF ConvertBlowsUp, ConnectionLost, TimeLimit
  <2>4. CASE Ack(w) \/ WorkerLost(w)
    BY <2>4 DEF Ack, WorkerLost
  <2> QED
    BY <2>1, <2>2, <2>3, <2>4 DEF TaskStep, WorkerFault
<1> QED
  BY <1>8, <1>9, <1>10, <1>12, <1>13

\* The same for the API process, the queue and the slots that take a message.
LEMMA OthersKeepDisk ==
  ASSUME RestInv, TablesInv, DiskInv,
         \/ \E j \in Job : CreateJob(j) \/ DeleteJob(j)
         \/ ApiStep
         \/ \E w \in Worker : Receive(w)
         \/ HandlerDies
         \/ Evict
         \/ UNCHANGED vars
  PROVE  DiskInv'
<1>1. /\ workers \in [Worker -> Slot]
      /\ files \in [File -> FileRow]
      /\ api \in Handler
      /\ SlotsAreBusy /\ WorkIsKnown /\ DocsOnDisk /\ UnlinkIsLate
      /\ RowsPointAtDisk
  BY DEF RestInv, DiskInv, TablesInv, RowsTypeOK
<1>2. ASSUME NEW j \in Job, CreateJob(j)
      PROVE  DiskInv'
  <2>1. /\ j \notin created
        /\ created' = created \cup {j}
        /\ UNCHANGED <<queue, workers>>
        /\ disk' = disk \cup (FilesOf(j) \X {0})
        /\ api' = [api EXCEPT !.dispatch = FilesOf(j)]
        /\ api.unlink = {}
        /\ files' = [f \in File |-> IF f \in FilesOf(j) THEN NewFileRow
                                                        ELSE files[f]]
    BY <1>2 DEF CreateJob, InsertJob, ApiFree, NoHandler
  <2>2. \A f \in FilesOf(j) : f \in File /\ JobOf[f] = j
    BY DEF FilesOf
  <2>3. api'.dispatch = FilesOf(j) /\ api'.unlink = {}
    BY <1>1, <2>1 DEF Handler
  <2>4. ASSUME NEW f \in File, files'[f].status # "absent"
        PROVE  /\ <<f, 0>> \in disk'
               /\ files'[f].output # 0 => <<f, files'[f].output>> \in disk'
               /\ files'[f].status = "done" => files'[f].output # 0
    <3>1. CASE f \in FilesOf(j)
      BY <2>1, <3>1 DEF NewFileRow, NoFileRow
    <3>2. CASE f \notin FilesOf(j)
      BY <1>1, <2>1, <2>4, <3>2 DEF RowsPointAtDisk, FileExists
    <3> QED
      BY <3>1, <3>2
  <2>5. WorkIsKnown'
    BY <1>1, <2>1, <2>2, <2>3 DEF WorkIsKnown
  <2>6. ASSUME NEW w \in Worker, workers[w].pc = "complete",
               files'[workers[w].file].status # "absent"
        PROVE  /\ workers[w].doc # 0
               /\ <<workers[w].file, workers[w].doc>> \in disk'
    <3>1. workers[w].file \in File /\ JobOf[workers[w].file] \in created
      BY <1>1, <2>6 DEF SlotsAreBusy, WorkIsKnown
    <3>2. files'[workers[w].file] = files[workers[w].file]
      BY <2>1, <2>2, <3>1
    <3> QED
      BY <1>1, <2>1, <2>6, <3>2 DEF DocsOnDisk, FileExists
  <2> QED
    BY <2>1, <2>3, <2>4, <2>5, <2>6
       DEF DiskInv, RowsPointAtDisk, DocsOnDisk, UnlinkIsLate, FileExists
<1>3. ASSUME NEW j \in Job, DeleteJob(j)
      PROVE  DiskInv'
  <2> DEFINE paths == {p \in FilesOf(j) \X {0} : p[1] \notin Escaping}
                      \cup {<<f, files[f].output>> :
                              f \in {g \in FilesOf(j) : files[g].output # 0}}
  <2>1. /\ UNCHANGED <<created, queue, workers, disk>>
        /\ api' = [api EXCEPT !.unlink = paths]
        /\ files' = [f \in File |-> IF f \in FilesOf(j) THEN NoFileRow
                                                        ELSE files[f]]
    BY <1>3 DEF DeleteJob, RemoveJob
  <2>2. api'.unlink = paths /\ api'.dispatch = api.dispatch
    BY <1>1, <2>1 DEF Handler
  <2>3. ASSUME NEW f \in File, files'[f].status # "absent"
        PROVE  f \notin FilesOf(j) /\ files'[f] = files[f]
    BY <2>1, <2>3 DEF NoFileRow
  <2>4. RowsPointAtDisk'
    BY <1>1, <2>1, <2>3 DEF RowsPointAtDisk, FileExists
  <2>5. WorkIsKnown'
    BY <1>1, <2>1, <2>2 DEF WorkIsKnown
  <2>6. DocsOnDisk'
    BY <1>1, <2>1, <2>3 DEF DocsOnDisk, FileExists, SlotsAreBusy
  <2>7. ASSUME NEW p \in paths
        PROVE  files'[p[1]].status = "absent"
    <3>1. p[1] \in FilesOf(j) /\ p[1] \in File
      BY DEF FilesOf
    <3> QED
      BY <2>1, <3>1 DEF NoFileRow
  <2>8. UnlinkIsLate'
    BY <2>2, <2>7 DEF UnlinkIsLate, FileExists
  <2> QED
    BY <2>4, <2>5, <2>6, <2>8 DEF DiskInv
<1>4. ASSUME NEW f \in File, Dispatch(f)
      PROVE  DiskInv'
  <2> DEFINE m == [file |-> f, retries |-> 0]
  <2>1. /\ UNCHANGED <<files, created, workers, disk>>
        /\ f \in api.dispatch
        /\ queue' = [queue EXCEPT ![m] = @ + 1]
        /\ api' = [api EXCEPT !.dispatch = @ \ {f}]
    BY <1>4 DEF Dispatch
  <2>2. api'.dispatch \subseteq api.dispatch /\ api'.unlink = api.unlink
    BY <1>1, <2>1 DEF Handler
  <2>3. \A x \in Message : queue'[x] > 0 => JobOf[x.file] \in created'
    BY <1>1, <2>1, QueueIsKnown DEF WorkIsKnown
  <2> QED
    BY <1>1, <2>1, <2>2, <2>3
       DEF DiskInv, RowsPointAtDisk, WorkIsKnown, DocsOnDisk, UnlinkIsLate,
           FileExists
<1>5. ASSUME NEW p \in api.unlink, Unlink(p)
      PROVE  DiskInv'
  <2>1. /\ UNCHANGED <<files, created, queue, workers>>
        /\ disk \ {p} \subseteq disk'
        /\ api' = [api EXCEPT !.unlink = @ \ {p}]
    BY <1>5 DEF Unlink
  <2>2. api'.dispatch = api.dispatch /\ api'.unlink \subseteq api.unlink
    BY <1>1, <2>1 DEF Handler
  <2>3. ~FileExists(p[1])
    BY <1>1 DEF UnlinkIsLate
  <2>4. \A f, n : FileExists(f) /\ <<f, n>> \in disk => <<f, n>> \in disk'
    BY <2>1, <2>3
  <2>5. RowsPointAtDisk' /\ DocsOnDisk'
    BY <1>1, <2>1, <2>4 DEF RowsPointAtDisk, DocsOnDisk, FileExists
  <2> QED
    BY <1>1, <2>1, <2>2, <2>5 DEF DiskInv, WorkIsKnown, UnlinkIsLate, FileExists
<1>6. ASSUME NEW w \in Worker, Receive(w)
      PROVE  DiskInv'
  <2>1. PICK m \in Message :
          /\ queue[m] > 0
          /\ queue' = [queue EXCEPT ![m] = @ - 1]
          /\ workers' = [workers EXCEPT ![w] =
               [pc |-> "load", file |-> m.file, retries |-> m.retries,
                held |-> TRUE, doc |-> 0]]
    BY <1>6 DEF Receive
  <2>2. UNCHANGED <<files, created, disk, api>>
    BY <1>6 DEF Receive
  <2>3. \A x \in Message : queue'[x] > 0 => JobOf[x.file] \in created'
    BY <1>1, <2>1, <2>2, QueueIsKnown
  <2>4. JobOf[m.file] \in created
    BY <1>1, <2>1 DEF WorkIsKnown
  <2>5. /\ workers'[w].pc = "load" /\ workers'[w].file = m.file
        /\ \A x \in Worker : x # w => workers'[x] = workers[x]
    BY <1>1, <2>1
  <2>6. /\ \A x \in Worker : workers'[x].pc # "idle" =>
              JobOf[workers'[x].file] \in created'
        /\ DocsOnDisk'
    BY <1>1, <2>2, <2>4, <2>5, SlotsAreKnown DEF FileExists
  <2> QED
    BY <1>1, <2>2, <2>3, <2>6
       DEF DiskInv, RowsPointAtDisk, WorkIsKnown, UnlinkIsLate, FileExists
<1>7. CASE HandlerDies
  BY <1>1, <1>7
     DEF HandlerDies, NoHandler, DiskInv, RowsPointAtDisk, WorkIsKnown,
         DocsOnDisk, UnlinkIsLate, FileExists
<1>8. CASE Evict
  <2>1. PICK m \in Message : queue' = [queue EXCEPT ![m] = @ - 1]
    BY <1>8 DEF Evict
  <2>2. UNCHANGED <<files, created, workers, disk, api>>
    BY <1>8 DEF Evict
  <2>3. \A x \in Message : queue'[x] > 0 => JobOf[x.file] \in created'
    BY <1>1, <2>1, <2>2, QueueIsKnown
  <2> QED
    BY <1>1, <2>2, <2>3
       DEF DiskInv, RowsPointAtDisk, WorkIsKnown, DocsOnDisk, UnlinkIsLate,
           FileExists
<1>9. CASE UNCHANGED vars
  BY <1>1, <1>9
     DEF vars, DiskInv, RowsPointAtDisk, WorkIsKnown, DocsOnDisk, UnlinkIsLate,
         FileExists
<1> QED
  BY <1>2, <1>3, <1>4, <1>5, <1>6, <1>7, <1>8, <1>9 DEF ApiStep

LEMMA NextKeepsDisk == IInv /\ DiskInv /\ [Next]_vars => DiskInv'
<1> SUFFICES ASSUME TablesInv, RestInv, DiskInv, [Next]_vars
             PROVE  DiskInv'
  BY IInvParts
<1>1. ASSUME NEW w \in Worker, TaskStep(w) \/ WorkerFault(w)
      PROVE  DiskInv'
  <2>1. /\ UNCHANGED api
        /\ \A g \in File : files'[g].status # "absent" => FileExists(g)
        /\ RowsPointAtDisk'
    BY <1>1, TaskRowsOnDisk
  <2>2. \A p \in api.unlink : p[1] \in File
    BY DEF RestInv, Handler
  <2>3. UnlinkIsLate'
    BY <2>1, <2>2 DEF DiskInv, UnlinkIsLate, FileExists
  <2>4. WorkIsKnown' /\ DocsOnDisk'
    BY <1>1, TaskSlotsKnown
  <2> QED
    BY <2>1, <2>3, <2>4 DEF DiskInv
<1>2. CASE \/ \E j \in Job : CreateJob(j) \/ DeleteJob(j)
           \/ ApiStep
           \/ \E w \in Worker : Receive(w)
           \/ HandlerDies
           \/ Evict
           \/ UNCHANGED vars
  BY <1>2, OthersKeepDisk
<1> QED
  BY <1>1, <1>2 DEF Next

\* Whatever is killed, redelivered, retried or deleted: an output_path a row
\* holds names a file that is there to be served, and a file that may still be
\* converted has its input.
THEOREM RowsAreServable == Spec => []RowsPointAtDisk
<1>1. Init => DiskInv
  BY DEF Init, RowsInit, NoFileRow, NoHandler, IdleSlot, DiskInv,
         RowsPointAtDisk, WorkIsKnown, DocsOnDisk, UnlinkIsLate, FileExists
<1>2. DiskInv => RowsPointAtDisk
  BY DEF DiskInv
<1> QED
  BY <1>1, <1>2, Consistent, NextKeepsDisk, PTL DEF Spec

(***************************************************************************)
(* While no message is delivered twice: ProcessedIsExact, TerminalIsStable *)
(* and the refinement of JobContract, from OnceInv                         *)
(*                                                                         *)
(* A file is carried in one place at most, and not at all once it has a    *)
(* verdict: so each verdict is the first of its file, the counter counts   *)
(* it once, and a job that has ended has nobody left to reopen it.         *)
(***************************************************************************)

(***************************************************************************)
(* Each file has one carrier at most                                       *)
(***************************************************************************)

\* Carriers that only disappear.
LEMMA CarriersGo ==
  ASSUME CarriedOnce, queue \in [Message -> Nat], queue' \in [Message -> Nat],
         \A m \in Message : queue'[m] <= queue[m],
         \A w \in Worker : workers'[w].pc \notin {"idle", "ack"} =>
           /\ workers[w].pc \notin {"idle", "ack"}
           /\ workers'[w].file = workers[w].file,
         api'.dispatch \subseteq api.dispatch
  PROVE  CarriedOnce' /\ \A f \in File : Carried(f)' => Carried(f)
<1>1. ASSUME NEW f \in File, NEW m \in Message, Waits(f, m)'
      PROVE  Waits(f, m)
  <2>1. queue[m] \in Nat /\ queue'[m] \in Nat /\ queue'[m] <= queue[m]
    OBVIOUS
  <2> QED
    BY <1>1, <2>1 DEF Waits
<1>2. \A f \in File, w \in Worker : Works(f, w)' => Works(f, w)
  BY DEF Works
<1>3. \A m \in Message : queue'[m] <= 1
  <2> SUFFICES ASSUME NEW m \in Message PROVE queue'[m] <= 1
    OBVIOUS
  <2>1. queue[m] \in Nat /\ queue'[m] \in Nat /\ queue'[m] <= queue[m]
    OBVIOUS
  <2> QED
    BY <2>1 DEF CarriedOnce
<1>4. CarriedOnce'
  BY <1>1, <1>2, <1>3 DEF CarriedOnce
<1> QED
  BY <1>1, <1>2, <1>4 DEF Carried

\* A message that is published: file f is carried by it alone.
LEMMA CarrierPublished ==
  ASSUME CarriedOnce, queue \in [Message -> Nat], NEW m \in Message,
         queue' = [queue EXCEPT ![m] = @ + 1],
         Carried(m.file),
         \A n \in Message : ~Waits(m.file, n),
         \A w \in Worker : workers'[w].pc \notin {"idle", "ack"} =>
           /\ workers[w].pc \notin {"idle", "ack"}
           /\ workers'[w].file = workers[w].file
           /\ workers[w].file # m.file,
         api'.dispatch \subseteq api.dispatch \ {m.file}
  PROVE  CarriedOnce' /\ \A f \in File : Carried(f)' => Carried(f)
<1>1. /\ \A n \in Message : queue'[n] = IF n = m THEN queue[m] + 1 ELSE queue[n]
      /\ \A n \in Message : queue[n] \in Nat
  OBVIOUS
<1>2. queue[m] = 0
  BY <1>1 DEF Waits
<1>3. \A f \in File, n \in Message : Waits(f, n)' => n = m \/ Waits(f, n)
  BY <1>1 DEF Waits
<1>4. \A f \in File, w \in Worker : Works(f, w)' => Works(f, w) /\ f # m.file
  BY DEF Works
<1>5. \A n \in Message : queue'[n] <= 1
  BY <1>1, <1>2 DEF CarriedOnce
<1>6. ASSUME NEW f \in File
      PROVE  /\ \A a, b \in Message : Waits(f, a)' /\ Waits(f, b)' => a = b
             /\ \A w, x \in Worker : Works(f, w)' /\ Works(f, x)' => w = x
             /\ \A a \in Message, w \in Worker : ~(Waits(f, a)' /\ Works(f, w)')
             /\ f \in api'.dispatch =>
                  /\ \A a \in Message : ~Waits(f, a)'
                  /\ \A w \in Worker : ~Works(f, w)'
  <2>1. CASE f = m.file
    <3>1. \A a \in Message : Waits(f, a)' => a = m
      BY <1>3, <2>1
    <3>2. f \notin api'.dispatch /\ \A w \in Worker : ~Works(f, w)'
      BY <1>4, <2>1
    <3> QED
      BY <3>1, <3>2
  <2>2. CASE f # m.file
    <3>1. \A a \in Message : Waits(f, a)' => Waits(f, a)
      BY <1>3, <2>2 DEF Waits
    <3> QED
      BY <1>4, <3>1 DEF CarriedOnce
  <2> QED
    BY <2>1, <2>2
<1>7. CarriedOnce'
  BY <1>5, <1>6 DEF CarriedOnce
<1>8. ASSUME NEW f \in File, Carried(f)'
      PROVE  Carried(f)
  <2>1. CASE f = m.file
    BY <2>1
  <2>2. CASE f # m.file
    <3>1. \A a \in Message : Waits(f, a)' => Waits(f, a)
      BY <1>3, <2>2 DEF Waits
    <3> QED
      BY <1>4, <1>8, <3>1 DEF Carried
  <2> QED
    BY <2>1, <2>2
<1> QED
  BY <1>7, <1>8

\* A message that is taken: file f is carried by the slot alone.
LEMMA CarrierTaken ==
  ASSUME CarriedOnce, queue \in [Message -> Nat], NEW m \in Message,
         m.file \in File, queue[m] > 0,
         queue' = [queue EXCEPT ![m] = @ - 1],
         NEW w \in Worker, workers[w].pc \in {"idle", "ack"},
         workers'[w].file = m.file,
         \A x \in Worker : x # w => workers'[x] = workers[x],
         api'.dispatch = api.dispatch
  PROVE  CarriedOnce' /\ \A f \in File : Carried(f)' => Carried(f)
<1>1. /\ \A n \in Message : queue'[n] = IF n = m THEN queue[m] - 1 ELSE queue[n]
      /\ \A n \in Message : queue[n] \in Nat
  OBVIOUS
<1>2. queue[m] = 1 /\ queue'[m] = 0
  BY <1>1 DEF CarriedOnce
<1>3. \A f \in File, n \in Message : Waits(f, n)' => n # m /\ Waits(f, n)
  BY <1>1, <1>2 DEF Waits
<1>4. \A f \in File, x \in Worker :
         Works(f, x)' => (x = w /\ f = m.file) \/ (x # w /\ Works(f, x))
  BY DEF Works
<1>5. \A n \in Message : queue'[n] <= 1
  BY <1>1, <1>2 DEF CarriedOnce
<1>6. Waits(m.file, m)
  BY DEF Waits
<1>7. /\ \A n \in Message : ~Waits(m.file, n)'
      /\ \A x \in Worker : Works(m.file, x)' => x = w
      /\ m.file \notin api.dispatch
  BY <1>3, <1>4, <1>6 DEF CarriedOnce
<1>8. ASSUME NEW f \in File
      PROVE  /\ \A a, b \in Message : Waits(f, a)' /\ Waits(f, b)' => a = b
             /\ \A y, x \in Worker : Works(f, y)' /\ Works(f, x)' => y = x
             /\ \A a \in Message, x \in Worker : ~(Waits(f, a)' /\ Works(f, x)')
             /\ f \in api'.dispatch =>
                  /\ \A a \in Message : ~Waits(f, a)'
                  /\ \A x \in Worker : ~Works(f, x)'
  <2>1. CASE f = m.file
    BY <1>7, <2>1
  <2>2. CASE f # m.file
    <3>1. /\ \A a \in Message : Waits(f, a)' => Waits(f, a)
          /\ \A x \in Worker : Works(f, x)' => Works(f, x)
      BY <1>3, <1>4, <2>2
    <3> QED
      BY <3>1 DEF CarriedOnce
  <2> QED
    BY <2>1, <2>2
<1>9. CarriedOnce'
  BY <1>5, <1>8 DEF CarriedOnce
<1>10. \A f \in File : Carried(f)' => Carried(f)
  BY <1>3, <1>4, <1>6 DEF Carried
<1> QED
  BY <1>9, <1>10

\* Without the faults that deliver a message twice, a step that creates no job
\* hands each file on to one carrier, or to none.
LEMMA CarriersMove ==
  ASSUME RestInv, RestInv', WorkIsKnown, CarriedOnce, MessagesComeOnce,
         \/ \E j \in Job : DeleteJob(j)
         \/ ApiStep
         \/ \E w \in Worker : Receive(w) \/ TaskStep(w) \/ WorkerFault(w)
         \/ HandlerDies
         \/ Evict
         \/ UNCHANGED vars
  PROVE  CarriedOnce' /\ \A f \in File : Carried(f)' => Carried(f)
<1>1. /\ queue \in [Message -> Nat] /\ queue' \in [Message -> Nat]
      /\ workers \in [Worker -> Slot] /\ workers' \in [Worker -> Slot]
      /\ api \in Handler /\ api' \in Handler
      /\ SlotsAreBusy
  BY DEF RestInv
<1>2. \A m \in Message : queue[m] <= queue[m]
  BY <1>1
<1>3. CASE \/ \E j \in Job : DeleteJob(j)
           \/ \E p \in api.unlink : Unlink(p)
           \/ HandlerDies
           \/ UNCHANGED vars
  <2>1. UNCHANGED <<queue, workers>>
    BY <1>3 DEF DeleteJob, Unlink, HandlerDies, vars
  <2>2. api'.dispatch \subseteq api.dispatch
    BY <1>1, <1>3 DEF DeleteJob, Unlink, HandlerDies, NoHandler, vars, Handler
  <2> QED
    BY <1>1, <1>2, <2>1, <2>2, CarriersGo
<1>4. CASE Evict
  <2>1. PICK m \in Message : queue' = [queue EXCEPT ![m] = @ - 1]
    BY <1>4 DEF Evict
  <2>2. \A n \in Message : queue'[n] <= queue[n]
    <3> SUFFICES ASSUME NEW n \in Message PROVE queue'[n] <= queue[n]
      OBVIOUS
    <3>1. queue[n] \in Nat
      BY <1>1
    <3> QED
      BY <1>1, <2>1, <3>1
  <2>3. UNCHANGED <<workers, api>>
    BY <1>4 DEF Evict
  <2> QED
    BY <1>1, <2>2, <2>3, CarriersGo
<1>5. ASSUME NEW f \in File, Dispatch(f)
      PROVE  CarriedOnce' /\ \A g \in File : Carried(g)' => Carried(g)
  <2> DEFINE m == [file |-> f, retries |-> 0]
  <2>1. m \in Message /\ m.file = f
    BY ConversionAssumption DEF Message
  <2>2. f \in api.dispatch /\ UNCHANGED workers
    BY <1>5 DEF Dispatch
  <2>3. queue' = [queue EXCEPT ![m] = @ + 1]
    BY <1>5 DEF Dispatch
  <2>4. api'.dispatch = api.dispatch \ {f}
    BY <1>1, <1>5 DEF Dispatch, Handler
  <2>5. \A n \in Message : ~Waits(f, n)
    BY <2>2 DEF CarriedOnce
  <2>6. \A w \in Worker : ~Works(f, w)
    BY <2>2 DEF CarriedOnce
  <2>7. Carried(f)
    BY <2>2 DEF Carried
  <2> HIDE DEF m
  <2> QED
    BY <1>1, <2>1, <2>2, <2>3, <2>4, <2>5, <2>6, <2>7, CarrierPublished DEF Works
<1>6. ASSUME NEW w \in Worker, Receive(w)
      PROVE  CarriedOnce' /\ \A g \in File : Carried(g)' => Carried(g)
  <2>1. PICK m \in Message :
          /\ queue[m] > 0
          /\ queue' = [queue EXCEPT ![m] = @ - 1]
          /\ workers' = [workers EXCEPT ![w] =
               [pc |-> "load", file |-> m.file, retries |-> m.retries,
                held |-> TRUE, doc |-> 0]]
    BY <1>6 DEF Receive
  <2>2. m.file \in File
    BY DEF Message
  <2>3. workers[w].pc \in {"idle", "ack"} /\ UNCHANGED api
    BY <1>6 DEF Receive
  <2>4. /\ workers'[w].file = m.file
        /\ \A x \in Worker : x # w => workers'[x] = workers[x]
    BY <1>1, <2>1
  <2> QED
    BY <1>1, <2>1, <2>2, <2>3, <2>4, CarrierTaken
<1>7. ASSUME NEW w \in Worker, PublishRetry(w)
      PROVE  CarriedOnce' /\ \A g \in File : Carried(g)' => Carried(g)
  <2> DEFINE f == workers[w].file
             m == [file |-> f, retries |-> workers[w].retries + 1]
  <2>1. f \in File /\ Works(f, w) /\ UNCHANGED api
    BY <1>1, <1>7 DEF PublishRetry, SlotsAreBusy, Works
  <2>2. /\ workers'[w].pc = "ack"
        /\ \A x \in Worker : x # w => workers'[x] = workers[x]
    BY <1>1, <1>7 DEF PublishRetry, GoTo, Slot
  <2>3. CASE queue' = [queue EXCEPT ![m] = @ + 1] /\ m \in Message
    <3>1. /\ \A n \in Message : ~Waits(f, n)
          /\ f \notin api.dispatch
          /\ \A x \in Worker : Works(f, x) => x = w
      BY <2>1 DEF CarriedOnce
    <3>2. Carried(f)
      BY <2>1 DEF Carried
    <3>3. m.file = f
      OBVIOUS
    <3>4. \A x \in Worker : workers'[x].pc \notin {"idle", "ack"} =>
            /\ workers[x].pc \notin {"idle", "ack"}
            /\ workers'[x].file = workers[x].file
            /\ workers[x].file # f
      BY <2>2, <3>1 DEF Works
    <3>5. api'.dispatch \subseteq api.dispatch \ {f}
      BY <2>1, <3>1
    <3> HIDE DEF m, f
    <3> QED
      BY <1>1, <2>3, <3>1, <3>2, <3>3, <3>4, <3>5, CarrierPublished
  <2>4. CASE queue' = queue
    BY <1>1, <1>2, <2>1, <2>2, <2>4, CarriersGo
  <2>5. CASE queue' = [queue EXCEPT ![m] = @ + 1] /\ m \notin Message
    <3>1. queue' = queue
      BY <1>1, <2>5
    <3> QED
      BY <2>4, <3>1
  <2> QED
    BY <1>7, <2>3, <2>4, <2>5 DEF PublishRetry
<1>8. ASSUME NEW w \in Worker,
             \/ Load(w) \/ Validate(w) \/ ConvertOk(w) \/ ConvertFails(w)
             \/ RecordFailure(w) \/ RecordSuccess(w) \/ Ack(w)
             \/ ConvertBlowsUp(w) \/ ConnectionLost(w) \/ TimeLimit(w)
      PROVE  CarriedOnce' /\ \A g \in File : Carried(g)' => Carried(g)
  <2>1. UNCHANGED <<queue, api>>
    BY <1>8 DEF Load, Validate, ConvertOk, ConvertFails, RecordFailure,
         RecordSuccess, Ack, ConvertBlowsUp, ConnectionLost, TimeLimit
  <2>2. \/ workers' = [workers EXCEPT ![w] = IdleSlot]
        \/ /\ workers[w].pc \notin {"idle", "ack"}
           /\ \E s, d : workers' = [workers EXCEPT ![w].pc = s, ![w].doc = d]
    BY <1>8 DEF Load, Validate, ConvertOk, ConvertFails, RecordFailure,
         RecordSuccess, Ack, ConvertBlowsUp, ConnectionLost, TimeLimit, GoTo,
         Committed
  <2>3. \A x \in Worker : workers'[x].pc \notin {"idle", "ack"} =>
          /\ workers[x].pc \notin {"idle", "ack"}
          /\ workers'[x].file = workers[x].file
    <3>1. CASE workers' = [workers EXCEPT ![w] = IdleSlot]
      BY <1>1, <3>1 DEF IdleSlot
    <3>2. ASSUME NEW s, NEW d,
                 workers' = [workers EXCEPT ![w].pc = s, ![w].doc = d],
                 workers[w].pc \notin {"idle", "ack"}
          PROVE  \A x \in Worker : workers'[x].pc \notin {"idle", "ack"} =>
                   /\ workers[x].pc \notin {"idle", "ack"}
                   /\ workers'[x].file = workers[x].file
      BY <1>1, <3>2 DEF Slot
    <3> QED
      BY <2>2, <3>1, <3>2
  <2> QED
    BY <1>1, <1>2, <2>1, <2>3, CarriersGo
<1>9. ASSUME NEW w \in Worker, WorkerLost(w) \/ BrokerLost(w)
      PROVE  FALSE
  BY <1>9 DEF WorkerLost, BrokerLost, Fault, MessagesComeOnce
<1> QED
  BY <1>3, <1>4, <1>5, <1>6, <1>7, <1>8, <1>9 DEF ApiStep, TaskStep, WorkerFault

(***************************************************************************)
(* Each file is decided once                                               *)
(***************************************************************************)

\* A task moves the tables only for a file it is the one carrier of.
LEMMA TaskIsOnce ==
  ASSUME RestInv, TablesInv, OnceInv, NEW w \in Worker,
         TaskStep(w) \/ WorkerFault(w)
  PROVE  OnceRows
<1> DEFINE f == workers[w].file
<1>1. CASE UNCHANGED <<jobs, files>>
  <2>1. UNCHANGED created
    BY DEF TaskStep, WorkerFault, Load, Validate, ConvertOk, ConvertFails,
         RecordFailure, RecordSuccess, PublishRetry, Ack, ConvertBlowsUp,
         ConnectionLost, WorkerLost, BrokerLost, TimeLimit
  <2> QED
    BY <1>1, <2>1 DEF OnceRows
<1>2. CASE /\ workers[w].pc \in {"load", "fail", "complete"}
           /\ FileExists(f) /\ UNCHANGED created
           /\ \/ workers[w].pc = "load" /\ StartFile(f)
              \/ workers[w].pc = "fail" /\ FailFile(f)
              \/ workers[w].pc = "complete" /\ CompleteFile(f, workers[w].doc)
  <2>1. f \in File /\ files[f] \in FileRow /\ workers[w].doc \in Nat
    BY <1>2 DEF RestInv, SlotsAreBusy, TablesInv, RowsTypeOK, Slot
  <2>2. files[f].status \notin FinalFile
    BY <1>2, <2>1 DEF OnceInv, DecidedIsLeftAlone, Carried, Works
  <2>3. CASE StartFile(f)
    BY <1>2, <2>1, <2>2, <2>3 DEF OnceRows
  <2>4. CASE workers[w].pc # "load"
    <3>1. files[f].status = "processing"
      <4>1. files[f].status # "pending"
        BY <1>2, <2>4 DEF OnceInv, TakenIsStarted
      <4>2. files[f].status \in FileStatus
        BY <1>2, <2>1 DEF FileExists, FileRow
      <4> QED
        BY <2>2, <4>1, <4>2 DEF FileStatus, FinalFile
    <3>2. \E row \in FileRow : row.status \in FinalFile /\ FileSettled(f, row)
      <4>1. CASE FailFile(f)
        <5> DEFINE row == [files[f] EXCEPT !.status = "failed", !.error = TRUE]
        <5>1. row \in FileRow /\ row.status \in FinalFile
          BY <2>1 DEF FileRow, FileStatus, FinalFile
        <5>2. FileSettled(f, row)
          BY <4>1 DEF FailFile
        <5> HIDE DEF row
        <5> QED
          BY <5>1, <5>2
      <4>2. CASE CompleteFile(f, workers[w].doc)
        <5> DEFINE row == [files[f] EXCEPT !.status = "done",
                                           !.output = workers[w].doc]
        <5>1. row \in FileRow /\ row.status \in FinalFile
          BY <2>1 DEF FileRow, FileStatus, FinalFile
        <5>2. FileSettled(f, row)
          BY <4>2 DEF CompleteFile
        <5> HIDE DEF row
        <5> QED
          BY <5>1, <5>2
      <4> QED
        BY <1>2, <2>4, <4>1, <4>2
    <3> QED
      BY <1>2, <2>1, <2>2, <3>1, <3>2 DEF OnceRows
  <2> QED
    BY <1>2, <2>3, <2>4
<1> QED
  BY <1>1, <1>2
     DEF TaskStep, WorkerFault, Load, Validate, ConvertOk, ConvertFails,
         RecordFailure, RecordSuccess, PublishRetry, Ack, ConvertBlowsUp,
         ConnectionLost, WorkerLost, BrokerLost, TimeLimit

LEMMA StepIsOnce ==
  ASSUME RestInv, TablesInv, OnceInv, [Next]_vars
  PROVE  OnceRows
<1>1. ASSUME NEW j \in Job, CreateJob(j) \/ DeleteJob(j)
      PROVE  OnceRows
  BY <1>1 DEF CreateJob, DeleteJob, OnceRows
<1>2. CASE ApiStep \/ HandlerDies \/ Evict \/ UNCHANGED vars
  BY <1>2 DEF ApiStep, Dispatch, Unlink, HandlerDies, Evict, vars, OnceRows
<1>3. ASSUME NEW w \in Worker, Receive(w)
      PROVE  OnceRows
  BY <1>3 DEF Receive, OnceRows
<1>4. ASSUME NEW w \in Worker, TaskStep(w) \/ WorkerFault(w)
      PROVE  OnceRows
  BY <1>4, TaskIsOnce
<1> QED
  BY <1>1, <1>2, <1>3, <1>4 DEF Next

\* No file is carried on after its verdict, and none is worked on unstarted.
LEMMA CarriedIsUndecided ==
  ASSUME RestInv, RestInv', TablesInv, WorkIsKnown, OnceInv, MessagesComeOnce,
         [Next]_vars
  PROVE  CarriedOnce' /\ DecidedIsLeftAlone' /\ TakenIsStarted'
<1>1. /\ workers \in [Worker -> Slot] /\ workers' \in [Worker -> Slot]
      /\ files \in [File -> FileRow]
      /\ api \in Handler
      /\ SlotsAreBusy
      /\ CarriedOnce /\ DecidedIsLeftAlone /\ TakenIsStarted
  BY DEF RestInv, OnceInv, TablesInv, RowsTypeOK
<1>2. ASSUME NEW j \in Job, CreateJob(j)
      PROVE  CarriedOnce' /\ DecidedIsLeftAlone' /\ TakenIsStarted'
  <2>1. /\ j \notin created /\ api.dispatch = {}
        /\ UNCHANGED <<queue, workers>>
        /\ files' = [f \in File |-> IF f \in FilesOf(j) THEN NewFileRow
                                                        ELSE files[f]]
    BY <1>2 DEF CreateJob, InsertJob, ApiFree, NoHandler
  <2>2. api'.dispatch = FilesOf(j)
    BY <1>1, <1>2 DEF CreateJob, Handler
  <2>3. \A f \in FilesOf(j) : f \in File /\ JobOf[f] \notin created
    BY <2>1 DEF FilesOf
  <2>4. \A f \in FilesOf(j) :
          /\ \A m \in Message : ~Waits(f, m)
          /\ \A w \in Worker : ~Works(f, w)
    BY <2>3 DEF WorkIsKnown, Waits, Works
  <2>5. /\ \A f, m : Waits(f, m)' <=> Waits(f, m)
        /\ \A f, w : Works(f, w)' <=> Works(f, w)
    BY <2>1 DEF Waits, Works
  <2>6. CarriedOnce'
    BY <1>1, <2>1, <2>2, <2>4, <2>5 DEF CarriedOnce
  <2>7. ASSUME NEW f \in File, files'[f].status \in FinalFile
        PROVE  ~Carried(f)'
    <3>1. f \notin FilesOf(j) /\ files'[f] = files[f]
      BY <2>1, <2>7 DEF NewFileRow, NoFileRow, FinalFile
    <3>2. ~Carried(f)
      BY <1>1, <2>7, <3>1 DEF DecidedIsLeftAlone
    <3> QED
      BY <2>2, <2>5, <3>1, <3>2 DEF Carried
  <2>8. TakenIsStarted'
    <3> SUFFICES ASSUME NEW w \in Worker,
                        workers[w].pc \in {"validate", "convert", "fail",
                                           "complete"}
                 PROVE  files'[workers[w].file].status # "pending"
      BY <2>1 DEF TakenIsStarted
    <3>1. workers[w].file \in File /\ workers[w].file \notin FilesOf(j)
      BY <1>1, <2>3 DEF SlotsAreBusy, WorkIsKnown
    <3> QED
      BY <1>1, <2>1, <3>1 DEF TakenIsStarted
  <2> QED
    BY <2>6, <2>7, <2>8 DEF DecidedIsLeftAlone
<1>3. CASE \/ \E j \in Job : DeleteJob(j)
           \/ ApiStep
           \/ \E w \in Worker : Receive(w)
           \/ HandlerDies
           \/ Evict
           \/ UNCHANGED vars
  <2>1. CarriedOnce' /\ \A f \in File : Carried(f)' => Carried(f)
    BY <1>3, CarriersMove, <1>1
  <2>2. \A f \in File : files'[f] = files[f] \/ files'[f].status = "absent"
    <3>1. CASE \E j \in Job : DeleteJob(j)
      BY <1>1, <3>1 DEF DeleteJob, RemoveJob, NoFileRow
    <3>2. CASE ApiStep \/ (\E w \in Worker : Receive(w)) \/ HandlerDies \/ Evict
               \/ UNCHANGED vars
      BY <3>2 DEF ApiStep, Dispatch, Unlink, Receive, HandlerDies, Evict, vars
    <3> QED
      BY <1>3, <3>1, <3>2
  <2>3. DecidedIsLeftAlone'
    BY <1>1, <2>1, <2>2 DEF DecidedIsLeftAlone, FinalFile
  <2>4. \A w \in Worker : workers'[w] = workers[w] \/ workers'[w].pc = "load"
    <3>1. CASE \E w \in Worker : Receive(w)
      BY <1>1, <3>1 DEF Receive
    <3>2. CASE (\E j \in Job : DeleteJob(j)) \/ ApiStep \/ HandlerDies \/ Evict
               \/ UNCHANGED vars
      BY <3>2 DEF DeleteJob, ApiStep, Dispatch, Unlink, HandlerDies, Evict, vars
    <3> QED
      BY <1>3, <3>1, <3>2
  <2>5. TakenIsStarted'
    <3> SUFFICES ASSUME NEW w \in Worker,
                        workers'[w].pc \in {"validate", "convert", "fail",
                                            "complete"}
                 PROVE  files'[workers'[w].file].status # "pending"
      BY DEF TakenIsStarted
    <3>1. workers'[w] = workers[w] /\ workers[w].file \in File
      BY <1>1, <2>4 DEF SlotsAreBusy
    <3> QED
      BY <1>1, <2>2, <3>1 DEF TakenIsStarted
  <2> QED
    BY <2>1, <2>3, <2>5
<1>4. ASSUME NEW w \in Worker, NEW f \in File, f = workers[w].file,
             TaskStep(w) \/ WorkerFault(w)
      PROVE  CarriedOnce' /\ DecidedIsLeftAlone' /\ TakenIsStarted'
  <2>1. CarriedOnce' /\ \A g \in File : Carried(g)' => Carried(g)
    BY <1>1, <1>4, CarriersMove
  <2>2. \A x \in Worker : x # w => workers'[x] = workers[x]
    BY <1>1, <1>4 DEF TaskStep, WorkerFault, Load, Validate,
         ConvertOk, ConvertFails, RecordFailure, RecordSuccess, PublishRetry,
         Ack, ConvertBlowsUp, ConnectionLost, WorkerLost, BrokerLost, TimeLimit,
         GoTo, Committed
  <2>3. ASSUME UNCHANGED files,
               workers'[w].pc \in {"validate", "convert", "fail", "complete"} =>
                 /\ workers[w].pc \in {"validate", "convert"}
                 /\ workers'[w].file = f
        PROVE  DecidedIsLeftAlone' /\ TakenIsStarted'
    <3>1. DecidedIsLeftAlone'
      BY <1>1, <2>1, <2>3 DEF DecidedIsLeftAlone
    <3>2. TakenIsStarted'
      <4> SUFFICES ASSUME NEW x \in Worker,
                          workers'[x].pc \in {"validate", "convert", "fail",
                                              "complete"}
                   PROVE  files'[workers'[x].file].status # "pending"
        BY DEF TakenIsStarted
      <4> QED
        BY <1>4, <1>1, <2>2, <2>3 DEF TakenIsStarted
    <3> QED
      BY <3>1, <3>2
  <2>4. CASE /\ Load(w) /\ FileExists(f) /\ StartFile(f)
    <3>1. /\ files'[f].status = "processing"
          /\ \A g \in File : g # f => files'[g] = files[g]
      BY <1>1, <2>2, <2>4 DEF StartFile, FileRow
    <3>2. DecidedIsLeftAlone'
      BY <1>1, <2>1, <3>1 DEF DecidedIsLeftAlone, FinalFile
    <3>3. TakenIsStarted'
      <4> SUFFICES ASSUME NEW x \in Worker,
                          workers'[x].pc \in {"validate", "convert", "fail",
                                              "complete"}
                   PROVE  files'[workers'[x].file].status # "pending"
        BY DEF TakenIsStarted
      <4>1. CASE x = w
        <5>1. workers'[w].file = f
          BY <1>4, <1>1, <2>4, <2>2 DEF Load, Committed, GoTo, Slot
        <5> QED
          BY <3>1, <4>1, <5>1
      <4>2. CASE x # w
        <5>1. workers[x].file \in File /\ files[workers[x].file].status # "pending"
          BY <1>1, <2>2, <4>2 DEF SlotsAreBusy, TakenIsStarted
        <5> QED
          BY <2>2, <3>1, <4>2, <5>1
      <4> QED
        BY <4>1, <4>2
    <3> QED
      BY <2>1, <3>2, <3>3
  <2>5. CASE \/ RecordFailure(w) /\ FailFile(f)
             \/ RecordSuccess(w) /\ CompleteFile(f, workers[w].doc)
    <3>1. /\ UNCHANGED <<queue, api>>
          /\ workers'[w].pc = "ack"
      BY <1>1, <2>2, <2>5 DEF RecordFailure, RecordSuccess, Committed, GoTo, Slot,
                              Fault, MessagesComeOnce
    <3>2. /\ files'[f].status \in FinalFile
          /\ \A g \in File : g # f => files'[g] = files[g]
      BY <1>1, <2>2, <2>5 DEF FailFile, CompleteFile, FileSettled, FileRow,
                              FinalFile
    <3>3. Works(f, w)
      BY <1>4, <2>5 DEF Works, RecordFailure, RecordSuccess
    <3>4. /\ \A m \in Message : ~Waits(f, m)
          /\ \A x \in Worker : x # w => ~Works(f, x)
          /\ f \notin api.dispatch
      BY <1>1, <2>2, <3>3 DEF CarriedOnce
    <3>5. /\ \A m \in Message : ~Waits(f, m)'
          /\ \A x \in Worker : ~Works(f, x)'
      BY <2>2, <3>1, <3>4 DEF Waits, Works
    <3>6. ~Carried(f)'
      BY <3>1, <3>4, <3>5 DEF Carried
    <3>7. DecidedIsLeftAlone'
      BY <1>1, <2>1, <3>2, <3>6 DEF DecidedIsLeftAlone
    <3>8. TakenIsStarted'
      <4> SUFFICES ASSUME NEW x \in Worker,
                          workers'[x].pc \in {"validate", "convert", "fail",
                                              "complete"}
                   PROVE  files'[workers'[x].file].status # "pending"
        BY DEF TakenIsStarted
      <4>1. x # w /\ workers'[x] = workers[x]
        BY <2>2, <3>1
      <4>2. workers[x].file \in File /\ files[workers[x].file].status # "pending"
        BY <1>1, <4>1 DEF SlotsAreBusy, TakenIsStarted
      <4> QED
        BY <3>2, <4>1, <4>2 DEF FinalFile
    <3> QED
      BY <2>1, <3>7, <3>8
  <2>6. CASE /\ UNCHANGED files
             /\ \/ \E s \in {"ack", "retry"} : GoTo(w, s)
                \/ Validate(w) \/ ConvertOk(w) \/ ConvertFails(w)
                \/ Ack(w) \/ WorkerLost(w) \/ BrokerLost(w)
    <3>1. workers'[w].pc \in {"validate", "convert", "fail", "complete"} =>
            /\ workers[w].pc \in {"validate", "convert"}
            /\ workers'[w].file = f
      <4>1. CASE \E s \in {"ack", "retry"} : GoTo(w, s)
        BY <1>1, <4>1 DEF GoTo, Slot
      <4>2. CASE Validate(w) \/ ConvertOk(w) \/ ConvertFails(w)
        BY <1>4, <1>1, <4>2 DEF Validate, ConvertOk, ConvertFails, GoTo, Slot
      <4>3. CASE Ack(w)
        BY <1>1, <4>3 DEF Ack, IdleSlot
      <4>4. CASE WorkerLost(w) \/ BrokerLost(w)
        BY <4>4 DEF WorkerLost, BrokerLost, Fault, MessagesComeOnce
      <4> QED
        BY <2>6, <4>1, <4>2, <4>3, <4>4
    <3> QED
      BY <2>1, <2>3, <2>6, <3>1
  <2>7. \/ Load(w) /\ FileExists(f) /\ StartFile(f)
        \/ RecordFailure(w) /\ FailFile(f)
        \/ RecordSuccess(w) /\ CompleteFile(f, workers[w].doc)
        \/ /\ UNCHANGED files
           /\ \/ \E s \in {"ack", "retry"} : GoTo(w, s)
              \/ Validate(w) \/ ConvertOk(w) \/ ConvertFails(w)
              \/ Ack(w) \/ WorkerLost(w) \/ BrokerLost(w)
    <3>1. AfterRetryable(w) \in {"ack", "retry"}
      BY DEF AfterRetryable
    <3>2. CASE Load(w) \/ RecordFailure(w) \/ RecordSuccess(w)
      BY <1>4, <3>2 DEF Load, RecordFailure, RecordSuccess
    <3>3. CASE ConvertBlowsUp(w) \/ ConnectionLost(w) \/ TimeLimit(w)
               \/ PublishRetry(w)
      BY <3>1, <3>3 DEF ConvertBlowsUp, ConnectionLost, TimeLimit, PublishRetry
    <3>4. CASE \/ Validate(w) \/ ConvertOk(w) \/ ConvertFails(w)
               \/ Ack(w) \/ WorkerLost(w) \/ BrokerLost(w)
      BY <3>4 DEF Validate, ConvertOk, ConvertFails, Ack, WorkerLost, BrokerLost
    <3> QED
      BY <1>4, <3>2, <3>3, <3>4 DEF TaskStep, WorkerFault
  <2> QED
    BY <2>1, <2>4, <2>5, <2>6, <2>7
<1>5. \A w \in Worker : TaskStep(w) \/ WorkerFault(w) => workers[w].file \in File
  BY <1>1 DEF SlotsAreBusy, TaskStep, WorkerFault, Load, Validate, ConvertOk,
       ConvertFails, RecordFailure, RecordSuccess, PublishRetry, Ack,
       ConvertBlowsUp, ConnectionLost, WorkerLost, BrokerLost, TimeLimit
<1> QED
  BY <1>2, <1>3, <1>4, <1>5 DEF Next

LEMMA NextKeepsOnce ==
  ASSUME MessagesComeOnce
  PROVE  IInv /\ IInv' /\ DiskInv /\ OnceInv /\ [Next]_vars => OnceInv'
<1> SUFFICES ASSUME RestInv, TablesInv, RestInv', DiskInv, OnceInv, [Next]_vars
             PROVE  OnceInv'
  <2>1. IInv' => RestInv'
    BY DEF IInv, TypeOK, RestInv
  <2> QED
    BY <2>1, IInvParts
<1>1. CarriedOnce' /\ DecidedIsLeftAlone' /\ TakenIsStarted'
  BY CarriedIsUndecided DEF DiskInv
<1>2. UndecidedIsOpen' /\ ExistingIsCreated' /\ ProcessedIsExact'
  BY StepIsOnce, OnceRowsKeep DEF OnceInv
<1> QED
  BY <1>1, <1>2 DEF OnceInv

\* While no message is delivered twice, OnceInv holds throughout.
LEMMA OnceHolds == MessagesComeOnce => (Spec => [](IInv /\ DiskInv /\ OnceInv))
<1> SUFFICES ASSUME MessagesComeOnce
             PROVE  Spec => [](IInv /\ DiskInv /\ OnceInv)
  OBVIOUS
<1>1. Init => DiskInv
  BY DEF Init, RowsInit, NoFileRow, NoHandler, IdleSlot, DiskInv,
         RowsPointAtDisk, WorkIsKnown, DocsOnDisk, UnlinkIsLate, FileExists
<1>2. Init => OnceInv
  BY JobRowsAssumption
     DEF Init, RowsInit, NoFileRow, NoJobRow, NoHandler, IdleSlot, OnceInv,
         CarriedOnce, DecidedIsLeftAlone, FinalFile, TakenIsStarted, Waits, Works,
         UndecidedIsOpen, ExistingIsCreated, ProcessedIsExact, JobExists
<1> QED
  BY <1>1, <1>2, InitEstablishesIInv, NextKeepsIInv, NextKeepsDisk,
     NextKeepsOnce, PTL DEF Spec

\* One verdict, one increment.
THEOREM CounterIsExact == MessagesComeOnce => (Spec => []ProcessedIsExact)
<1>1. OnceInv => ProcessedIsExact
  BY DEF OnceInv
<1> QED
  BY <1>1, OnceHolds, PTL

\* What a reader has seen end stays as it is, or is deleted: a file to start or
\* to decide belongs to a job that has not ended.
THEOREM EndedStaysEnded == MessagesComeOnce => (Spec => TerminalIsStable)
<1> SUFFICES ASSUME MessagesComeOnce PROVE Spec => TerminalIsStable
  OBVIOUS
<1>1. ASSUME RestInv, TablesInv, OnceInv, [Next]_vars,
             NEW j \in Job, jobs[j].status \in TerminalJob
      PROVE  jobs'[j].status \in {jobs[j].status, "absent"}
  BY <1>1, StepIsOnce, EndedIsOver DEF OnceInv
<1>2. IInv /\ OnceInv /\ [Next]_vars =>
        [\A j \in Job : jobs[j].status \in TerminalJob =>
            jobs[j]'.status \in {jobs[j].status, "absent"}]_vars
  BY <1>1, IInvParts
<1> QED
  BY <1>2, OnceHolds, PTL DEF Spec, TerminalIsStable

\* While no message is delivered twice, what a reader of GET /jobs/{id} sees of
\* the queue, the workers, the retries and the faults is a behaviour of
\* JobContract: each file gets one verdict, the job closes with the last of them.
THEOREM ImplementsContract == MessagesComeOnce => (Spec => KeepsContract)
<1> SUFFICES ASSUME MessagesComeOnce PROVE Spec => KeepsContract
  OBVIOUS
<1>1. Init => Contract!CInit
  BY RowsInitImplements DEF Init
<1>2. IInv /\ IInv' /\ OnceInv /\ [Next]_vars => [Contract!CNext]_Contract!cvars
  <2> SUFFICES ASSUME IInv, IInv', OnceInv, [Next]_vars
               PROVE  [Contract!CNext]_Contract!cvars
    OBVIOUS
  <2>1. TablesInv /\ RestInv
    BY IInvParts
  <2>2. TablesInv'
    BY DEF IInv
  <2> QED
    BY <2>1, <2>2, StepIsOnce, OnceRowsImplement DEF OnceInv
<1> QED
  BY <1>1, <1>2, OnceHolds, PTL DEF Spec, KeepsContract, Contract!CSpec

(***************************************************************************)
(* No file is forgotten: NoStrandedFile, from RecoverInv                   *)
(***************************************************************************)

\* A step that takes no file but g from its carrier.
LEMMA CarriersButOneStay ==
  ASSUME NEW g,
         queue \in [Message -> Nat], queue' \in [Message -> Nat],
         \A m \in Message : m.file # g => queue'[m] >= queue[m],
         \A w \in Worker :
           workers[w].pc \notin {"idle", "ack"} /\ workers[w].file # g =>
             /\ workers'[w].pc \notin {"idle", "ack"}
             /\ workers'[w].file = workers[w].file,
         api.dispatch \ {g} \subseteq api'.dispatch
  PROVE  \A f \in File : f # g /\ Carried(f) => Carried(f)'
<1> SUFFICES ASSUME NEW f \in File, Carried(f), f # g
             PROVE  Carried(f)'
  OBVIOUS
<1>1. CASE f \in api.dispatch
  BY <1>1 DEF Carried
<1>2. ASSUME NEW m \in Message, Waits(f, m)
      PROVE  Waits(f, m)'
  <2>1. queue[m] \in Nat /\ queue'[m] \in Nat /\ queue'[m] >= queue[m]
    BY <1>2 DEF Waits
  <2> QED
    BY <1>2, <2>1 DEF Waits
<1>3. ASSUME NEW w \in Worker, Works(f, w)
      PROVE  Works(f, w)'
  BY <1>3 DEF Works
<1> QED
  BY <1>1, <1>2, <1>3 DEF Carried

\* A step that takes no file from its carrier.
LEMMA CarriersStay ==
  ASSUME queue \in [Message -> Nat], queue' \in [Message -> Nat],
         \A m \in Message : queue'[m] >= queue[m],
         \A w \in Worker : workers[w].pc \notin {"idle", "ack"} =>
           /\ workers'[w].pc \notin {"idle", "ack"}
           /\ workers'[w].file = workers[w].file,
         api.dispatch \subseteq api'.dispatch
  PROVE  \A f \in File : Carried(f) => Carried(f)'
<1> SUFFICES ASSUME NEW f \in File, Carried(f)
             PROVE  Carried(f)'
  OBVIOUS
<1>1. CASE f \in api.dispatch
  BY <1>1 DEF Carried
<1>2. ASSUME NEW m \in Message, Waits(f, m)
      PROVE  Waits(f, m)'
  <2>1. queue[m] \in Nat /\ queue'[m] \in Nat /\ queue'[m] >= queue[m]
    BY <1>2 DEF Waits
  <2> QED
    BY <1>2, <2>1 DEF Waits
<1>3. ASSUME NEW w \in Worker, Works(f, w)
      PROVE  Works(f, w)'
  BY <1>3 DEF Works
<1> QED
  BY <1>1, <1>2, <1>3 DEF Carried

\* A message that is published again is in the queue, which only grows.
LEMMA PublishedWaits ==
  ASSUME queue \in [Message -> Nat], NEW m \in Message,
         queue' = [queue EXCEPT ![m] = @ + 1]
  PROVE  /\ queue' \in [Message -> Nat]
         /\ \A n \in Message : queue'[n] >= queue[n]
         /\ queue'[m] > 0
<1>1. \A n \in Message : queue[n] \in Nat
  OBVIOUS
<1>2. \A n \in Message : queue'[n] = IF n = m THEN queue[n] + 1 ELSE queue[n]
  OBVIOUS
<1>3. \A n \in Message : queue'[n] \in Nat /\ queue'[n] >= queue[n]
  BY <1>1, <1>2
<1>4. queue' = [n \in Message |-> queue'[n]]
  OBVIOUS
<1> QED
  BY <1>1, <1>2, <1>3, <1>4

\* What a message or a slot has spent stays paid for by the faults.
LEMMA StillPaidFor ==
  ASSUME RestInv, RestInv', RetriesArePaidFor, faults' >= faults,
         \A m \in Message : queue'[m] > 0 => queue[m] > 0 \/ m.retries <= faults',
         \A w \in Worker : workers'[w].pc # "idle" =>
           \/ workers'[w] = workers[w]
           \/ /\ workers'[w].retries <= faults'
              /\ workers'[w].pc = "retry" => workers'[w].retries < faults'
  PROVE  RetriesArePaidFor'
<1>1. faults \in Nat /\ faults' \in Nat
  BY ConversionAssumption DEF RestInv
<1>2. ASSUME NEW m \in Message, queue'[m] > 0
      PROVE  m.retries <= faults'
  <2>1. m.retries \in Nat
    BY DEF Message
  <2>2. CASE queue[m] > 0
    <3>1. m.retries <= faults
      BY <2>2 DEF RetriesArePaidFor
    <3> QED
      BY <1>1, <2>1, <3>1
  <2> QED
    BY <1>2, <2>2
<1>3. ASSUME NEW w \in Worker, workers'[w].pc # "idle"
      PROVE  /\ workers'[w].retries <= faults'
             /\ workers'[w].pc = "retry" => workers'[w].retries < faults'
  <2>1. CASE workers'[w] = workers[w]
    <3>1. workers[w].retries \in Nat
      BY DEF RestInv, Slot
    <3>2. /\ workers[w].retries <= faults
          /\ workers[w].pc = "retry" => workers[w].retries < faults
      BY <1>3, <2>1 DEF RetriesArePaidFor
    <3> QED
      BY <1>1, <2>1, <3>1, <3>2
  <2> QED
    BY <1>3, <2>1
<1> QED
  BY <1>2, <1>3 DEF RetriesArePaidFor

\* A task carries its file until the file has a verdict, or hands it back to the
\* queue.
LEMMA TaskKeepsCarrying ==
  ASSUME RestInv, RestInv', TablesInv, RecoverInv, NothingIsLost,
         NEW w \in Worker, NEW f \in File, f = workers[w].file,
         TaskStep(w) \/ WorkerFault(w)
  PROVE  RecoverInv'
<1>1. /\ queue \in [Message -> Nat] /\ queue' \in [Message -> Nat]
      /\ workers \in [Worker -> Slot] /\ workers[w] \in Slot
      /\ files \in [File -> FileRow]
      /\ faults \in Nat /\ MaxRetries \in Nat /\ MaxFaults \in Nat
      /\ workers[w].retries \in Nat
      /\ UndecidedIsCarried /\ RetriesArePaidFor
  BY ConversionAssumption DEF RestInv, RecoverInv, TablesInv, RowsTypeOK, Slot
<1>2. UNCHANGED api
  BY DEF TaskStep, WorkerFault, Load, Validate, ConvertOk, ConvertFails,
         RecordFailure, RecordSuccess, PublishRetry, Ack, ConvertBlowsUp,
         ConnectionLost, WorkerLost, BrokerLost, TimeLimit
<1>3. /\ workers[w].pc # "idle"
      /\ \A x \in Worker : x # w => workers'[x] = workers[x]
  BY <1>1 DEF TaskStep, WorkerFault, Load, Validate, ConvertOk, ConvertFails,
         RecordFailure, RecordSuccess, PublishRetry, Ack, ConvertBlowsUp,
         ConnectionLost, WorkerLost, BrokerLost, TimeLimit, GoTo, Committed
<1>4. \A m \in Message : queue[m] >= queue[m]
  BY <1>1
<1>5. workers[w].retries <= faults
  BY <1>3, <1>1 DEF RetriesArePaidFor
<1>6. \A g \in File : g # f => files'[g] = files[g]
  BY <1>1, <1>3 DEF TaskStep, WorkerFault, Load, Validate, ConvertOk, ConvertFails,
         RecordFailure, RecordSuccess, PublishRetry, Ack, ConvertBlowsUp,
         ConnectionLost, WorkerLost, BrokerLost, TimeLimit, StartFile, FailFile,
         CompleteFile, FileSettled
<1>7. \/ UNCHANGED faults
      \/ faults' = faults + 1 /\ faults < MaxFaults
  BY DEF TaskStep, WorkerFault, Load, Validate, ConvertOk, ConvertFails,
         RecordFailure, RecordSuccess, PublishRetry, Ack, ConvertBlowsUp,
         ConnectionLost, WorkerLost, BrokerLost, TimeLimit, Committed, Fault
<1>8. faults' >= faults /\ workers[w].retries <= faults'
  BY <1>1, <1>5, <1>7
<1>9. ASSUME NEW k, Fault(k)
      PROVE  AfterRetryable(w) = "retry" /\ workers[w].retries < faults'
  <2>1. faults' = faults + 1 /\ faults < MaxFaults /\ MaxFaults <= MaxRetries
    BY <1>9 DEF Fault, NothingIsLost
  <2> QED
    BY <1>1, <1>5, <2>1 DEF AfterRetryable
<1>10. ASSUME NEW s, NEW d, s \notin {"idle", "ack"}, UNCHANGED queue,
              workers[w].pc \notin {"idle", "ack"},
              workers' = [workers EXCEPT ![w].pc = s, ![w].doc = d],
              s = "retry" => workers[w].retries < faults'
       PROVE  RecoverInv'
  <2>1. /\ workers'[w].pc = s /\ workers'[w].file = f
        /\ workers'[w].retries = workers[w].retries
    BY <1>1, <1>10 DEF Slot
  <2>2. \A g \in File : Carried(g) => Carried(g)'
    BY <1>1, <1>2, <1>3, <1>4, <1>10, <2>1, CarriersStay
  <2>3. Carried(f)'
    BY <1>10, <2>1 DEF Carried, Works
  <2>4. UndecidedIsCarried'
    BY <1>1, <1>6, <2>2, <2>3 DEF UndecidedIsCarried
  <2>5. RetriesArePaidFor'
    BY <1>1, <1>3, <1>8, <1>10, <2>1, StillPaidFor
  <2> QED
    BY <2>4, <2>5 DEF RecoverInv
<1>11. ASSUME UNCHANGED queue, GoTo(w, "ack"),
              files'[f].status \notin {"pending", "processing"}
       PROVE  RecoverInv'
  <2>1. workers'[w].pc = "ack" /\ workers'[w].retries = workers[w].retries
    BY <1>1, <1>11 DEF Slot, GoTo
  <2>2. \A g \in File : g # f /\ Carried(g) => Carried(g)'
    BY <1>1, <1>2, <1>3, <1>4, <1>11, CarriersButOneStay
  <2>3. UndecidedIsCarried'
    BY <1>1, <1>6, <1>11, <2>2 DEF UndecidedIsCarried
  <2>4. RetriesArePaidFor'
    BY <1>1, <1>3, <1>8, <1>11, <2>1, StillPaidFor
  <2> QED
    BY <2>3, <2>4 DEF RecoverInv
<1>12. ASSUME NEW s, Committed(w, s), s \notin {"idle", "retry"},
              workers[w].pc \notin {"idle", "ack"}, UNCHANGED queue,
              s = "ack" => files'[f].status \notin {"pending", "processing"}
       PROVE  RecoverInv'
  <2>1. CASE GoTo(w, s)
    BY <1>10, <1>11, <1>12, <2>1 DEF GoTo
  <2>2. CASE Fault("ambiguous") /\ GoTo(w, AfterRetryable(w))
    BY <1>9, <1>10, <1>12, <2>2 DEF GoTo
  <2> QED
    BY <1>12, <2>1, <2>2 DEF Committed
<1>13. CASE Load(w)
  <2>1. Escaping = {} /\ UNCHANGED queue
    BY <1>13 DEF NothingIsLost, Load
  <2>2. CASE ~FileExists(f) /\ GoTo(w, "ack") /\ UNCHANGED files
    BY <1>11, <2>1, <2>2 DEF FileExists
  <2>3. CASE Committed(w, "validate")
    BY <1>12, <1>13, <2>1, <2>3 DEF Load
  <2> QED
    BY <1>13, <2>1, <2>2, <2>3 DEF Load
<1>14. CASE RecordFailure(w)
  <2>1. UNCHANGED queue
    BY <1>14 DEF RecordFailure
  <2>2. CASE ~FileExists(f) /\ GoTo(w, "ack") /\ UNCHANGED files
    BY <1>11, <2>1, <2>2 DEF FileExists
  <2>3. CASE FailFile(f) /\ Committed(w, "ack")
    <3>1. files'[f].status = "failed"
      BY <1>1, <2>3 DEF FailFile, FileSettled, FileRow
    <3> QED
      BY <1>12, <1>14, <2>1, <2>3, <3>1 DEF RecordFailure
  <2> QED
    BY <1>14, <2>2, <2>3 DEF RecordFailure
<1>15. CASE RecordSuccess(w)
  <2>1. UNCHANGED queue
    BY <1>15 DEF RecordSuccess
  <2>2. CASE ~FileExists(f) /\ GoTo(w, "ack") /\ UNCHANGED files
    BY <1>11, <2>1, <2>2 DEF FileExists
  <2>3. CASE CompleteFile(f, workers[w].doc) /\ Committed(w, "ack")
    <3>1. files'[f].status = "done"
      BY <1>1, <2>3 DEF CompleteFile, FileSettled, FileRow
    <3> QED
      BY <1>12, <1>15, <2>1, <2>3, <3>1 DEF RecordSuccess
  <2> QED
    BY <1>15, <2>2, <2>3 DEF RecordSuccess
<1>16. CASE Validate(w) \/ ConvertOk(w) \/ ConvertFails(w)
  <2>1. UNCHANGED queue /\ workers[w].pc \notin {"idle", "ack"}
    BY <1>16 DEF Validate, ConvertOk, ConvertFails
  <2>2. \E s, d : /\ workers' = [workers EXCEPT ![w].pc = s, ![w].doc = d]
                 /\ s \notin {"idle", "ack", "retry"}
    <3>1. CASE ConvertOk(w)
      <4>1. workers' = [workers EXCEPT ![w].pc = "complete", ![w].doc = runs[f] + 1]
        BY <1>16, <3>1 DEF ConvertOk
      <4> WITNESS "complete", runs[f] + 1
      <4> QED
        BY <4>1
    <3>2. ASSUME NEW s \in {"convert", "fail"}, GoTo(w, s)
          PROVE  \E t, d : /\ workers' = [workers EXCEPT ![w].pc = t, ![w].doc = d]
                          /\ t \notin {"idle", "ack", "retry"}
      <4>1. workers' = [workers EXCEPT ![w].pc = s, ![w].doc = 0]
        BY <3>2 DEF GoTo
      <4> QED
        BY <4>1
    <3>3. Validate(w) \/ ConvertFails(w) =>
            \E s \in {"convert", "fail"} : GoTo(w, s)
      BY DEF Validate, ConvertFails
    <3> QED
      BY <1>16, <3>1, <3>2, <3>3
  <2> QED
    BY <1>10, <2>1, <2>2
<1>17. CASE ConnectionLost(w)
  <2>1. /\ UNCHANGED queue /\ workers[w].pc \notin {"idle", "ack"}
        /\ Fault("db") /\ GoTo(w, AfterRetryable(w))
    BY <1>17 DEF ConnectionLost
  <2> QED
    BY <1>9, <1>10, <2>1 DEF GoTo
<1>18. CASE PublishRetry(w)
  <2> DEFINE m == [file |-> f, retries |-> workers[w].retries + 1]
  <2>1. /\ workers[w].pc = "retry" /\ GoTo(w, "ack") /\ UNCHANGED files
        /\ queue' = [queue EXCEPT ![m] = @ + 1]
    BY <1>18 DEF PublishRetry, Fault, NothingIsLost
  <2>2. workers[w].retries < faults
    BY <1>1, <2>1 DEF RetriesArePaidFor
  <2>3. m \in Message /\ m.file = f /\ m.retries <= faults
    <3>1. faults <= MaxFaults
      BY DEF RestInv
    <3>2. workers[w].retries + 1 \in 0..MaxRetries
      BY <1>1, <2>2, <3>1 DEF NothingIsLost
    <3> QED
      BY <1>1, <2>2, <3>2 DEF Message
  <2>4. workers'[w].pc = "ack" /\ workers'[w].retries = workers[w].retries
    BY <1>1, <2>1 DEF Slot, GoTo
  <2> HIDE DEF m
  <2>5. queue'[m] > 0 /\ \A n \in Message : queue'[n] >= queue[n]
    BY <1>1, <2>1, <2>3, PublishedWaits
  <2>6. \A g \in File : g # f /\ Carried(g) => Carried(g)'
    BY <1>1, <1>2, <1>3, <2>5, CarriersButOneStay
  <2>7. Carried(f)'
    BY <2>3, <2>5 DEF Carried, Waits
  <2>8. UndecidedIsCarried'
    BY <1>1, <2>1, <2>6, <2>7 DEF UndecidedIsCarried
  <2>9. \A n \in Message : queue'[n] > 0 => queue[n] > 0 \/ n.retries <= faults'
    <3> SUFFICES ASSUME NEW n \in Message, queue'[n] > 0
                 PROVE  queue[n] > 0 \/ n.retries <= faults'
      OBVIOUS
    <3>1. CASE n = m
      <4>1. m.retries \in Nat
        BY <2>3 DEF Message
      <4> QED
        BY <1>1, <1>7, <2>3, <3>1, <4>1
    <3>2. CASE n # m
      BY <1>1, <2>1, <3>2
    <3> QED
      BY <3>1, <3>2
  <2>10. RetriesArePaidFor'
    BY <1>1, <1>3, <1>8, <2>4, <2>9, StillPaidFor
  <2> QED
    BY <2>8, <2>10 DEF RecoverInv
<1>19. CASE Ack(w)
  <2>1. /\ workers[w].pc = "ack" /\ workers'[w].pc = "idle"
        /\ UNCHANGED <<files, queue>>
    BY <1>1, <1>19 DEF Ack, IdleSlot
  <2>2. \A g \in File : Carried(g) => Carried(g)'
    BY <1>1, <1>2, <1>3, <1>4, <2>1, CarriersStay
  <2>3. UndecidedIsCarried'
    BY <1>1, <2>1, <2>2 DEF UndecidedIsCarried
  <2>4. RetriesArePaidFor'
    BY <1>1, <1>3, <1>8, <2>1, StillPaidFor
  <2> QED
    BY <2>3, <2>4 DEF RecoverInv
<1>20. CASE WorkerLost(w) \/ BrokerLost(w)
  <2> DEFINE m == [file |-> f, retries |-> workers[w].retries]
  <2>1. /\ workers[w].held /\ UNCHANGED files
        /\ queue' = [queue EXCEPT ![m] = @ + 1]
    BY <1>20 DEF WorkerLost, BrokerLost, Requeued, Fault, NothingIsLost
  <2>2. m \in Message /\ m.file = f /\ m.retries = workers[w].retries
    BY <1>1 DEF Message, Slot
  <2>3. \/ workers'[w].pc = "idle"
        \/ /\ workers'[w].pc = workers[w].pc
           /\ workers'[w].file = f
           /\ workers'[w].retries = workers[w].retries
    BY <1>1, <1>20 DEF WorkerLost, BrokerLost, IdleSlot, Slot
  <2> HIDE DEF m
  <2>4. queue'[m] > 0 /\ \A n \in Message : queue'[n] >= queue[n]
    BY <1>1, <2>1, <2>2, PublishedWaits
  <2>5. \A g \in File : g # f /\ Carried(g) => Carried(g)'
    BY <1>1, <1>2, <1>3, <2>4, CarriersButOneStay
  <2>6. Carried(f)'
    BY <2>2, <2>4 DEF Carried, Waits
  <2>7. UndecidedIsCarried'
    BY <1>1, <2>1, <2>5, <2>6 DEF UndecidedIsCarried
  <2>8. \A n \in Message : queue'[n] > 0 => queue[n] > 0 \/ n.retries <= faults'
    <3> SUFFICES ASSUME NEW n \in Message, queue'[n] > 0
                 PROVE  queue[n] > 0 \/ n.retries <= faults'
      OBVIOUS
    <3>1. CASE n = m
      BY <1>8, <2>2, <3>1
    <3>2. CASE n # m
      BY <1>1, <2>1, <3>2
    <3> QED
      BY <3>1, <3>2
  <2>9. workers'[w].pc # "idle" =>
          /\ workers'[w].retries <= faults'
          /\ workers'[w].pc = "retry" => workers'[w].retries < faults'
    <3> SUFFICES ASSUME workers'[w].pc # "idle"
                 PROVE  workers'[w].pc = "retry" => workers'[w].retries < faults'
      BY <1>8, <2>3
    <3>1. workers[w].pc = "retry" => workers[w].retries < faults
      BY <1>1 DEF RetriesArePaidFor
    <3> QED
      BY <1>1, <1>7, <2>3, <3>1
  <2>10. RetriesArePaidFor'
    BY <1>1, <1>3, <1>8, <2>8, <2>9, StillPaidFor
  <2> QED
    BY <2>7, <2>10 DEF RecoverInv
<1>21. CASE ConvertBlowsUp(w) \/ TimeLimit(w)
  BY <1>21 DEF ConvertBlowsUp, TimeLimit, Fault, NothingIsLost
<1> QED
  BY <1>13, <1>14, <1>15, <1>16, <1>17, <1>18, <1>19, <1>20, <1>21
     DEF TaskStep, WorkerFault

\* So do the queue, the API process and the slots that take a message.
LEMMA OthersKeepCarrying ==
  ASSUME RestInv, RestInv', TablesInv, RecoverInv, NothingIsLost,
         \/ \E j \in Job : CreateJob(j) \/ DeleteJob(j)
         \/ ApiStep
         \/ \E w \in Worker : Receive(w)
         \/ HandlerDies
         \/ Evict
         \/ UNCHANGED vars
  PROVE  RecoverInv'
<1>1. /\ queue \in [Message -> Nat] /\ queue' \in [Message -> Nat]
      /\ workers \in [Worker -> Slot]
      /\ files \in [File -> FileRow]
      /\ api \in Handler
      /\ faults \in Nat
      /\ UndecidedIsCarried /\ RetriesArePaidFor
  BY ConversionAssumption DEF RestInv, RecoverInv, TablesInv, RowsTypeOK
<1>2. /\ \A m \in Message : queue[m] >= queue[m]
      /\ faults >= faults
  BY <1>1
<1>3. CASE \/ \E j \in Job : CreateJob(j) \/ DeleteJob(j)
           \/ \E p \in api.unlink : Unlink(p)
           \/ UNCHANGED vars
  <2>1. UNCHANGED <<queue, workers>>
    BY <1>3 DEF CreateJob, DeleteJob, Unlink, vars
  <2>2. faults' >= faults
    BY <1>1, <1>3 DEF CreateJob, DeleteJob, Unlink, Fault, vars
  <2>3. api.dispatch \subseteq api'.dispatch
    <3>1. ASSUME NEW j \in Job, CreateJob(j)
          PROVE  api.dispatch = {}
      BY <3>1 DEF CreateJob, ApiFree, NoHandler
    <3>2. CASE (\E j \in Job : DeleteJob(j)) \/ \E p \in api.unlink : Unlink(p)
      BY <1>1, <3>2 DEF DeleteJob, Unlink, Handler
    <3> QED
      BY <1>3, <3>1, <3>2 DEF vars
  <2>4. \A f \in File : Carried(f) => Carried(f)'
    BY <1>1, <1>2, <2>1, <2>3, CarriersStay
  <2>5. ASSUME NEW f \in File, files'[f].status \in {"pending", "processing"}
        PROVE  files'[f] = files[f] \/ f \in api'.dispatch
    <3>1. ASSUME NEW j \in Job, CreateJob(j)
          PROVE  files'[f] = files[f] \/ f \in api'.dispatch
      <4>1. api'.dispatch = FilesOf(j)
        BY <1>1, <3>1 DEF CreateJob, Handler
      <4> QED
        BY <3>1, <4>1 DEF CreateJob, InsertJob
    <3>2. ASSUME NEW j \in Job, DeleteJob(j)
          PROVE  files'[f] = files[f]
      BY <2>5, <3>2 DEF DeleteJob, RemoveJob, NoFileRow
    <3> QED
      BY <1>3, <3>1, <3>2 DEF Unlink, vars
  <2>6. UndecidedIsCarried'
    BY <1>1, <2>4, <2>5 DEF UndecidedIsCarried, Carried
  <2>7. RetriesArePaidFor'
    BY <1>1, <2>1, <2>2, StillPaidFor
  <2> QED
    BY <2>6, <2>7 DEF RecoverInv
<1>4. ASSUME NEW f \in File, Dispatch(f)
      PROVE  RecoverInv'
  <2> DEFINE m == [file |-> f, retries |-> 0]
  <2>1. m \in Message /\ m.file = f /\ m.retries = 0
    BY ConversionAssumption DEF Message
  <2>2. /\ UNCHANGED <<files, workers, faults>>
        /\ queue' = [queue EXCEPT ![m] = @ + 1]
    BY <1>4 DEF Dispatch
  <2>3. api'.dispatch = api.dispatch \ {f}
    BY <1>1, <1>4 DEF Dispatch, Handler
  <2> HIDE DEF m
  <2>4. queue'[m] > 0 /\ \A n \in Message : queue'[n] >= queue[n]
    BY <1>1, <2>1, <2>2, PublishedWaits
  <2>5. \A g \in File : g # f /\ Carried(g) => Carried(g)'
    BY <1>1, <2>2, <2>3, <2>4, CarriersButOneStay
  <2>6. Carried(f)'
    BY <2>1, <2>4 DEF Carried, Waits
  <2>7. UndecidedIsCarried'
    BY <1>1, <2>2, <2>5, <2>6 DEF UndecidedIsCarried
  <2>8. \A n \in Message : queue'[n] > 0 => queue[n] > 0 \/ n.retries <= faults'
    BY <1>1, <2>1, <2>2
  <2>9. RetriesArePaidFor'
    BY <1>1, <1>2, <2>2, <2>8, StillPaidFor
  <2> QED
    BY <2>7, <2>9 DEF RecoverInv
<1>5. ASSUME NEW w \in Worker, Receive(w)
      PROVE  RecoverInv'
  <2>1. PICK m \in Message :
          /\ queue[m] > 0
          /\ queue' = [queue EXCEPT ![m] = @ - 1]
          /\ workers' = [workers EXCEPT ![w] =
               [pc |-> "load", file |-> m.file, retries |-> m.retries,
                held |-> TRUE, doc |-> 0]]
    BY <1>5 DEF Receive
  <2>2. UNCHANGED <<files, api, faults>> /\ workers[w].pc = "idle"
    BY <1>5 DEF Receive
  <2>3. /\ workers'[w].pc = "load" /\ workers'[w].file = m.file
        /\ workers'[w].retries = m.retries
        /\ \A x \in Worker : x # w => workers'[x] = workers[x]
    BY <1>1, <2>1
  <2>4. \A n \in Message : n # m => queue'[n] = queue[n]
    BY <1>1, <2>1
  <2>5. m.retries <= faults
    BY <1>1, <2>1 DEF RetriesArePaidFor
  <2>6. \A g \in File : g # m.file /\ Carried(g) => Carried(g)'
    <3>1. \A n \in Message : n.file # m.file => queue'[n] >= queue[n]
      BY <1>2, <2>4
    <3> QED
      BY <1>1, <2>2, <2>3, <3>1, CarriersButOneStay
  <2>7. Carried(m.file)'
    BY <2>3 DEF Carried, Works
  <2>8. UndecidedIsCarried'
    BY <1>1, <2>2, <2>6, <2>7 DEF UndecidedIsCarried
  <2>9. \A n \in Message : queue'[n] > 0 => queue[n] > 0
    BY <2>1, <2>4
  <2>10. RetriesArePaidFor'
    BY <1>1, <1>2, <2>2, <2>3, <2>5, <2>9, StillPaidFor
  <2> QED
    BY <2>8, <2>10 DEF RecoverInv
<1>6. CASE HandlerDies \/ Evict
  BY <1>6 DEF HandlerDies, Evict, Fault, NothingIsLost
<1> QED
  BY <1>3, <1>4, <1>5, <1>6 DEF ApiStep

\* No file is forgotten: crashes, redeliveries, lost replies and dropped
\* connections, up to MAX_RETRIES of them, leave someone at work on every file
\* that has no verdict.
THEOREM NobodyIsForgotten == NothingIsLost => (Spec => []NoStrandedFile)
<1> SUFFICES ASSUME NothingIsLost PROVE Spec => []NoStrandedFile
  OBVIOUS
<1>1. Init => RecoverInv
  BY DEF Init, RowsInit, NoFileRow, IdleSlot, RecoverInv, UndecidedIsCarried,
         RetriesArePaidFor
<1>2. IInv /\ IInv' /\ RecoverInv /\ [Next]_vars => RecoverInv'
  <2> SUFFICES ASSUME RestInv, TablesInv, RestInv', RecoverInv, [Next]_vars
               PROVE  RecoverInv'
    <3>1. IInv' => RestInv'
      BY DEF IInv, TypeOK, RestInv
    <3> QED
      BY <3>1, IInvParts
  <2>1. ASSUME NEW w \in Worker, TaskStep(w) \/ WorkerFault(w)
        PROVE  RecoverInv'
    <3>1. workers[w].pc # "idle"
      BY <2>1 DEF TaskStep, WorkerFault, Load, Validate, ConvertOk, ConvertFails,
           RecordFailure, RecordSuccess, PublishRetry, Ack, ConvertBlowsUp,
           ConnectionLost, WorkerLost, BrokerLost, TimeLimit
    <3>2. workers[w].file \in File
      BY <3>1 DEF RestInv, SlotsAreBusy
    <3> QED
      BY <2>1, <3>2, TaskKeepsCarrying
  <2> QED
    BY <2>1, OthersKeepCarrying DEF Next
<1>3. IInv /\ RecoverInv => NoStrandedFile
  <2> SUFFICES ASSUME UndecidedIsCarried, NEW f \in File,
                      files[f].status \in {"pending", "processing"}
               PROVE  InFlight(f)
    BY DEF RecoverInv, NoStrandedFile
  <2> QED
    BY DEF UndecidedIsCarried, Carried, Waits, Works, InFlight
<1> QED
  BY <1>1, <1>2, <1>3, Consistent, PTL DEF Spec

(***************************************************************************)
(* What is left on disk: DiskAccountedFor, from DebtInv                    *)
(*                                                                         *)
(* Every file owes something, and the faults pay for what is owed beyond   *)
(* that: an output that is left behind, and a carrier, for it may come to  *)
(* displace the output the row has, or to lose its own.  A file without an *)
(* output owes one carrier nothing: what that one records displaces        *)
(* nothing.  So a file that has an output, or no carrier, owes a mark of   *)
(* its own ("closed") instead, and there is a debt for every file.         *)
(***************************************************************************)

Closed(f) == ~FileExists(f) \/ files[f].output # 0 \/ ~Carried(f)

\* What file f owes: a debt of kind k, for message or slot x, with number n.
DebtKind == {"left", "closed", "loop", "message", "slot"}
Owed(f, k, x, n) ==
  \/ k = "left" /\ x = None /\ <<f, n>> \in disk /\ LeftBehind(<<f, n>>)
  \/ k = "closed" /\ x = None /\ n = 0 /\ Closed(f)
  \/ /\ FileExists(f)
     /\ \/ k = "loop" /\ x = None /\ n = 0 /\ f \in api.dispatch
        \/ k = "message" /\ x \in Message /\ x.file = f /\ n \in 1..queue[x]
        \/ k = "slot" /\ x \in Worker /\ n = 0 /\ Works(f, x)
Place == Message \cup Worker \cup {None}
Debt  == {t \in File \X DebtKind \X Place \X Nat :
            \E f \in File, k \in DebtKind, x \in Place, n \in Nat :
              t = <<f, k, x, n>> /\ Owed(f, k, x, n)}

DebtIsPaid == /\ IsFiniteSet(Debt)
              /\ Cardinality(Debt) <= faults + Cardinality(File)
DocsAtComplete ==
  \A w \in Worker : workers[w].pc # "complete" => workers[w].doc = 0
DiskIsKnown == \A p \in disk : JobOf[p[1]] \in created
DebtInv == DebtIsPaid /\ DocsAtComplete /\ DiskIsKnown /\ ExistingIsCreated

\* The image of a finite set under a function is no larger.
LEMMA ImageIsSmaller ==
  ASSUME NEW S, IsFiniteSet(S), NEW g, NEW T, T \subseteq {g[t] : t \in S}
  PROVE  IsFiniteSet(T) /\ Cardinality(T) <= Cardinality(S)
<1> DEFINE R == {t \in S : g[t] \in T}
           h == [t \in R |-> g[t]]
<1>1. /\ IsFiniteSet(R) /\ Cardinality(R) <= Cardinality(S)
  BY FS_Subset
<1>2. h \in Surjection(R, T)
  BY DEF Surjection
<1>3. /\ IsFiniteSet(T) /\ Cardinality(T) <= Cardinality(R)
  <2> HIDE DEF R, h
  <2> QED
    BY <1>1, <1>2, FS_Surjection
<1>4. /\ Cardinality(T) \in Nat /\ Cardinality(R) \in Nat
      /\ Cardinality(S) \in Nat
  BY <1>1, <1>3, FS_CardinalityType
<1> HIDE DEF R
<1> QED
  BY <1>1, <1>3, <1>4

\* The debts of C, one at most, are new; if there is one, a fault pays for it.
PaidBy(C) == \/ C = {} /\ faults' >= faults
             \/ (\E c : C = {c}) /\ faults' = faults + 1

\* What is owed after a step is the image of what was owed before it, but for
\* one debt that a fault pays.
LEMMA DebtFollows ==
  ASSUME DebtIsPaid, faults \in Nat, faults' \in Nat, NEW g, NEW C,
         PaidBy(C),
         Debt' \subseteq {g[t] : t \in Debt} \cup C
  PROVE  DebtIsPaid'
<1> DEFINE D == Debt
           N == Cardinality(File)
           I == {g[t] : t \in D}
<1>1. /\ IsFiniteSet(D) /\ Cardinality(D) \in Nat
      /\ Cardinality(D) <= faults + N
  BY FS_CardinalityType DEF DebtIsPaid
<1>2. N \in Nat
  BY JobRowsAssumption, FS_CardinalityType
<1> HIDE DEF D, N
<1>3. IsFiniteSet(I) /\ Cardinality(I) <= Cardinality(D)
  BY <1>1, ImageIsSmaller
<1>4. Cardinality(I) \in Nat
  BY <1>3, FS_CardinalityType
<1> HIDE DEF I
<1>5. CASE C = {} /\ faults' >= faults
  <2>1. Debt' \in SUBSET I
    BY <1>5 DEF I, D
  <2>2. /\ IsFiniteSet(Debt') /\ Cardinality(Debt') <= Cardinality(I)
    BY <1>3, <2>1, FS_Subset
  <2>3. Cardinality(Debt') \in Nat
    BY <2>2, FS_CardinalityType
  <2>4. Cardinality(Debt') <= faults' + N
    BY <1>1, <1>2, <1>3, <1>4, <1>5, <2>2, <2>3
  <2> QED
    BY <2>2, <2>4 DEF DebtIsPaid, N
<1>6. ASSUME NEW c, C = {c}, faults' = faults + 1
      PROVE  DebtIsPaid'
  <2> DEFINE J == I \cup {c}
  <2>1. Debt' \in SUBSET J
    BY <1>6 DEF I, D
  <2>2. /\ IsFiniteSet(J)
        /\ Cardinality(J) \in {Cardinality(I), Cardinality(I) + 1}
    BY <1>3, FS_AddElement
  <2> HIDE DEF J
  <2>3. /\ IsFiniteSet(Debt') /\ Cardinality(Debt') <= Cardinality(J)
    BY <2>1, <2>2, FS_Subset
  <2>4. Cardinality(Debt') \in Nat
    BY <2>3, FS_CardinalityType
  <2>5. Cardinality(Debt') <= faults' + N
    BY <1>1, <1>2, <1>3, <1>4, <1>6, <2>2, <2>3, <2>4
  <2> QED
    BY <2>3, <2>5 DEF DebtIsPaid, N
<1> QED
  BY <1>5, <1>6 DEF PaidBy

\* The same for a step that owes nothing new but C, ...
OwesNew(C) ==
  \A f \in File, k \in DebtKind, x \in Place, n \in Nat :
    Owed(f, k, x, n)' => Owed(f, k, x, n) \/ <<f, k, x, n>> \in C

LEMMA DebtStays ==
  ASSUME DebtIsPaid, faults \in Nat, faults' \in Nat, NEW C,
         PaidBy(C), OwesNew(C)
  PROVE  DebtIsPaid'
<1> DEFINE g == [t \in Debt |-> t]
<1>1. Debt' \subseteq {g[t] : t \in Debt} \cup C
  <2> SUFFICES ASSUME NEW t \in Debt', t \notin C
               PROVE  t \in Debt
    OBVIOUS
  <2>1. PICK f \in File, k \in DebtKind, x \in Place, n \in Nat :
          t = <<f, k, x, n>> /\ Owed(f, k, x, n)'
    BY DEF Debt, Place, Message
  <2>2. Owed(f, k, x, n)
    BY <2>1 DEF OwesNew
  <2> QED
    BY <2>1, <2>2 DEF Debt
<1> HIDE DEF g
<1> QED
  BY <1>1, DebtFollows

\* ... and for one that turns debt a into debt b as well.
Exchanges(a, b, C) ==
  \A f \in File, k \in DebtKind, x \in Place, n \in Nat :
    Owed(f, k, x, n)' => \/ Owed(f, k, x, n) /\ <<f, k, x, n>> # a
                         \/ <<f, k, x, n>> = b
                         \/ <<f, k, x, n>> \in C

LEMMA DebtMoves ==
  ASSUME DebtIsPaid, faults \in Nat, faults' \in Nat, NEW C, PaidBy(C),
         NEW a \in Debt, NEW b, Exchanges(a, b, C)
  PROVE  DebtIsPaid'
<1> DEFINE g == [t \in Debt |-> IF t = a THEN b ELSE t]
<1>1. Debt' \subseteq {g[t] : t \in Debt} \cup C
  <2> SUFFICES ASSUME NEW t \in Debt', t \notin C
               PROVE  \E u \in Debt : t = g[u]
    OBVIOUS
  <2>1. PICK f \in File, k \in DebtKind, x \in Place, n \in Nat :
          t = <<f, k, x, n>> /\ Owed(f, k, x, n)'
    BY DEF Debt, Place, Message
  <2>2. CASE t = b
    BY <2>2
  <2>3. CASE Owed(f, k, x, n) /\ t # a
    <3>1. t \in Debt
      BY <2>1, <2>3 DEF Debt
    <3> QED
      BY <2>3, <3>1
  <2> QED
    BY <2>1, <2>2, <2>3 DEF Exchanges
<1> HIDE DEF g
<1> QED
  BY <1>1, DebtFollows

\* A step that only concerns the files of F leaves what the others owe.
LEMMA OthersOweTheSame ==
  ASSUME NEW F,
         \A h \in File \ F :
           files'[h].output = files[h].output
             /\ (files'[h].status = "absent" <=> files[h].status = "absent"),
         \A m \in Message : m.file \notin F => queue'[m] = queue[m],
         \A h \in File \ F : h \in api'.dispatch <=> h \in api.dispatch,
         \A h \in File \ F, n \in Nat : <<h, n>> \in disk' => <<h, n>> \in disk,
         \A w \in Worker :
           \/ workers'[w] = workers[w]
           \/ /\ \/ workers[w].file \in F
                 \/ workers[w].doc = 0 /\ workers[w].pc \in {"idle", "ack"}
              /\ workers'[w].file \in F \/ workers'[w].pc \in {"idle", "ack"},
         NEW h \in File \ F, NEW k \in DebtKind, NEW x, NEW n \in Nat,
         Owed(h, k, x, n)'
  PROVE  Owed(h, k, x, n)
<1>1. FileExists(h)' <=> FileExists(h)
  BY DEF FileExists
<1>2. \A w \in Worker : Works(h, w)' <=> Works(h, w)
  BY DEF Works
<1>3. \A m \in Message : m.file = h => queue'[m] = queue[m]
  OBVIOUS
<1>4. Carried(h)' <=> Carried(h)
  BY <1>2, <1>3 DEF Carried, Waits
<1>5. CASE k = "left"
  <2>1. x = None /\ <<h, n>> \in disk' /\ LeftBehind(<<h, n>>)'
    BY <1>5 DEF Owed
  <2>2. /\ FileExists(h) /\ n # 0 /\ n # files[h].output
        /\ \A w \in Worker : ~(workers'[w].file = h /\ workers'[w].doc = n)
    BY <1>1, <2>1 DEF LeftBehind, FileExists
  <2>3. \A w \in Worker : ~(workers[w].file = h /\ workers[w].doc = n)
    BY <2>2
  <2>4. LeftBehind(<<h, n>>) /\ <<h, n>> \in disk
    BY <2>1, <2>2, <2>3 DEF LeftBehind
  <2> QED
    BY <1>5, <2>1, <2>4 DEF Owed
<1>6. CASE k = "closed"
  BY <1>1, <1>4, <1>6 DEF Owed, Closed
<1>7. CASE k = "loop"
  BY <1>1, <1>7 DEF Owed
<1>8. CASE k = "message"
  BY <1>1, <1>3, <1>8 DEF Owed
<1>9. CASE k = "slot"
  BY <1>1, <1>2, <1>9 DEF Owed
<1> QED
  BY <1>5, <1>6, <1>7, <1>8, <1>9 DEF DebtKind

(***************************************************************************)
(* The steps of a task, and what happens to one                            *)
(***************************************************************************)

\* What a step of slot w on file f leaves alone.
SlotStep(w, f) ==
  /\ f = workers[w].file /\ FileExists(f) /\ FileExists(f)'
  /\ UNCHANGED api
  /\ \A h \in File \ {f} : files'[h] = files[h]
  /\ \A m \in Message : m.file # f => queue'[m] = queue[m]
  /\ \A h \in File \ {f}, n \in Nat : <<h, n>> \in disk' => <<h, n>> \in disk
  /\ \A x \in Worker \ {w} : workers'[x] = workers[x]
  /\ \/ workers'[w].file = f
     \/ workers'[w].file = None /\ workers'[w].pc = "idle"

\* The output the slot drops, or one it has just written, may be left behind.
LEMMA LeftBySlot ==
  ASSUME NEW w \in Worker, NEW f \in File, SlotStep(w, f), NEW n \in Nat,
         files'[f].output = files[f].output,
         <<f, n>> \in disk', LeftBehind(<<f, n>>)'
  PROVE  \/ <<f, n>> \in disk /\ LeftBehind(<<f, n>>)
         \/ <<f, n>> \notin disk
         \/ n = workers[w].doc /\ n # 0
BY DEF SlotStep, LeftBehind, FileExists

\* What may be owed after it, and was not before: output d left behind, message
\* m, and the mark of the file.
LEMMA SlotOwes ==
  ASSUME queue \in [Message -> Nat], queue' \in [Message -> Nat],
         NEW w \in Worker, NEW f \in File, SlotStep(w, f),
         Works(f, w)' => Works(f, w),
         NEW m, NEW d,
         \A y \in Message :
           queue'[y] = queue[y] \/ (y = m /\ queue'[y] = queue[y] + 1),
         \A n \in Nat :
           <<f, n>> \in disk' /\ LeftBehind(<<f, n>>)' =>
             n = d \/ (<<f, n>> \in disk /\ LeftBehind(<<f, n>>)),
         NEW h \in File, NEW k \in DebtKind, NEW x \in Place, NEW n \in Nat,
         Owed(h, k, x, n)'
  PROVE  \/ Owed(h, k, x, n)
         \/ <<h, k, x, n>> = <<f, "left", None, d>>
         \/ /\ <<h, k, x, n>> = <<f, "message", m, queue[m] + 1>>
            /\ m \in Message /\ queue'[m] = queue[m] + 1
         \/ /\ <<h, k, x, n>> = <<f, "closed", None, 0>>
            /\ Closed(f)' /\ ~Closed(f)
<1>1. CASE h # f
  <2> DEFINE F == {f}
  <2>1. \A y \in Worker :
          \/ workers'[y] = workers[y]
          \/ /\ \/ workers[y].file \in F
                \/ workers[y].doc = 0 /\ workers[y].pc \in {"idle", "ack"}
             /\ workers'[y].file \in F \/ workers'[y].pc \in {"idle", "ack"}
    BY DEF SlotStep
  <2>2. \A g \in File \ F :
          /\ files'[g].output = files[g].output
          /\ files'[g].status = "absent" <=> files[g].status = "absent"
    BY DEF SlotStep
  <2>3. \A g \in File \ F : g \in api'.dispatch <=> g \in api.dispatch
    BY DEF SlotStep
  <2>4. \A y \in Message : y.file \notin F => queue'[y] = queue[y]
    BY DEF SlotStep
  <2>5. \A g \in File \ F, i \in Nat : <<g, i>> \in disk' => <<g, i>> \in disk
    BY DEF SlotStep
  <2>6. h \in File \ F
    BY <1>1
  <2> HIDE DEF F
  <2>7. Owed(h, k, x, n)
    BY <2>1, <2>2, <2>3, <2>4, <2>5, <2>6, OthersOweTheSame
  <2> QED
    BY <2>7
<1>2. CASE h = f
  <2>1. FileExists(f) /\ UNCHANGED api
    BY DEF SlotStep
  <2>2. Owed(f, k, x, n)'
    BY <1>2
  <2>3. CASE k = "left"
    BY <1>2, <2>2, <2>3 DEF Owed
  <2>4. CASE k = "closed"
    BY <1>2, <2>2, <2>4 DEF Owed
  <2>5. CASE k = "loop"
    BY <1>2, <2>1, <2>2, <2>5 DEF Owed
  <2>6. CASE k = "slot"
    <3>1. Works(f, x)' /\ x \in Worker /\ n = 0
      BY <2>2, <2>6 DEF Owed
    <3>2. Works(f, x)
      BY <3>1 DEF Works, SlotStep
    <3> QED
      BY <1>2, <2>1, <2>6, <3>1, <3>2 DEF Owed
  <2>7. CASE k = "message"
    <3>1. x \in Message /\ x.file = f /\ n \in 1..queue'[x]
      BY <2>2, <2>7 DEF Owed
    <3>2. queue[x] \in Nat /\ queue'[x] \in Nat
      BY <3>1
    <3>3. CASE n \in 1..queue[x]
      BY <1>2, <2>1, <2>7, <3>1, <3>3 DEF Owed
    <3>4. CASE n \notin 1..queue[x]
      <4>1. x = m /\ queue'[x] = queue[x] + 1
        BY <3>1, <3>2, <3>4
      <4>2. n = queue[x] + 1
        BY <3>1, <3>2, <3>4, <4>1
      <4> QED
        BY <1>2, <2>7, <3>1, <4>1, <4>2
    <3> QED
      BY <3>3, <3>4
  <2> QED
    BY <2>3, <2>4, <2>5, <2>6, <2>7 DEF DebtKind
<1> QED
  BY <1>1, <1>2

\* All that the step can leave behind of f is output d (0: nothing), and if it
\* does, a fault pays for it.
LeavesOnly(f, d) ==
  \A n \in Nat :
    <<f, n>> \in disk' /\ LeftBehind(<<f, n>>)' =>
      n = d \/ (<<f, n>> \in disk /\ LeftBehind(<<f, n>>))
PaysFor(d) == faults' = faults + 1 \/ (faults' >= faults /\ d = 0)

\* The debt for d, or none.
Lefts(f, d) == IF d = 0 THEN {} ELSE {<<f, "left", None, d>>}

\* The debt of a slot at work.
LEMMA SlotDebt ==
  ASSUME NEW w \in Worker, NEW f \in File, FileExists(f), Works(f, w)
  PROVE  <<f, "slot", w, 0>> \in Debt
BY DEF Debt, DebtKind, Place, Owed

\* A task that goes on.
LEMMA SlotGoesOn ==
  ASSUME RestInv, RestInv', DebtIsPaid,
         NEW w \in Worker, NEW f \in File, SlotStep(w, f),
         UNCHANGED queue, files'[f].output = files[f].output,
         Works(f, w)' <=> Works(f, w),
         NEW d, LeavesOnly(f, d), PaysFor(d)
  PROVE  DebtIsPaid'
<1>1. /\ queue \in [Message -> Nat] /\ queue' \in [Message -> Nat]
      /\ faults \in Nat /\ faults' \in Nat
  BY ConversionAssumption DEF RestInv
<1>2. Closed(f)' => Closed(f)
  BY DEF Closed, Carried, Waits, Works, SlotStep, FileExists
<1> DEFINE C == Lefts(f, d)
<1>3. OwesNew(C)
  <2> SUFFICES ASSUME NEW h \in File, NEW k \in DebtKind, NEW x \in Place,
                      NEW n \in Nat, Owed(h, k, x, n)'
               PROVE  Owed(h, k, x, n) \/ <<h, k, x, n>> \in C
    BY DEF OwesNew
  <2>1. \A y \in Message :
          queue'[y] = queue[y] \/ (y = None /\ queue'[y] = queue[y] + 1)
    OBVIOUS
  <2>2. \A y \in Message : queue'[y] # queue[y] + 1
    BY <1>1
  <2>3. \/ Owed(h, k, x, n)
        \/ <<h, k, x, n>> = <<f, "left", None, d>>
    BY <1>1, <1>2, <2>1, <2>2, SlotOwes DEF LeavesOnly
  <2>4. CASE d = 0 /\ <<h, k, x, n>> = <<f, "left", None, d>>
    BY <2>4 DEF Owed, LeftBehind
  <2> QED
    BY <2>3, <2>4 DEF Lefts
<1>4. PaidBy(C)
  <2>1. faults' >= faults
    BY <1>1 DEF PaysFor
  <2> QED
    BY <2>1 DEF PaysFor, Lefts, PaidBy
<1> HIDE DEF C
<1> QED
  BY <1>1, <1>3, <1>4, DebtStays

\* A task that ends with nothing recorded.
LEMMA SlotEnds ==
  ASSUME RestInv, RestInv', DebtIsPaid,
         NEW w \in Worker, NEW f \in File, SlotStep(w, f),
         UNCHANGED queue, files'[f].output = files[f].output,
         Works(f, w), ~Works(f, w)',
         NEW d, LeavesOnly(f, d), PaysFor(d)
  PROVE  DebtIsPaid'
<1>1. /\ queue \in [Message -> Nat] /\ queue' \in [Message -> Nat]
      /\ faults \in Nat /\ faults' \in Nat
  BY ConversionAssumption DEF RestInv
<1> DEFINE C == Lefts(f, d)
           a == <<f, "slot", w, 0>>
           b == <<f, "closed", None, 0>>
<1>2. a \in Debt
  BY SlotDebt DEF SlotStep
<1>3. Exchanges(a, b, C)
  <2> SUFFICES ASSUME NEW h \in File, NEW k \in DebtKind, NEW x \in Place,
                      NEW n \in Nat, Owed(h, k, x, n)'
               PROVE  \/ Owed(h, k, x, n) /\ <<h, k, x, n>> # a
                      \/ <<h, k, x, n>> = b
                      \/ <<h, k, x, n>> \in C
    BY DEF Exchanges
  <2>1. \A y \in Message :
          queue'[y] = queue[y] \/ (y = None /\ queue'[y] = queue[y] + 1)
    OBVIOUS
  <2>2. \A y \in Message : queue'[y] # queue[y] + 1
    BY <1>1
  <2>3. \/ Owed(h, k, x, n)
        \/ <<h, k, x, n>> = <<f, "left", None, d>>
        \/ <<h, k, x, n>> = b
    BY <1>1, <2>1, <2>2, SlotOwes DEF LeavesOnly
  <2>4. CASE d = 0 /\ <<h, k, x, n>> = <<f, "left", None, d>>
    BY <2>4 DEF Owed, LeftBehind
  <2>5. <<h, k, x, n>> # a
    BY DEF Owed
  <2> QED
    BY <2>3, <2>4, <2>5 DEF Lefts
<1>4. PaidBy(C)
  <2>1. faults' >= faults
    BY <1>1 DEF PaysFor
  <2> QED
    BY <2>1 DEF PaysFor, Lefts, PaidBy
<1> HIDE DEF C, a, b
<1> QED
  BY <1>1, <1>2, <1>3, <1>4, DebtMoves

\* A task that ends with its file published again.
LEMMA SlotPublishes ==
  ASSUME RestInv, RestInv', DebtIsPaid,
         NEW w \in Worker, NEW f \in File, SlotStep(w, f),
         NEW m \in Message, m.file = f, queue' = [queue EXCEPT ![m] = @ + 1],
         files'[f].output = files[f].output,
         Works(f, w), ~Works(f, w)',
         NEW d, LeavesOnly(f, d), PaysFor(d)
  PROVE  DebtIsPaid'
<1>1. /\ queue \in [Message -> Nat] /\ queue' \in [Message -> Nat]
      /\ faults \in Nat /\ faults' \in Nat
  BY ConversionAssumption DEF RestInv
<1> DEFINE C == Lefts(f, d)
           a == <<f, "slot", w, 0>>
           b == <<f, "message", m, queue[m] + 1>>
<1>2. a \in Debt
  BY SlotDebt DEF SlotStep
<1>3. Closed(f)' => Closed(f)
  <2>1. Waits(f, m)'
    BY <1>1, PublishedWaits DEF Waits
  <2>2. Carried(f)'
    BY <2>1 DEF Carried
  <2> QED
    BY <2>2 DEF Closed, SlotStep
<1>4. Exchanges(a, b, C)
  <2> SUFFICES ASSUME NEW h \in File, NEW k \in DebtKind, NEW x \in Place,
                      NEW n \in Nat, Owed(h, k, x, n)'
               PROVE  \/ Owed(h, k, x, n) /\ <<h, k, x, n>> # a
                      \/ <<h, k, x, n>> = b
                      \/ <<h, k, x, n>> \in C
    BY DEF Exchanges
  <2>1. \A y \in Message :
          queue'[y] = queue[y] \/ (y = m /\ queue'[y] = queue[y] + 1)
    BY <1>1
  <2>2. \/ Owed(h, k, x, n)
        \/ <<h, k, x, n>> = <<f, "left", None, d>>
        \/ <<h, k, x, n>> = b
    BY <1>1, <1>3, <2>1, SlotOwes DEF LeavesOnly
  <2>3. CASE d = 0 /\ <<h, k, x, n>> = <<f, "left", None, d>>
    BY <2>3 DEF Owed, LeftBehind
  <2>4. <<h, k, x, n>> # a
    BY DEF Owed
  <2> QED
    BY <2>2, <2>3, <2>4 DEF Lefts
<1>5. PaidBy(C)
  <2>1. faults' >= faults
    BY <1>1 DEF PaysFor
  <2> QED
    BY <2>1 DEF PaysFor, Lefts, PaidBy
<1> HIDE DEF C, a, b
<1> QED
  BY <1>1, <1>2, <1>4, <1>5, DebtMoves

\* A message that is delivered again while its task goes on, or is over.
LEMMA SlotDoubles ==
  ASSUME RestInv, RestInv', DebtIsPaid,
         NEW w \in Worker, NEW f \in File, SlotStep(w, f),
         NEW m \in Message, m.file = f, queue' = [queue EXCEPT ![m] = @ + 1],
         files'[f].output = files[f].output,
         Works(f, w)' <=> Works(f, w),
         LeavesOnly(f, 0), faults' = faults + 1
  PROVE  DebtIsPaid'
<1>1. /\ queue \in [Message -> Nat] /\ queue' \in [Message -> Nat]
      /\ faults \in Nat /\ faults' \in Nat
  BY ConversionAssumption DEF RestInv
<1> DEFINE c == <<f, "message", m, queue[m] + 1>>
<1>2. Closed(f)' => Closed(f)
  <2>1. Waits(f, m)'
    BY <1>1, PublishedWaits DEF Waits
  <2>2. Carried(f)'
    BY <2>1 DEF Carried
  <2> QED
    BY <2>2 DEF Closed, SlotStep
<1>3. \A h \in File, k \in DebtKind, x \in Place, n \in Nat :
         Owed(h, k, x, n)' => Owed(h, k, x, n) \/ <<h, k, x, n>> \in {c}
  <2> SUFFICES ASSUME NEW h \in File, NEW k \in DebtKind, NEW x \in Place,
                      NEW n \in Nat, Owed(h, k, x, n)'
               PROVE  Owed(h, k, x, n) \/ <<h, k, x, n>> = c
    OBVIOUS
  <2>1. \A y \in Message :
          queue'[y] = queue[y] \/ (y = m /\ queue'[y] = queue[y] + 1)
    BY <1>1
  <2>2. \/ Owed(h, k, x, n)
        \/ <<h, k, x, n>> = <<f, "left", None, 0>>
        \/ <<h, k, x, n>> = c
    BY <1>1, <1>2, <2>1, SlotOwes DEF LeavesOnly
  <2>3. <<h, k, x, n>> # <<f, "left", None, 0>>
    BY DEF Owed, LeftBehind
  <2> QED
    BY <2>2, <2>3
<1> DEFINE C == {c}
<1>4. PaidBy(C)
  BY DEF PaidBy
<1> HIDE DEF C, c
<1>5. OwesNew(C)
  BY <1>3 DEF C, OwesNew
<1> QED
  BY <1>1, <1>4, <1>5, DebtStays

\* A task that records its output: the one recorded before is left behind, or
\* the file is closed by the first it has.
LEMMA SlotRecords ==
  ASSUME RestInv, RestInv', DebtIsPaid,
         NEW w \in Worker, NEW f \in File, SlotStep(w, f),
         UNCHANGED queue, Works(f, w),
         NEW d, d = files[f].output, LeavesOnly(f, d),
         \/ ~Works(f, w)' /\ faults' >= faults
         \/ Works(f, w)' /\ faults' = faults + 1
  PROVE  DebtIsPaid'
<1>1. /\ queue \in [Message -> Nat] /\ queue' \in [Message -> Nat]
      /\ faults \in Nat /\ faults' \in Nat
  BY ConversionAssumption DEF RestInv
<1> DEFINE a == <<f, "slot", w, 0>>
           b == IF d = 0 THEN <<f, "closed", None, 0>> ELSE <<f, "left", None, d>>
<1>2. a \in Debt
  BY SlotDebt DEF SlotStep
<1>3. ASSUME NEW h \in File, NEW k \in DebtKind, NEW x \in Place, NEW n \in Nat,
             Owed(h, k, x, n)'
      PROVE  Owed(h, k, x, n) \/ <<h, k, x, n>> = b
  <2>1. \A y \in Message :
          queue'[y] = queue[y] \/ (y = None /\ queue'[y] = queue[y] + 1)
    OBVIOUS
  <2>2. \A y \in Message : queue'[y] # queue[y] + 1
    BY <1>1
  <2>3. \/ Owed(h, k, x, n)
        \/ <<h, k, x, n>> = <<f, "left", None, d>>
        \/ <<h, k, x, n>> = <<f, "closed", None, 0>> /\ ~Closed(f)
    BY <1>1, <1>3, <2>1, <2>2, SlotOwes DEF LeavesOnly
  <2>4. CASE d = 0 /\ <<h, k, x, n>> = <<f, "left", None, d>>
    BY <1>3, <2>4 DEF Owed, LeftBehind
  <2>5. ~Closed(f) => d = 0
    BY DEF Closed
  <2> QED
    BY <2>3, <2>4, <2>5
<1>4. CASE ~Works(f, w)' /\ faults' >= faults
  <2> DEFINE C == {}
  <2>1. Exchanges(a, b, C)
    <3> SUFFICES ASSUME NEW h \in File, NEW k \in DebtKind, NEW x \in Place,
                        NEW n \in Nat, Owed(h, k, x, n)'
                 PROVE  <<h, k, x, n>> # a
      BY <1>3 DEF Exchanges
    <3> QED
      BY <1>4 DEF Owed
  <2>2. PaidBy(C)
    BY <1>4 DEF PaidBy
  <2> HIDE DEF C, a, b
  <2> QED
    BY <1>1, <1>2, <2>1, <2>2, DebtMoves
<1>5. CASE Works(f, w)' /\ faults' = faults + 1
  <2> DEFINE C == {b}
  <2>1. OwesNew(C)
    BY <1>3 DEF OwesNew
  <2>2. PaidBy(C)
    BY <1>5 DEF PaidBy
  <2> HIDE DEF C
  <2> QED
    BY <1>1, <2>1, <2>2, DebtStays
<1> QED
  BY <1>4, <1>5

\* A step of a task on a file that exists is a step of its slot.
LEMMA TaskIsSlotStep ==
  ASSUME RestInv, RestInv', TablesInv, NEW w \in Worker, NEW f \in File,
         f = workers[w].file, TaskStep(w) \/ WorkerFault(w)
  PROVE  /\ workers[w].pc # "idle"
         /\ UNCHANGED api
         /\ faults' >= faults
         /\ \A h \in File \ {f} : files'[h] = files[h]
         /\ \A m \in Message : m.file # f => queue'[m] = queue[m]
         /\ \A h \in File \ {f}, n \in Nat : <<h, n>> \in disk' => <<h, n>> \in disk
         /\ \A x \in Worker \ {w} : workers'[x] = workers[x]
         /\ \/ workers'[w].file = f
            \/ workers'[w].file = None /\ workers'[w].pc = "idle"
         /\ FileExists(f)' <=> FileExists(f)
         /\ ~FileExists(f) => UNCHANGED files
<1>1. /\ queue \in [Message -> Nat] /\ queue' \in [Message -> Nat]
      /\ workers \in [Worker -> Slot] /\ workers[w] \in Slot
      /\ files \in [File -> FileRow] /\ files[f] \in FileRow
      /\ faults \in Nat /\ faults' \in Nat
      /\ disk \subseteq File \X Nat
  BY ConversionAssumption DEF RestInv, TablesInv, RowsTypeOK
<1>2. UNCHANGED api /\ workers[w].pc # "idle"
  BY DEF TaskStep, WorkerFault, Load, Validate, ConvertOk, ConvertFails,
         RecordFailure, RecordSuccess, PublishRetry, Ack, ConvertBlowsUp,
         ConnectionLost, WorkerLost, BrokerLost, TimeLimit
<1>3. faults' >= faults
  <2>1. UNCHANGED faults \/ faults' = faults + 1
    BY DEF TaskStep, WorkerFault, Load, Validate, ConvertOk, ConvertFails,
           RecordFailure, RecordSuccess, PublishRetry, Ack, ConvertBlowsUp,
           ConnectionLost, WorkerLost, BrokerLost, TimeLimit, Committed, Fault
  <2> QED
    BY <1>1, <2>1
<1>4. \/ UNCHANGED files
      \/ FileExists(f) /\ \E row \in FileRow : /\ files' = [files EXCEPT ![f] = row]
                                               /\ row.status # "absent"
  <2>1. CASE UNCHANGED files
    BY <2>1
  <2>2. CASE FileExists(f) /\ StartFile(f)
    <3> DEFINE row == [files[f] EXCEPT !.status = "processing"]
    <3>1. row \in FileRow /\ row.status # "absent"
      BY <1>1 DEF FileRow, FileStatus
    <3>2. files' = [files EXCEPT ![f] = row]
      BY <2>2 DEF StartFile
    <3> HIDE DEF row
    <3> QED
      BY <2>2, <3>1, <3>2
  <2>3. CASE FileExists(f) /\ FailFile(f)
    <3> DEFINE row == [files[f] EXCEPT !.status = "failed", !.error = TRUE]
    <3>1. row \in FileRow /\ row.status # "absent"
      BY <1>1 DEF FileRow, FileStatus
    <3>2. files' = [files EXCEPT ![f] = row]
      BY <2>3 DEF FailFile, FileSettled
    <3> HIDE DEF row
    <3> QED
      BY <2>3, <3>1, <3>2
  <2>4. CASE FileExists(f) /\ CompleteFile(f, workers[w].doc)
    <3> DEFINE row == [files[f] EXCEPT !.status = "done", !.output = workers[w].doc]
    <3>1. row \in FileRow /\ row.status # "absent"
      <4>1. workers[w].doc \in Nat
        BY <1>1 DEF Slot
      <4> QED
        BY <1>1, <4>1 DEF FileRow, FileStatus
    <3>2. files' = [files EXCEPT ![f] = row]
      BY <2>4 DEF CompleteFile, FileSettled
    <3> HIDE DEF row
    <3> QED
      BY <2>4, <3>1, <3>2
  <2> QED
    BY <2>1, <2>2, <2>3, <2>4
       DEF TaskStep, WorkerFault, Load, Validate, ConvertOk, ConvertFails,
           RecordFailure, RecordSuccess, PublishRetry, Ack, ConvertBlowsUp,
           ConnectionLost, WorkerLost, BrokerLost, TimeLimit
<1>5. /\ \A h \in File \ {f} : files'[h] = files[h]
      /\ FileExists(f)' <=> FileExists(f)
      /\ ~FileExists(f) => UNCHANGED files
  BY <1>1, <1>4 DEF FileExists
<1>6. \/ UNCHANGED disk
      \/ \E n : disk' = disk \cup {<<f, n>>}
  BY DEF TaskStep, WorkerFault, Load, Validate, ConvertOk, ConvertFails,
         RecordFailure, RecordSuccess, PublishRetry, Ack, ConvertBlowsUp,
         ConnectionLost, WorkerLost, BrokerLost, TimeLimit, WriteOutput
<1>7. \A h \in File \ {f}, n \in Nat : <<h, n>> \in disk' => <<h, n>> \in disk
  BY <1>6
<1>8. \/ UNCHANGED queue
      \/ \E k : queue' = [queue EXCEPT ![[file |-> f, retries |-> k]] = @ + 1]
  <2>1. CASE PublishRetry(w)
    BY <2>1 DEF PublishRetry
  <2>2. CASE WorkerLost(w) \/ BrokerLost(w)
    BY <2>2 DEF WorkerLost, BrokerLost, Requeued
  <2> QED
    BY <2>1, <2>2
       DEF TaskStep, WorkerFault, Load, Validate, ConvertOk, ConvertFails,
           RecordFailure, RecordSuccess, Ack, ConvertBlowsUp, ConnectionLost,
           TimeLimit
<1>9. \A m \in Message : m.file # f => queue'[m] = queue[m]
  <2> SUFFICES ASSUME NEW m \in Message, m.file # f,
                      NEW k, queue' = [queue EXCEPT ![[file |-> f, retries |-> k]] = @ + 1]
               PROVE  queue'[m] = queue[m]
    BY <1>8
  <2>1. m # [file |-> f, retries |-> k]
    OBVIOUS
  <2> QED
    BY <1>1, <2>1
<1>10. \E t : /\ workers' = [workers EXCEPT ![w] = t]
              /\ t.file = f \/ t = IdleSlot
  <2>1. ASSUME NEW s, GoTo(w, s)
        PROVE  \E t : /\ workers' = [workers EXCEPT ![w] = t]
                      /\ t.file = f \/ t = IdleSlot
    <3> DEFINE t == [workers[w] EXCEPT !.pc = s, !.doc = 0]
    <3>1. t.file = f /\ workers' = [workers EXCEPT ![w] = t]
      BY <1>1, <2>1 DEF GoTo, Slot
    <3> HIDE DEF t
    <3> QED
      BY <3>1
  <2>2. CASE ConvertOk(w)
    <3> DEFINE t == [workers[w] EXCEPT !.pc = "complete", !.doc = runs[f] + 1]
    <3>1. t.file = f /\ workers' = [workers EXCEPT ![w] = t]
      BY <1>1, <2>2 DEF ConvertOk, Slot
    <3> HIDE DEF t
    <3> QED
      BY <3>1
  <2>3. CASE BrokerLost(w)
    <3> DEFINE t == [workers[w] EXCEPT !.held = FALSE]
    <3>1. t.file = f /\ workers' = [workers EXCEPT ![w] = t]
      BY <1>1, <2>3 DEF BrokerLost, Slot
    <3> HIDE DEF t
    <3> QED
      BY <3>1
  <2>4. CASE Ack(w) \/ WorkerLost(w)
    BY <2>4 DEF Ack, WorkerLost
  <2> QED
    BY <2>1, <2>2, <2>3, <2>4
       DEF TaskStep, WorkerFault, Load, Validate, ConvertFails, RecordFailure,
           RecordSuccess, PublishRetry, ConvertBlowsUp, ConnectionLost,
           TimeLimit, Committed
<1>11. /\ \A x \in Worker \ {w} : workers'[x] = workers[x]
       /\ \/ workers'[w].file = f
          \/ workers'[w].file = None /\ workers'[w].pc = "idle"
  <2>1. IdleSlot.file = None /\ IdleSlot.pc = "idle"
    BY DEF IdleSlot
  <2> QED
    BY <1>1, <1>10, <2>1
<1> QED
  BY <1>2, <1>3, <1>5, <1>7, <1>9, <1>11

\* The steps of a task are paid for.
LEMMA TaskPaysDebt ==
  ASSUME RestInv, RestInv', TablesInv, DebtIsPaid, DocsAtComplete,
         NEW w \in Worker, NEW f \in File,
         f = workers[w].file, TaskStep(w) \/ WorkerFault(w)
  PROVE  DebtIsPaid'
<1>1. /\ queue \in [Message -> Nat] /\ queue' \in [Message -> Nat]
      /\ workers \in [Worker -> Slot] /\ workers[w] \in Slot
      /\ files \in [File -> FileRow] /\ files[f] \in FileRow
      /\ faults \in Nat /\ faults' \in Nat
      /\ workers[w].pc # "complete" => workers[w].doc = 0
  BY ConversionAssumption
     DEF RestInv, TablesInv, RowsTypeOK, DocsAtComplete
<1>2. CASE ~FileExists(f)
  <2> DEFINE C == {}
             F == {f}
  <2>1. ASSUME NEW h \in File, NEW k \in DebtKind, NEW x \in Place,
               NEW n \in Nat, Owed(h, k, x, n)'
        PROVE  Owed(h, k, x, n)
    <3>1. CASE h = f
      <4>1. ~FileExists(f)'
        BY <1>2, TaskIsSlotStep
      <4> QED
        BY <1>2, <2>1, <3>1, <4>1 DEF Owed, Closed, LeftBehind
    <3>2. CASE h # f
      <4>1. \A y \in Worker :
              \/ workers'[y] = workers[y]
              \/ /\ \/ workers[y].file \in F
                    \/ workers[y].doc = 0 /\ workers[y].pc \in {"idle", "ack"}
                 /\ workers'[y].file \in F \/ workers'[y].pc \in {"idle", "ack"}
        BY TaskIsSlotStep
      <4>2. \A g \in File \ F :
              /\ files'[g].output = files[g].output
              /\ files'[g].status = "absent" <=> files[g].status = "absent"
        BY TaskIsSlotStep
      <4>3. \A g \in File \ F : g \in api'.dispatch <=> g \in api.dispatch
        BY TaskIsSlotStep
      <4>4. \A y \in Message : y.file \notin F => queue'[y] = queue[y]
        BY TaskIsSlotStep
      <4>5. \A g \in File \ F, i \in Nat : <<g, i>> \in disk' => <<g, i>> \in disk
        BY TaskIsSlotStep
      <4>6. h \in File \ F
        BY <3>2
      <4> HIDE DEF F
      <4> QED
        BY <2>1, <4>1, <4>2, <4>3, <4>4, <4>5, <4>6, OthersOweTheSame
    <3> QED
      BY <3>1, <3>2
  <2>2. OwesNew(C)
    BY <2>1 DEF OwesNew
  <2>3. PaidBy(C)
    BY TaskIsSlotStep DEF PaidBy
  <2> HIDE DEF C
  <2> QED
    BY <1>1, <2>2, <2>3, DebtStays
<1>3. CASE FileExists(f)
  <2>1. SlotStep(w, f) /\ faults' >= faults /\ workers[w].pc # "idle"
    BY <1>3, TaskIsSlotStep DEF SlotStep
  <2>2. PaysFor(0)
    BY <2>1 DEF PaysFor
  <2>3. ASSUME UNCHANGED disk, files'[f].output = files[f].output
        PROVE  LeavesOnly(f, workers[w].doc)
    BY <2>1, <2>3, LeftBySlot DEF LeavesOnly
  <2>4. ASSUME NEW s, GoTo(w, s)
        PROVE  /\ Works(f, w)' <=> s \notin {"idle", "ack"}
               /\ workers'[w].file = f
    BY <1>1, <2>4 DEF GoTo, Slot, Works
  <2>5. workers[w].pc \notin {"idle", "ack"} => Works(f, w)
    BY DEF Works
  \* The task moves on and drops the output it has, if a fault makes it.
  <2>6. ASSUME NEW s, s # "idle", GoTo(w, s), workers[w].pc # "ack",
               UNCHANGED <<queue, disk>>, files'[f].output = files[f].output,
               workers[w].doc = 0 \/ faults' = faults + 1
        PROVE  DebtIsPaid'
    <3>1. LeavesOnly(f, workers[w].doc)
      BY <2>3, <2>6
    <3>2. PaysFor(workers[w].doc)
      BY <2>1, <2>6 DEF PaysFor
    <3>3. Works(f, w)
      BY <2>1, <2>5, <2>6
    <3>4. CASE s = "ack"
      <4>1. ~Works(f, w)'
        BY <2>4, <2>6, <3>4
      <4> QED
        BY <2>1, <2>6, <3>1, <3>2, <3>3, <4>1, SlotEnds
    <3>5. CASE s # "ack"
      <4>1. Works(f, w)'
        BY <2>4, <2>6, <3>5
      <4> QED
        BY <2>1, <2>6, <3>1, <3>2, <3>3, <4>1, SlotGoesOn
    <3> QED
      BY <3>4, <3>5
  <2>7. ASSUME NEW s, s \notin {"idle"}, Committed(w, s), workers[w].doc = 0,
               workers[w].pc # "ack", UNCHANGED <<queue, disk>>,
               files'[f].output = files[f].output
        PROVE  DebtIsPaid'
    <3>1. AfterRetryable(w) # "idle"
      BY DEF AfterRetryable
    <3> QED
      BY <2>6, <2>7, <3>1 DEF Committed
  <2>8. CASE Load(w)
    <3>1. /\ workers[w].pc = "load" /\ workers[w].doc = 0
          /\ UNCHANGED <<queue, disk>>
      BY <1>1, <2>8 DEF Load
    <3>2. CASE GoTo(w, "ack") /\ UNCHANGED files
      BY <2>6, <3>1, <3>2
    <3>3. CASE StartFile(f) /\ Committed(w, "validate")
      <4>1. files'[f].output = files[f].output
        BY <1>1, <3>3 DEF StartFile, FileRow
      <4> QED
        BY <2>7, <3>1, <3>3, <4>1
    <3> QED
      BY <2>8, <3>2, <3>3 DEF Load
  <2>9. CASE Validate(w)
    <3>1. /\ workers[w].pc = "validate" /\ workers[w].doc = 0
          /\ UNCHANGED <<queue, disk, files>>
          /\ \E s \in {"convert", "fail"} : GoTo(w, s)
      BY <1>1, <2>9 DEF Validate
    <3> QED
      BY <2>6, <3>1
  <2>10. CASE ConvertOk(w)
    <3>1. /\ workers[w].pc = "convert" /\ workers[w].doc = 0
          /\ UNCHANGED <<queue, files>>
          /\ disk' = disk \cup {<<f, runs[f] + 1>>}
          /\ workers'[w].pc = "complete" /\ workers'[w].file = f
          /\ workers'[w].doc = runs[f] + 1
      BY <1>1, <2>10 DEF ConvertOk, WriteOutput, Slot
    <3>2. LeavesOnly(f, 0)
      <4> SUFFICES ASSUME NEW n \in Nat, <<f, n>> \in disk', LeftBehind(<<f, n>>)'
                   PROVE  n = 0 \/ (<<f, n>> \in disk /\ LeftBehind(<<f, n>>))
        BY DEF LeavesOnly
      <4>1. n # runs[f] + 1
        BY <3>1 DEF LeftBehind
      <4>2. <<f, n>> \in disk
        BY <3>1, <4>1
      <4> QED
        BY <2>1, <3>1, <4>2, LeftBySlot
    <3>3. Works(f, w) /\ Works(f, w)'
      BY <3>1 DEF Works
    <3> QED
      BY <2>1, <2>2, <3>1, <3>2, <3>3, SlotGoesOn
  <2>11. CASE ConvertFails(w)
    <3>1. /\ workers[w].pc = "convert" /\ workers[w].doc = 0
          /\ UNCHANGED <<queue, files>> /\ GoTo(w, "fail")
      BY <1>1, <2>11 DEF ConvertFails
    <3>2. CASE UNCHANGED disk
      BY <2>6, <3>1, <3>2
    <3>3. CASE WriteOutput(f) /\ faults' = faults + 1
      <4> DEFINE d == runs[f] + 1
      <4>1. LeavesOnly(f, d)
        <5> SUFFICES ASSUME NEW n \in Nat, <<f, n>> \in disk',
                            LeftBehind(<<f, n>>)', n # d
                     PROVE  <<f, n>> \in disk /\ LeftBehind(<<f, n>>)
          BY DEF LeavesOnly
        <5>1. <<f, n>> \in disk
          BY <3>3 DEF WriteOutput
        <5> QED
          BY <2>1, <3>1, <5>1, LeftBySlot
      <4>2. Works(f, w) /\ Works(f, w)' /\ PaysFor(d)
        BY <2>4, <3>1, <3>3 DEF Works, PaysFor
      <4> HIDE DEF d
      <4> QED
        BY <2>1, <3>1, <4>1, <4>2, SlotGoesOn
    <3> QED
      BY <2>11, <3>2, <3>3 DEF ConvertFails, Fault
  <2>12. CASE RecordFailure(w)
    <3>1. /\ workers[w].pc = "fail" /\ workers[w].doc = 0
          /\ UNCHANGED <<queue, disk>>
          /\ FailFile(f) /\ Committed(w, "ack")
      BY <1>1, <1>3, <2>12 DEF RecordFailure
    <3>2. files'[f].output = files[f].output
      BY <1>1, <3>1 DEF FailFile, FileSettled, FileRow
    <3> QED
      BY <2>7, <3>1, <3>2
  <2>13. CASE RecordSuccess(w)
    <3> DEFINE o == files[f].output
    <3>1. /\ workers[w].pc = "complete"
          /\ UNCHANGED <<queue, disk>>
          /\ CompleteFile(f, workers[w].doc) /\ Committed(w, "ack")
      BY <1>1, <1>3, <2>13 DEF RecordSuccess
    <3>2. files'[f].output = workers[w].doc
      BY <1>1, <3>1 DEF CompleteFile, FileSettled, FileRow
    <3>3. LeavesOnly(f, o)
      <4> SUFFICES ASSUME NEW n \in Nat, <<f, n>> \in disk', LeftBehind(<<f, n>>)',
                          n # o
                   PROVE  <<f, n>> \in disk /\ LeftBehind(<<f, n>>)
        BY DEF LeavesOnly
      <4>1. n \notin {0, workers[w].doc}
        BY <3>2 DEF LeftBehind
      <4> QED
        BY <1>3, <2>1, <3>1, <4>1 DEF LeftBehind, SlotStep
    <3>4. Works(f, w)
      BY <3>1 DEF Works
    <3>5. \/ ~Works(f, w)' /\ faults' >= faults
          \/ Works(f, w)' /\ faults' = faults + 1
      <4>1. CASE GoTo(w, "ack")
        BY <2>1, <2>4, <4>1
      <4>2. CASE Fault("ambiguous")
        BY <2>1, <4>2 DEF Fault
      <4> QED
        BY <3>1, <4>1, <4>2 DEF Committed
    <3> QED
      BY <2>1, <3>1, <3>3, <3>4, <3>5, SlotRecords
  <2>14. CASE ConvertBlowsUp(w) \/ TimeLimit(w)
    <3>1. /\ workers[w].pc # "ack" /\ faults' = faults + 1
          /\ UNCHANGED <<queue, disk, files>>
          /\ GoTo(w, "ack") \/ GoTo(w, AfterRetryable(w))
          /\ AfterRetryable(w) # "idle"
      BY <2>14 DEF ConvertBlowsUp, TimeLimit, Fault, AfterRetryable
    <3> QED
      BY <2>6, <3>1
  <2>15. CASE ConnectionLost(w)
    <3>1. /\ workers[w].pc # "ack" /\ faults' = faults + 1
          /\ GoTo(w, AfterRetryable(w)) /\ AfterRetryable(w) # "idle"
          /\ UNCHANGED <<queue, disk, files>>
      BY <2>15 DEF ConnectionLost, Fault, AfterRetryable
    <3> QED
      BY <2>6, <3>1
  <2>16. CASE Ack(w)
    <3>1. /\ workers[w].pc = "ack" /\ workers[w].doc = 0
          /\ UNCHANGED <<queue, disk, files>>
          /\ workers'[w].pc = "idle"
      BY <1>1, <2>16 DEF Ack, IdleSlot
    <3>2. ~Works(f, w) /\ ~Works(f, w)' /\ LeavesOnly(f, 0)
      BY <2>3, <3>1 DEF Works
    <3> QED
      BY <2>1, <2>2, <3>1, <3>2, SlotGoesOn
  <2>17. CASE PublishRetry(w)
    <3> DEFINE m == [file |-> f, retries |-> workers[w].retries + 1]
    <3>1. /\ workers[w].pc = "retry" /\ workers[w].doc = 0 /\ GoTo(w, "ack")
          /\ UNCHANGED <<disk, files>>
          /\ queue' = [queue EXCEPT ![m] = @ + 1] \/ UNCHANGED queue
      BY <1>1, <2>17 DEF PublishRetry
    <3>2. CASE UNCHANGED queue
      BY <2>6, <3>1, <3>2
    <3>3. CASE queue' = [queue EXCEPT ![m] = @ + 1] /\ m \notin Message
      <4> HIDE DEF m
      <4>1. UNCHANGED queue
        BY <1>1, <3>3
      <4> QED
        BY <3>2, <4>1
    <3>4. CASE queue' = [queue EXCEPT ![m] = @ + 1] /\ m \in Message
      <4>1. Works(f, w) /\ ~Works(f, w)' /\ LeavesOnly(f, 0) /\ m.file = f
        BY <2>3, <2>4, <3>1 DEF Works
      <4> HIDE DEF m
      <4> QED
        BY <2>1, <2>2, <3>1, <3>4, <4>1, SlotPublishes
    <3> QED
      BY <3>1, <3>2, <3>3, <3>4
  <2>18. CASE WorkerLost(w) \/ BrokerLost(w)
    <3> DEFINE m == [file |-> f, retries |-> workers[w].retries]
    <3>1. /\ UNCHANGED <<disk, files>> /\ faults' = faults + 1
          /\ \/ queue' = [queue EXCEPT ![m] = @ + 1]
             \/ WorkerLost(w) /\ UNCHANGED queue
      BY <2>18 DEF WorkerLost, BrokerLost, Fault, Requeued
    <3>2. m \in Message /\ m.file = f
      BY <1>1 DEF Message, Slot
    <3>3. LeavesOnly(f, workers[w].doc) /\ PaysFor(workers[w].doc)
      BY <2>3, <3>1 DEF PaysFor
    <3>4. WorkerLost(w) => ~Works(f, w)'
      BY <1>1 DEF WorkerLost, IdleSlot, Works
    <3>5. BrokerLost(w) => /\ Works(f, w)' <=> Works(f, w)
                           /\ LeavesOnly(f, 0)
      <4> SUFFICES ASSUME BrokerLost(w)
                   PROVE  /\ Works(f, w)' <=> Works(f, w)
                          /\ LeavesOnly(f, 0)
        OBVIOUS
      <4>1. /\ workers'[w].pc = workers[w].pc /\ workers'[w].file = f
            /\ workers'[w].doc = workers[w].doc
        BY <1>1 DEF BrokerLost, Slot
      <4>2. LeavesOnly(f, 0)
        BY <3>3, <4>1 DEF LeavesOnly, LeftBehind
      <4> QED
        BY <4>1, <4>2 DEF Works
    <3> HIDE DEF m
    <3>6. CASE BrokerLost(w) /\ queue' = [queue EXCEPT ![m] = @ + 1]
      BY <2>1, <3>1, <3>2, <3>5, <3>6, SlotDoubles
    <3>7. CASE WorkerLost(w) /\ workers[w].pc = "ack"
      <4>1. ~Works(f, w) /\ LeavesOnly(f, 0) /\ PaysFor(0)
        BY <1>1, <2>2, <3>3, <3>7 DEF Works
      <4>2. CASE UNCHANGED queue
        BY <2>1, <3>1, <3>4, <3>7, <4>1, <4>2, SlotGoesOn
      <4>3. CASE queue' = [queue EXCEPT ![m] = @ + 1]
        BY <2>1, <3>1, <3>2, <3>4, <3>7, <4>1, <4>3, SlotDoubles
      <4> QED
        BY <3>1, <4>2, <4>3
    <3>8. CASE WorkerLost(w) /\ workers[w].pc # "ack"
      <4>1. Works(f, w) /\ ~Works(f, w)'
        BY <2>1, <2>5, <3>4, <3>8
      <4>2. CASE UNCHANGED queue
        BY <2>1, <3>1, <3>3, <4>1, <4>2, SlotEnds
      <4>3. CASE queue' = [queue EXCEPT ![m] = @ + 1]
        BY <2>1, <3>1, <3>2, <3>3, <4>1, <4>3, SlotPublishes
      <4> QED
        BY <3>1, <4>2, <4>3
    <3> QED
      BY <2>18, <3>1, <3>6, <3>7, <3>8
  <2> QED
    BY <2>8, <2>9, <2>10, <2>11, <2>12, <2>13, <2>14, <2>15, <2>16, <2>17, <2>18
       DEF TaskStep, WorkerFault
<1> QED
  BY <1>2, <1>3

\* A file always owes something that is not an output left behind.
LEMMA EveryFileOwes ==
  ASSUME queue \in [Message -> Nat], NEW f \in File
  PROVE  \E t \in Debt : t[1] = f /\ t[2] # "left"
<1>1. CASE Closed(f)
  <2>1. <<f, "closed", None, 0>> \in Debt
    BY <1>1 DEF Debt, DebtKind, Place, Owed
  <2> QED
    BY <2>1
<1>2. CASE FileExists(f) /\ f \in api.dispatch
  <2>1. <<f, "loop", None, 0>> \in Debt
    BY <1>2 DEF Debt, DebtKind, Place, Owed
  <2> QED
    BY <2>1
<1>3. ASSUME FileExists(f), NEW w \in Worker, Works(f, w)
      PROVE  \E t \in Debt : t[1] = f /\ t[2] # "left"
  <2>1. <<f, "slot", w, 0>> \in Debt
    BY <1>3, SlotDebt
  <2> QED
    BY <2>1
<1>4. ASSUME FileExists(f), NEW m \in Message, Waits(f, m)
      PROVE  \E t \in Debt : t[1] = f /\ t[2] # "left"
  <2>1. 1 \in 1..queue[m] /\ m.file = f
    BY <1>4 DEF Waits
  <2>2. <<f, "message", m, 1>> \in Debt
    BY <1>4, <2>1 DEF Debt, DebtKind, Place, Owed
  <2> QED
    BY <2>2
<1> QED
  BY <1>1, <1>2, <1>3, <1>4 DEF Closed, Carried

\* Only a created job has rows.
LEMMA RowsAreCreated ==
  ASSUME TablesInv, ExistingIsCreated, [RowsNext]_rows
  PROVE  ExistingIsCreated'
<1>0. jobs \in [Job -> JobRow] /\ JobOf \in [File -> Job]
  BY JobRowsAssumption DEF TablesInv, RowsTypeOK
<1>1. CASE UNCHANGED rows
  BY <1>1 DEF ExistingIsCreated, JobExists, rows
<1>2. ASSUME NEW j \in Job, InsertJob(j) \/ RemoveJob(j)
      PROVE  ExistingIsCreated'
  <2>1. \A k \in Job : k # j => jobs'[k] = jobs[k]
    BY <1>0, <1>2 DEF InsertJob, RemoveJob
  <2>2. created \subseteq created' /\ (j \in created' \/ UNCHANGED created)
    BY <1>2 DEF InsertJob, RemoveJob
  <2>3. JobExists(j)' => j \in created'
    BY <1>0, <1>2 DEF InsertJob, RemoveJob, JobExists, NoJobRow
  <2> QED
    BY <2>1, <2>2, <2>3 DEF ExistingIsCreated, JobExists
<1>3. ASSUME NEW f \in File, FileExists(f), UNCHANGED created,
             \E row : jobs' = [jobs EXCEPT ![JobOf[f]] = row]
      PROVE  ExistingIsCreated'
  <2>1. JobOf[f] \in created
    BY <1>0, <1>3 DEF TablesInv, RowsTogether, ExistingIsCreated
  <2>2. \A k \in Job : k # JobOf[f] => jobs'[k] = jobs[k]
    BY <1>0, <1>3
  <2> QED
    BY <1>3, <2>1, <2>2 DEF ExistingIsCreated, JobExists
<1>4. ASSUME NEW f \in File, StartFile(f)
      PROVE  \E row : jobs' = [jobs EXCEPT ![JobOf[f]] = row]
  <2> DEFINE j == JobOf[f]
             row == [jobs[j] EXCEPT !.status =
                       IF @ = "pending" THEN "processing" ELSE @]
  <2>1. jobs' = [jobs EXCEPT ![j] = row]
    BY <1>0, <1>4 DEF StartFile, JobRow
  <2> HIDE DEF row
  <2> QED
    BY <2>1
<1>5. ASSUME NEW f \in File, NEW r, FileSettled(f, r)
      PROVE  \E row : jobs' = [jobs EXCEPT ![JobOf[f]] = row]
  BY <1>5 DEF FileSettled
<1> QED
  BY <1>1, <1>2, <1>3, <1>4, <1>5 DEF RowsNext, FailFile, CompleteFile

\* Outputs are written for created jobs, and only recorded or dropped after.
LEMMA DebtKeepsRest ==
  ASSUME RestInv, RestInv', TablesInv, WorkIsKnown, DocsAtComplete,
         DiskIsKnown, [Next]_vars
  PROVE  DocsAtComplete' /\ DiskIsKnown'
<1>1. /\ workers \in [Worker -> Slot] /\ JobOf \in [File -> Job]
      /\ SlotsAreBusy
  BY JobRowsAssumption DEF RestInv
<1>2. ASSUME UNCHANGED <<created, disk, workers>>
      PROVE  DocsAtComplete' /\ DiskIsKnown'
  BY <1>2 DEF DocsAtComplete, DiskIsKnown
<1>3. ASSUME NEW j \in Job, CreateJob(j)
      PROVE  DocsAtComplete' /\ DiskIsKnown'
  BY <1>3 DEF CreateJob, InsertJob, FilesOf, DocsAtComplete, DiskIsKnown
<1>4. ASSUME NEW p \in api.unlink, Unlink(p)
      PROVE  DocsAtComplete' /\ DiskIsKnown'
  BY <1>4 DEF Unlink, DocsAtComplete, DiskIsKnown
<1>5. ASSUME NEW w \in Worker, Receive(w)
      PROVE  DocsAtComplete' /\ DiskIsKnown'
  BY <1>1, <1>5 DEF Receive, DocsAtComplete, DiskIsKnown
<1>6. ASSUME NEW w \in Worker, TaskStep(w) \/ WorkerFault(w)
      PROVE  DocsAtComplete' /\ DiskIsKnown'
  <2>1. \A x \in Worker \ {w} : workers'[x] = workers[x]
    <3>1. workers[w].file \in File
      BY <1>1, <1>6 DEF SlotsAreBusy, TaskStep, WorkerFault, Load, Validate,
         ConvertOk, ConvertFails, RecordFailure, RecordSuccess, PublishRetry,
         Ack, ConvertBlowsUp, ConnectionLost, WorkerLost, BrokerLost, TimeLimit
    <3> QED
      BY <1>6, <3>1, TaskIsSlotStep
  <2>2. workers'[w].pc # "complete" => workers'[w].doc = 0
    <3>1. ASSUME NEW s, GoTo(w, s)
          PROVE  workers'[w].doc = 0
      BY <1>1, <3>1 DEF GoTo, Slot
    <3>2. CASE ConvertOk(w)
      BY <1>1, <3>2 DEF ConvertOk, Slot
    <3>3. CASE BrokerLost(w)
      BY <1>1, <3>3 DEF BrokerLost, Slot, DocsAtComplete
    <3>4. CASE Ack(w) \/ WorkerLost(w)
      BY <1>1, <3>4 DEF Ack, WorkerLost, IdleSlot
    <3> QED
      BY <1>6, <3>1, <3>2, <3>3, <3>4
         DEF TaskStep, WorkerFault, Load, Validate, ConvertFails,
             RecordFailure, RecordSuccess, PublishRetry, ConvertBlowsUp,
             ConnectionLost, TimeLimit, Committed
  <2>3. /\ UNCHANGED created
        /\ \/ UNCHANGED disk
           \/ /\ \E n : disk' = disk \cup {<<workers[w].file, n>>}
              /\ JobOf[workers[w].file] \in created
    <3>1. workers[w].pc # "idle" => JobOf[workers[w].file] \in created
      BY DEF WorkIsKnown
    <3>2. CASE ConvertOk(w) \/ ConvertFails(w)
      BY <3>1, <3>2 DEF ConvertOk, ConvertFails, WriteOutput
    <3> QED
      BY <1>6, <3>2
         DEF TaskStep, WorkerFault, Load, Validate, RecordFailure,
             RecordSuccess, PublishRetry, Ack, ConvertBlowsUp, ConnectionLost,
             WorkerLost, BrokerLost, TimeLimit
  <2> QED
    BY <2>1, <2>2, <2>3 DEF DocsAtComplete, DiskIsKnown
<1>7. ASSUME \/ \E j \in Job : DeleteJob(j)
             \/ \E f \in File : Dispatch(f)
             \/ HandlerDies \/ Evict \/ UNCHANGED vars
      PROVE  UNCHANGED <<created, disk, workers>>
  BY <1>7 DEF DeleteJob, RemoveJob, Dispatch, HandlerDies, Evict, vars
<1> QED
  BY <1>2, <1>3, <1>4, <1>5, <1>6, <1>7 DEF Next, ApiStep

\* What is owed is a debt, and a debt is owed.
LEMMA OwedIsDebt ==
  ASSUME NEW f \in File, NEW k \in DebtKind, NEW x \in Place, NEW n \in Nat
  PROVE  <<f, k, x, n>> \in Debt <=> Owed(f, k, x, n)
BY DEF Debt

\* POST: the files of a new job owe a dispatch each, and no mark any more.
LEMMA CreatePaysDebt ==
  ASSUME RestInv, RestInv', TablesInv, WorkIsKnown, DocsAtComplete,
         DiskIsKnown, ExistingIsCreated, DebtIsPaid,
         NEW j \in Job, CreateJob(j)
  PROVE  DebtIsPaid'
<1> DEFINE F == FilesOf(j)
           C == {}
           g == [t \in Debt |-> IF t[1] \in F THEN <<t[1], "loop", None, 0>>
                                ELSE t]
<1>1. /\ faults \in Nat /\ faults' = faults /\ JobOf \in [File -> Job]
      /\ files \in [File -> FileRow] /\ api \in Handler
  BY JobRowsAssumption, ConversionAssumption
     DEF RestInv, CreateJob, TablesInv, RowsTypeOK
<1>2. /\ UNCHANGED <<queue, workers>> /\ j \notin created
      /\ disk' = disk \cup (F \X {0})
      /\ api.dispatch = {} /\ api'.dispatch = F
      /\ files' = [h \in File |-> IF h \in F THEN NewFileRow ELSE files[h]]
  BY <1>1 DEF CreateJob, InsertJob, ApiFree, NoHandler, Handler
<1>3. \A h \in F : /\ h \in File /\ JobOf[h] = j /\ ~FileExists(h)
                   /\ FileExists(h)' /\ files'[h].output = 0
  <2> SUFFICES ASSUME NEW h \in F
               PROVE  /\ h \in File /\ JobOf[h] = j /\ ~FileExists(h)
                      /\ FileExists(h)' /\ files'[h].output = 0
    OBVIOUS
  <2>1. h \in File /\ JobOf[h] = j
    BY DEF FilesOf
  <2>2. ~FileExists(h)
    BY <1>2, <2>1 DEF TablesInv, RowsTogether, ExistingIsCreated
  <2>3. files'[h] = NewFileRow
    BY <1>2, <2>1
  <2> QED
    BY <2>1, <2>2, <2>3 DEF NewFileRow, NoFileRow, FileExists
<1>4. ASSUME NEW h \in F, NEW k \in DebtKind, NEW x \in Place, NEW n \in Nat,
             Owed(h, k, x, n)'
      PROVE  k = "loop" /\ x = None /\ n = 0
  <2>1. JobOf[h] \notin created
    BY <1>2, <1>3
  <2>2. k # "left"
    BY <1>2, <1>4, <2>1 DEF Owed, LeftBehind, DiskIsKnown
  <2>3. Carried(h)'
    BY <1>2 DEF Carried
  <2>4. k # "closed"
    BY <1>3, <1>4, <2>3 DEF Owed, Closed
  <2>5. k # "slot"
    BY <1>2, <1>4, <2>1 DEF Owed, Works, WorkIsKnown
  <2>6. k # "message"
    <3> SUFFICES ASSUME x \in Message, x.file = h, n \in 1..queue[x]
                 PROVE  FALSE
      BY <1>2, <1>4 DEF Owed
    <3>1. queue[x] \in Nat
      BY DEF RestInv
    <3>2. queue[x] > 0
      BY <3>1
    <3> QED
      BY <2>1, <3>2 DEF WorkIsKnown
  <2> QED
    BY <1>4, <2>2, <2>4, <2>5, <2>6 DEF Owed, DebtKind
<1>5. ASSUME NEW h \in File \ F, NEW k \in DebtKind, NEW x \in Place,
             NEW n \in Nat, Owed(h, k, x, n)'
      PROVE  Owed(h, k, x, n)
  <2>1. \A i \in File \ F :
          /\ files'[i].output = files[i].output
          /\ files'[i].status = "absent" <=> files[i].status = "absent"
    BY <1>2
  <2>2. \A i \in File \ F : i \in api'.dispatch <=> i \in api.dispatch
    BY <1>2
  <2>3. \A i \in File \ F, n_1 \in Nat : <<i, n_1>> \in disk' => <<i, n_1>> \in disk
    BY <1>2
  <2>4. /\ \A m \in Message : m.file \notin F => queue'[m] = queue[m]
        /\ \A w \in Worker : workers'[w] = workers[w]
    BY <1>2
  <2> HIDE DEF F
  <2> QED
    BY <1>5, <2>1, <2>2, <2>3, <2>4, OthersOweTheSame
<1>6. Debt' \subseteq {g[t] : t \in Debt} \cup C
  <2> SUFFICES ASSUME NEW u \in Debt'
               PROVE  \E t \in Debt : u = g[t]
    OBVIOUS
  <2>1. PICK h \in File, k \in DebtKind, x \in Place, n \in Nat :
          u = <<h, k, x, n>> /\ Owed(h, k, x, n)'
    BY DEF Debt, Place, Message
  <2>2. CASE h \in F
    <3> DEFINE t == <<h, "closed", None, 0>>
    <3>1. t \in Debt
      BY <1>3, <2>2 DEF Debt, DebtKind, Place, Owed, Closed
    <3>2. u = <<h, "loop", None, 0>>
      BY <1>4, <2>1, <2>2
    <3> QED
      BY <2>2, <3>1, <3>2
  <2>3. CASE h \notin F
    <3>1. u \in Debt
      BY <1>5, <2>1, <2>3, OwedIsDebt
    <3> QED
      BY <2>1, <2>3, <3>1
  <2> QED
    BY <2>2, <2>3
<1>7. PaidBy(C)
  BY <1>1 DEF PaidBy
<1> HIDE DEF g, C
<1> QED
  BY <1>1, <1>6, <1>7, DebtFollows

\* DELETE: what the files of the job owed is a mark now.
LEMMA DeletePaysDebt ==
  ASSUME RestInv, RestInv', TablesInv, DebtIsPaid, NEW j \in Job, DeleteJob(j)
  PROVE  DebtIsPaid'
<1> DEFINE F == FilesOf(j)
           C == {}
           g == [t \in Debt |-> IF t[1] \in F THEN <<t[1], "closed", None, 0>>
                                ELSE t]
<1>1. /\ faults \in Nat /\ faults' = faults /\ queue \in [Message -> Nat]
      /\ api \in Handler
  BY ConversionAssumption DEF RestInv, DeleteJob
<1>2. /\ UNCHANGED <<queue, workers, disk>>
      /\ api'.dispatch = api.dispatch
      /\ files' = [h \in File |-> IF h \in F THEN NoFileRow ELSE files[h]]
  BY <1>1 DEF DeleteJob, RemoveJob, Handler
<1>3. ASSUME NEW h \in File \ F, NEW k \in DebtKind, NEW x \in Place,
             NEW n \in Nat, Owed(h, k, x, n)'
      PROVE  Owed(h, k, x, n)
  <2>1. \A i \in File \ F :
          /\ files'[i].output = files[i].output
          /\ files'[i].status = "absent" <=> files[i].status = "absent"
    BY <1>2
  <2> HIDE DEF F
  <2> QED
    BY <1>2, <1>3, <2>1, OthersOweTheSame
<1>4. ASSUME NEW h \in F, NEW k \in DebtKind, NEW x \in Place, NEW n \in Nat,
             Owed(h, k, x, n)'
      PROVE  h \in File /\ k = "closed" /\ x = None /\ n = 0
  <2>1. h \in File
    BY DEF FilesOf
  <2>2. ~FileExists(h)'
    BY <1>2, <2>1 DEF NoFileRow, FileExists
  <2> QED
    BY <1>4, <2>1, <2>2 DEF Owed, LeftBehind
<1>5. Debt' \subseteq {g[t] : t \in Debt} \cup C
  <2> SUFFICES ASSUME NEW u \in Debt'
               PROVE  \E t \in Debt : u = g[t]
    OBVIOUS
  <2>1. PICK h \in File, k \in DebtKind, x \in Place, n \in Nat :
          u = <<h, k, x, n>> /\ Owed(h, k, x, n)'
    BY DEF Debt, Place, Message
  <2>2. CASE h \in F
    <3>1. PICK t \in Debt : t[1] = h
      BY <1>1, EveryFileOwes
    <3>2. u = <<h, "closed", None, 0>>
      BY <1>4, <2>1, <2>2
    <3> QED
      BY <2>2, <3>1, <3>2
  <2>3. CASE h \notin F
    <3>1. u \in Debt
      BY <1>3, <2>1, <2>3, OwedIsDebt
    <3> QED
      BY <2>1, <2>3, <3>1
  <2> QED
    BY <2>2, <2>3
<1>6. PaidBy(C)
  BY <1>1 DEF PaidBy
<1> HIDE DEF g, C
<1> QED
  BY <1>1, <1>5, <1>6, DebtFollows

\* A handler that dies: the files it had still to dispatch owe a mark instead.
LEMMA HandlerPaysDebt ==
  ASSUME RestInv, RestInv', DebtIsPaid, HandlerDies
  PROVE  DebtIsPaid'
<1> DEFINE C == {}
           g == [t \in Debt |-> IF t[2] = "loop" THEN <<t[1], "closed", None, 0>>
                                ELSE t]
<1>1. faults \in Nat /\ faults' = faults + 1
  BY ConversionAssumption DEF RestInv, HandlerDies, Fault
<1>2. /\ UNCHANGED <<files, queue, workers, disk>>
      /\ api'.dispatch = {}
  BY DEF HandlerDies, NoHandler
<1>3. ASSUME NEW h \in File, NEW k \in DebtKind, NEW x \in Place,
             NEW n \in Nat, Owed(h, k, x, n)'
      PROVE  /\ k # "loop"
             /\ \/ Owed(h, k, x, n)
                \/ /\ k = "closed" /\ x = None /\ n = 0
                   /\ FileExists(h) /\ h \in api.dispatch
  BY <1>2, <1>3 DEF Owed, Closed, Carried, Waits, Works, FileExists, LeftBehind
<1>4. Debt' \subseteq {g[t] : t \in Debt} \cup C
  <2> SUFFICES ASSUME NEW u \in Debt'
               PROVE  \E t \in Debt : u = g[t]
    OBVIOUS
  <2>1. PICK h \in File, k \in DebtKind, x \in Place, n \in Nat :
          u = <<h, k, x, n>> /\ Owed(h, k, x, n)'
    BY DEF Debt, Place, Message
  <2>2. CASE Owed(h, k, x, n)
    <3>1. u \in Debt /\ u[2] # "loop"
      BY <1>3, <2>1, <2>2, OwedIsDebt
    <3> QED
      BY <3>1
  <2>3. CASE /\ k = "closed" /\ x = None /\ n = 0
             /\ FileExists(h) /\ h \in api.dispatch
    <3> DEFINE t == <<h, "loop", None, 0>>
    <3>1. t \in Debt
      BY <2>3 DEF Debt, DebtKind, Place, Owed
    <3> QED
      BY <2>1, <2>3, <3>1
  <2> QED
    BY <1>3, <2>1, <2>2, <2>3
<1>5. PaidBy(C)
  BY <1>1 DEF PaidBy
<1> HIDE DEF g, C
<1> QED
  BY <1>1, <1>4, <1>5, DebtFollows

\* The dispatch loop publishes what it owed a file.
LEMMA DispatchPaysDebt ==
  ASSUME RestInv, RestInv', DebtIsPaid, NEW f \in File, Dispatch(f)
  PROVE  DebtIsPaid'
<1> DEFINE F == {f}
           C == {}
           m == [file |-> f, retries |-> 0]
           a == <<f, "loop", None, 0>>
           b == <<f, "message", m, queue[m] + 1>>
<1>1. /\ faults \in Nat /\ faults' = faults /\ f \in api.dispatch
      /\ queue \in [Message -> Nat] /\ api \in Handler
      /\ m \in Message /\ m.file = f /\ queue[m] \in Nat
      /\ queue' = [queue EXCEPT ![m] = @ + 1]
      /\ api'.dispatch = api.dispatch \ {f}
      /\ UNCHANGED <<files, workers, disk>>
  <2>1. /\ queue \in [Message -> Nat] /\ api \in Handler /\ faults \in Nat
    BY ConversionAssumption DEF RestInv
  <2>2. f \in api.dispatch /\ f \in File
    BY <2>1 DEF Dispatch, Handler
  <2>3. m \in Message /\ m.file = f
    BY ConversionAssumption, <2>2 DEF Message
  <2>4. /\ queue' = [queue EXCEPT ![m] = @ + 1]
        /\ UNCHANGED <<files, workers, disk, faults>>
    BY DEF Dispatch
  <2>5. api'.dispatch = api.dispatch \ {f}
    BY <2>1 DEF Dispatch, Handler
  <2> QED
    BY <2>1, <2>2, <2>3, <2>4, <2>5
<1> HIDE DEF m
<1>2. ASSUME NEW h \in File \ F, NEW k \in DebtKind, NEW x \in Place,
             NEW n \in Nat, Owed(h, k, x, n)'
      PROVE  Owed(h, k, x, n)
  <2>1. \A i \in File \ F : i \in api'.dispatch <=> i \in api.dispatch
    BY <1>1
  <2>2. \A y \in Message : y.file \notin F => queue'[y] = queue[y]
    BY <1>1
  <2>3. f \in F
    OBVIOUS
  <2> HIDE DEF F
  <2> QED
    BY <1>1, <1>2, <2>1, <2>2, OthersOweTheSame
<1>3. PaidBy(C)
  BY <1>1 DEF PaidBy
<1>4. CASE ~FileExists(f)
  <2>1. OwesNew(C)
    <3> SUFFICES ASSUME NEW h \in File, NEW k \in DebtKind, NEW x \in Place,
                        NEW n \in Nat, Owed(h, k, x, n)'
                 PROVE  Owed(h, k, x, n)
      BY DEF OwesNew
    <3>1. CASE h = f
      <4>1. ~FileExists(f)'
        BY <1>1, <1>4 DEF FileExists
      <4> QED
        BY <1>4, <3>1, <4>1 DEF Owed, Closed, LeftBehind
    <3> QED
      BY <1>2, <3>1
  <2> HIDE DEF C
  <2> QED
    BY <1>1, <1>3, <2>1, DebtStays
<1>5. CASE FileExists(f)
  <2>1. a \in Debt
    BY <1>1, <1>5 DEF Debt, DebtKind, Place, Owed
  <2>2. Carried(f)' /\ queue'[m] = queue[m] + 1
    BY <1>1 DEF Carried, Waits
  <2>3. ASSUME NEW k \in DebtKind, NEW x \in Place, NEW n \in Nat,
               Owed(f, k, x, n)'
        PROVE  \/ Owed(f, k, x, n) /\ <<f, k, x, n>> # a
               \/ <<f, k, x, n>> = b
    <3>1. CASE k = "left"
      BY <1>1, <2>3, <3>1 DEF Owed, LeftBehind, FileExists
    <3>2. CASE k = "closed"
      BY <1>1, <2>2, <2>3, <3>2 DEF Owed, Closed, FileExists
    <3>3. CASE k = "slot"
      BY <1>1, <2>3, <3>3 DEF Owed, Works, FileExists
    <3>4. k # "loop"
      BY <1>1, <2>3 DEF Owed
    <3>5. CASE k = "message"
      <4>1. x \in Message /\ x.file = f /\ n \in 1..queue'[x]
        BY <2>3, <3>5 DEF Owed
      <4>2. CASE n \in 1..queue[x]
        BY <1>5, <3>5, <4>1, <4>2 DEF Owed
      <4>3. CASE n \notin 1..queue[x]
        <5>1. queue[x] \in Nat
          BY <1>1, <4>1
        <5>2. x = m
          BY <1>1, <4>1, <4>3
        <5>3. n = queue[m] + 1
          BY <2>2, <4>1, <4>3, <5>1, <5>2
        <5> QED
          BY <3>5, <5>2, <5>3
      <4> QED
        BY <4>2, <4>3
    <3> QED
      BY <3>1, <3>2, <3>3, <3>4, <3>5 DEF DebtKind
  <2>4. Exchanges(a, b, C)
    <3> SUFFICES ASSUME NEW h \in File, NEW k \in DebtKind, NEW x \in Place,
                        NEW n \in Nat, Owed(h, k, x, n)'
                 PROVE  \/ Owed(h, k, x, n) /\ <<h, k, x, n>> # a
                        \/ <<h, k, x, n>> = b
      BY DEF Exchanges
    <3>1. CASE h = f
      BY <2>3, <3>1
    <3>2. CASE h # f
      BY <1>2, <3>2
    <3> QED
      BY <3>1, <3>2
  <2> HIDE DEF a, b, C
  <2> QED
    BY <1>1, <1>3, <2>1, <2>4, DebtMoves
<1> QED
  BY <1>4, <1>5

\* A message that leaves the queue, for slot w or for good, owed as much as the
\* slot, or the mark, does now.
LEMMA MessagePaysDebt ==
  ASSUME queue \in [Message -> Nat], faults \in Nat, faults' \in Nat,
         faults' >= faults, DebtIsPaid, DocsAtComplete,
         workers \in [Worker -> Slot],
         NEW m \in Message, queue[m] > 0,
         queue' = [queue EXCEPT ![m] = @ - 1],
         UNCHANGED <<files, disk, api>>,
         \/ UNCHANGED workers
         \/ \E w \in Worker :
              /\ workers[w].pc = "idle"
              /\ \A y \in Worker \ {w} : workers'[y] = workers[y]
              /\ workers'[w].file = m.file /\ workers'[w].pc = "load"
  PROVE  DebtIsPaid'
<1> DEFINE f == m.file
           F == {f}
           C == {}
           a == <<f, "message", m, queue[m]>>
           b == <<f, "closed", None, 0>>
           s(w) == <<f, "slot", w, 0>>
<1>1. f \in File /\ queue[m] \in Nat \ {0} /\ queue'[m] = queue[m] - 1
  <2>1. f \in File
    BY DEF Message
  <2>2. queue[m] \in Nat
    OBVIOUS
  <2> QED
    BY <2>1, <2>2
<1>2. PaidBy(C)
  BY DEF PaidBy
<1>3. ASSUME NEW h \in File \ F, NEW k \in DebtKind, NEW x \in Place,
             NEW n \in Nat, Owed(h, k, x, n)'
      PROVE  Owed(h, k, x, n)
  <2>1. \A y \in Message : y.file \notin F => queue'[y] = queue[y]
    OBVIOUS
  <2>2. \A y \in Worker :
          \/ workers'[y] = workers[y]
          \/ /\ \/ workers[y].file \in F
                \/ workers[y].doc = 0 /\ workers[y].pc \in {"idle", "ack"}
             /\ workers'[y].file \in F \/ workers'[y].pc \in {"idle", "ack"}
    BY DEF DocsAtComplete
  <2> HIDE DEF F
  <2> QED
    BY <1>3, <2>1, <2>2, OthersOweTheSame
<1>4. ASSUME NEW n \in Nat, <<f, n>> \in disk', LeftBehind(<<f, n>>)'
      PROVE  <<f, n>> \in disk /\ LeftBehind(<<f, n>>)
  BY <1>4 DEF LeftBehind, FileExists, DocsAtComplete
<1>5. CASE ~FileExists(f)
  <2>1. OwesNew(C)
    <3> SUFFICES ASSUME NEW h \in File, NEW k \in DebtKind, NEW x \in Place,
                        NEW n \in Nat, Owed(h, k, x, n)'
                 PROVE  Owed(h, k, x, n)
      BY DEF OwesNew
    <3>1. CASE h = f
      <4>1. ~FileExists(f)'
        BY <1>5 DEF FileExists
      <4> QED
        BY <1>5, <3>1, <4>1 DEF Owed, Closed, LeftBehind
    <3> QED
      BY <1>3, <3>1
  <2> HIDE DEF C
  <2> QED
    BY <1>2, <2>1, DebtStays
<1>6. ASSUME FileExists(f)
      PROVE  a \in Debt
  <2>1. Owed(f, "message", m, queue[m])
    BY <1>1, <1>6 DEF Owed
  <2>2. "message" \in DebtKind /\ m \in Place /\ queue[m] \in Nat
    BY <1>1 DEF DebtKind, Place
  <2> QED
    BY <1>1, <2>1, <2>2 DEF Debt
<1>7. ASSUME NEW k \in DebtKind, NEW x \in Place, NEW n \in Nat,
             Owed(f, k, x, n)', FileExists(f)
      PROVE  \/ Owed(f, k, x, n) /\ <<f, k, x, n>> # a
             \/ <<f, k, x, n>> = b /\ ~Carried(f)'
             \/ k = "slot" /\ x \in Worker /\ n = 0 /\ Works(f, x)'
                /\ ~Works(f, x)
  <2>1. CASE k = "left"
    BY <1>4, <1>7, <2>1 DEF Owed
  <2>2. CASE k = "closed"
    BY <1>7, <2>2 DEF Owed, Closed, FileExists
  <2>3. CASE k = "loop"
    BY <1>7, <2>3 DEF Owed
  <2>4. CASE k = "slot"
    BY <1>7, <2>4 DEF Owed
  <2>5. CASE k = "message"
    <3>1. x \in Message /\ x.file = f /\ n \in 1..queue'[x]
      BY <1>7, <2>5 DEF Owed
    <3>2. n \in 1..queue[x] /\ (x = m => n # queue[m])
      BY <1>1, <3>1
    <3> QED
      BY <1>7, <2>5, <3>1, <3>2 DEF Owed
  <2> QED
    BY <2>1, <2>2, <2>3, <2>4, <2>5 DEF DebtKind
<1>8. CASE FileExists(f) /\ UNCHANGED workers
  <2>1. Exchanges(a, b, C)
    <3> SUFFICES ASSUME NEW h \in File, NEW k \in DebtKind, NEW x \in Place,
                        NEW n \in Nat, Owed(h, k, x, n)'
                 PROVE  \/ Owed(h, k, x, n) /\ <<h, k, x, n>> # a
                        \/ <<h, k, x, n>> = b
      BY DEF Exchanges
    <3>1. CASE h = f
      BY <1>7, <1>8, <3>1 DEF Works
    <3>2. CASE h # f
      BY <1>3, <3>2
    <3> QED
      BY <3>1, <3>2
  <2>2. a \in Debt
    BY <1>6, <1>8
  <2> HIDE DEF a, b, C
  <2> QED
    BY <1>2, <2>1, <2>2, DebtMoves
<1>9. ASSUME FileExists(f), NEW w \in Worker, workers[w].pc = "idle",
             \A y \in Worker \ {w} : workers'[y] = workers[y],
             workers'[w].file = f, workers'[w].pc = "load"
      PROVE  DebtIsPaid'
  <2>1. Carried(f)'
    BY <1>9 DEF Carried, Works
  <2>2. Exchanges(a, s(w), C)
    <3> SUFFICES ASSUME NEW h \in File, NEW k \in DebtKind, NEW x \in Place,
                        NEW n \in Nat, Owed(h, k, x, n)'
                 PROVE  \/ Owed(h, k, x, n) /\ <<h, k, x, n>> # a
                        \/ <<h, k, x, n>> = s(w)
      BY DEF Exchanges
    <3>1. CASE h = f
      <4>1. \A y \in Worker \ {w} : Works(f, y)' <=> Works(f, y)
        BY <1>9 DEF Works
      <4> QED
        BY <1>7, <1>9, <2>1, <3>1, <4>1
    <3>2. CASE h # f
      BY <1>3, <3>2
    <3> QED
      BY <3>1, <3>2
  <2>3. a \in Debt
    BY <1>6, <1>9
  <2> HIDE DEF a, s, C
  <2> QED
    BY <1>2, <2>2, <2>3, DebtMoves
<1> QED
  BY <1>5, <1>8, <1>9

\* The other steps are paid for.
LEMMA OthersPayDebt ==
  ASSUME RestInv, RestInv', TablesInv, WorkIsKnown, DebtInv,
         \/ \E j \in Job : CreateJob(j) \/ DeleteJob(j)
         \/ ApiStep
         \/ \E w \in Worker : Receive(w)
         \/ HandlerDies
         \/ Evict
         \/ UNCHANGED vars
  PROVE  DebtIsPaid'
<1>1. /\ queue \in [Message -> Nat] /\ workers \in [Worker -> Slot]
      /\ faults \in Nat /\ faults' \in Nat
      /\ DebtIsPaid /\ DocsAtComplete /\ DiskIsKnown /\ ExistingIsCreated
  BY ConversionAssumption DEF RestInv, DebtInv
<1>2. ASSUME NEW w \in Worker, Receive(w)
      PROVE  DebtIsPaid'
  <2> DEFINE slot(m) == [pc |-> "load", file |-> m.file, retries |-> m.retries,
                         held |-> TRUE, doc |-> 0]
  <2>1. ASSUME NEW m \in Message, queue[m] > 0,
               queue' = [queue EXCEPT ![m] = @ - 1],
               workers' = [workers EXCEPT ![w] = slot(m)]
        PROVE  DebtIsPaid'
    <3>1. /\ workers[w].pc = "idle"
          /\ \A y \in Worker \ {w} : workers'[y] = workers[y]
          /\ workers'[w].file = m.file /\ workers'[w].pc = "load"
      BY <1>1, <1>2, <2>1 DEF Receive
    <3>2. UNCHANGED <<files, disk, api>> /\ faults' >= faults
      BY <1>1, <1>2 DEF Receive
    <3> HIDE DEF slot
    <3> QED
      BY <1>1, <2>1, <3>1, <3>2, MessagePaysDebt
  <2> HIDE DEF slot
  <2> QED
    BY <1>2, <2>1 DEF Receive, slot
<1>3. CASE Evict
  <2>1. ASSUME NEW m \in Message, queue[m] > 0,
               queue' = [queue EXCEPT ![m] = @ - 1]
        PROVE  DebtIsPaid'
    <3>1. UNCHANGED <<files, disk, api>> /\ faults' >= faults
      BY <1>1, <1>3 DEF Evict, Fault
    <3>2. UNCHANGED workers
      BY <1>3 DEF Evict
    <3> QED
      BY <1>1, <2>1, <3>1, <3>2, MessagePaysDebt
  <2> QED
    BY <1>3, <2>1 DEF Evict
<1>4. ASSUME /\ UNCHANGED <<files, queue, workers>> /\ faults' >= faults
             /\ api'.dispatch = api.dispatch /\ disk' \subseteq disk
      PROVE  DebtIsPaid'
  <2> DEFINE C == {}
             F == {}
  <2>1. OwesNew(C)
    <3> SUFFICES ASSUME NEW h \in File, NEW k \in DebtKind, NEW x \in Place,
                        NEW n \in Nat, Owed(h, k, x, n)'
                 PROVE  Owed(h, k, x, n)
      BY DEF OwesNew
    <3>1. h \in File \ F
      OBVIOUS
    <3> HIDE DEF F
    <3> QED
      BY <1>4, <3>1, OthersOweTheSame
  <2>2. PaidBy(C)
    BY <1>4 DEF PaidBy
  <2> HIDE DEF C
  <2> QED
    BY <1>1, <2>1, <2>2, DebtStays
<1>5. ASSUME NEW p \in api.unlink, Unlink(p)
      PROVE  DebtIsPaid'
  BY <1>1, <1>4, <1>5 DEF Unlink, Fault, RestInv, Handler
<1>6. CASE UNCHANGED vars
  BY <1>1, <1>4, <1>6 DEF vars
<1> QED
  BY <1>1, <1>2, <1>3, <1>5, <1>6, CreatePaysDebt, DeletePaysDebt,
     DispatchPaysDebt, HandlerPaysDebt DEF ApiStep

\* Each output left behind is a debt, and so is something else of every file.
LEMMA DebtAccounts ==
  ASSUME RestInv, DebtIsPaid
  PROVE  DiskAccountedFor
<1> DEFINE L == {p \in disk : LeftBehind(p)}
           D == {t \in Debt : t[2] = "left"}
           E == {t \in Debt : t[2] # "left"}
           owner == [t \in E |-> t[1]]
           output == [t \in D |-> <<t[1], t[4]>>]
<1>1. /\ IsFiniteSet(D) /\ IsFiniteSet(E)
      /\ Cardinality(D) \in Nat /\ Cardinality(E) \in Nat
  <2>1. D \in SUBSET Debt /\ E \in SUBSET Debt
    OBVIOUS
  <2>2. IsFiniteSet(D) /\ IsFiniteSet(E)
    BY <2>1, FS_Subset DEF DebtIsPaid
  <2> QED
    BY <2>2, FS_CardinalityType
<1>2. Cardinality(Debt) = Cardinality(D) + Cardinality(E)
  <2>1. D \cup E = Debt /\ D \cap E = {}
    OBVIOUS
  <2>2. Cardinality(D \cup E) = Cardinality(D) + Cardinality(E)
                                - Cardinality(D \cap E)
    BY <1>1, FS_Union
  <2>3. Cardinality(D \cap E) = 0
    BY <2>1, FS_EmptySet
  <2> HIDE DEF D, E
  <2> QED
    BY <1>1, <2>1, <2>2, <2>3
<1>3. owner \in Surjection(E, File)
  <2>1. queue \in [Message -> Nat]
    BY DEF RestInv
  <2>2. \A f \in File : \E t \in E : t[1] = f
    BY <2>1, EveryFileOwes
  <2>3. \A t \in E : t[1] \in File
    BY DEF Debt
  <2> QED
    BY <2>2, <2>3 DEF Surjection
<1>4. output \in Surjection(D, L)
  <2>1. \A t \in D : <<t[1], t[4]>> \in L
    <3> SUFFICES ASSUME NEW f \in File, NEW k \in DebtKind, NEW x \in Place,
                        NEW n \in Nat, Owed(f, k, x, n), k = "left"
                 PROVE  <<f, n>> \in L
      BY DEF Debt
    <3> QED
      BY DEF Owed
  <2>2. ASSUME NEW p \in L
        PROVE  \E t \in D : <<t[1], t[4]>> = p
    <3>1. PICK f \in File, n \in Nat : p = <<f, n>>
      BY DEF RestInv
    <3> DEFINE t == <<f, "left", None, n>>
    <3>2. t \in D /\ t[1] = f /\ t[4] = n
      BY <3>1 DEF Debt, DebtKind, Place, Owed
    <3> QED
      BY <3>1, <3>2
  <2> QED
    BY <2>1, <2>2 DEF Surjection
<1> HIDE DEF L, D, E, owner, output
<1>5. Cardinality(File) <= Cardinality(E)
  BY <1>1, <1>3, FS_Surjection
<1>6. IsFiniteSet(L) /\ Cardinality(L) <= Cardinality(D)
  BY <1>1, <1>4, FS_Surjection
<1>7. /\ Cardinality(L) \in Nat /\ Cardinality(File) \in Nat /\ faults \in Nat
  BY <1>6, JobRowsAssumption, ConversionAssumption, FS_CardinalityType
     DEF RestInv
<1>8. Cardinality(Debt) <= faults + Cardinality(File)
  BY DEF DebtIsPaid
<1>9. Cardinality(L) <= faults
  BY <1>1, <1>2, <1>5, <1>6, <1>7, <1>8
<1> QED
  BY <1>9 DEF DiskAccountedFor, L

\* At first every file owes its mark, and nothing else.
LEMMA InitOwesNothing == Init => DebtInv
<1> SUFFICES ASSUME Init
             PROVE  DebtInv
  OBVIOUS
<1> DEFINE g == [f \in File |-> <<f, "closed", None, 0>>]
           T == Debt
<1>1. \A f \in File : ~FileExists(f)
  BY DEF Init, RowsInit, NoFileRow, FileExists
<1>2. T \subseteq {g[f] : f \in File}
  <2> SUFFICES ASSUME NEW f \in File, NEW k \in DebtKind, NEW x \in Place,
                      NEW n \in Nat, Owed(f, k, x, n)
               PROVE  k = "closed" /\ x = None /\ n = 0
    BY DEF Debt
  <2> QED
    BY <1>1 DEF Owed, LeftBehind
<1> HIDE DEF g, T
<1>3. IsFiniteSet(T) /\ Cardinality(T) <= Cardinality(File)
  BY <1>2, JobRowsAssumption, ImageIsSmaller
<1>4. Cardinality(File) \in Nat /\ Cardinality(T) \in Nat /\ faults = 0
  BY <1>3, JobRowsAssumption, FS_CardinalityType DEF Init
<1>5. DebtIsPaid
  BY <1>3, <1>4 DEF DebtIsPaid, T
<1>6. DocsAtComplete /\ DiskIsKnown /\ ExistingIsCreated
  BY DEF Init, RowsInit, NoJobRow, IdleSlot, DocsAtComplete, DiskIsKnown,
         ExistingIsCreated, JobExists
<1> QED
  BY <1>5, <1>6 DEF DebtInv

LEMMA NextKeepsDebt ==
  IInv /\ IInv' /\ DiskInv /\ DebtInv /\ [Next]_vars => DebtInv'
<1> SUFFICES ASSUME RestInv, TablesInv, RestInv', DiskInv, DebtInv, [Next]_vars
             PROVE  DebtInv'
  <2>1. IInv' => RestInv'
    BY DEF IInv, TypeOK, RestInv
  <2> QED
    BY <2>1, IInvParts
<1>1. WorkIsKnown
  BY DEF DiskInv
<1>2. ExistingIsCreated'
  BY StepOnRows, RowsAreCreated DEF DebtInv
<1>3. DocsAtComplete' /\ DiskIsKnown'
  BY <1>1, DebtKeepsRest DEF DebtInv
<1>4. DebtIsPaid'
  <2>1. ASSUME NEW w \in Worker, TaskStep(w) \/ WorkerFault(w)
        PROVE  DebtIsPaid'
    <3>1. workers[w].pc # "idle"
      BY <2>1 DEF TaskStep, WorkerFault, Load, Validate,
         ConvertOk, ConvertFails, RecordFailure, RecordSuccess, PublishRetry,
         Ack, ConvertBlowsUp, ConnectionLost, WorkerLost, BrokerLost, TimeLimit
    <3>2. workers[w].file \in File
      BY <3>1 DEF RestInv, SlotsAreBusy
    <3> QED
      BY <2>1, <3>2, TaskPaysDebt DEF DebtInv
  <2> QED
    BY <1>1, <2>1, OthersPayDebt DEF Next
<1> QED
  BY <1>2, <1>3, <1>4 DEF DebtInv

\* However the tasks of a job are killed, repeated, retried or interleaved, each
\* fault leaves one output, at most, that no row names and no task is about to
\* record: that is all DELETE /jobs/{id}, which unlinks what the rows name, can
\* miss of a job nobody works for.
THEOREM DiskIsAccountedFor == Spec => []DiskAccountedFor
<1>1. Init => DiskInv
  BY DEF Init, RowsInit, NoFileRow, NoHandler, IdleSlot, DiskInv,
         RowsPointAtDisk, WorkIsKnown, DocsOnDisk, UnlinkIsLate, FileExists
<1>2. IInv /\ DebtInv => DiskAccountedFor
  BY DebtAccounts, IInvParts DEF DebtInv
<1> QED
  BY <1>1, <1>2, InitEstablishesIInv, NextKeepsIInv, NextKeepsDisk,
     InitOwesNothing, NextKeepsDebt, PTL DEF Spec

=============================================================================
