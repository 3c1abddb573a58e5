---------------------------- MODULE JobContract ----------------------------
(***************************************************************************)
(* What a conversion job promises to someone who only reads GET /jobs/{id}:*)
(* a job is opened with all its files waiting, each file gets one verdict, *)
(* the job closes with the verdict on the whole batch at the moment the    *)
(* last file gets its own, and then nothing changes until it is withdrawn. *)
(* There is no queue, no worker, no retry, no counter and no disk here.    *)
(***************************************************************************)
EXTENDS JobTally

CONSTANTS Job, File, JobOf

VARIABLES
  status,    \* what GET /jobs/{id} shows for a job, "absent" for a 404
  outcome,   \* per file: "absent", "waiting" or its verdict
  opened     \* jobs that have been opened at some time

cvars == <<status, outcome, opened>>

Batch(j) == {f \in File : JobOf[f] = j}

CInit == /\ status = [j \in Job |-> "absent"]
         /\ outcome = [f \in File |-> "absent"]
         /\ opened = {}

Open(j) ==
  /\ j \notin opened
  /\ Batch(j) # {}
  /\ opened' = opened \cup {j}
  /\ status' = [status EXCEPT ![j] = "pending"]
  /\ outcome' = [f \in File |-> IF f \in Batch(j) THEN "waiting"
                                                  ELSE outcome[f]]

\* Some work on the job has begun.
Begin(j) ==
  /\ status[j] = "pending"
  /\ status' = [status EXCEPT ![j] = "processing"]
  /\ UNCHANGED <<outcome, opened>>

\* File f gets its only verdict.
Decide(f, v) ==
  /\ status[JobOf[f]] = "processing"
  /\ outcome[f] = "waiting"
  /\ outcome' = [outcome EXCEPT ![f] = v]
  /\ status' = [status EXCEPT ![JobOf[f]] =
                  Verdict([g \in Batch(JobOf[f]) |-> outcome'[g]])]
  /\ UNCHANGED opened

Withdraw(j) ==
  /\ status[j] # "absent"
  /\ status' = [status EXCEPT ![j] = "absent"]
  /\ outcome' = [f \in File |-> IF f \in Batch(j) THEN "absent"
                                                  ELSE outcome[f]]
  /\ UNCHANGED opened

CNext == \/ \E j \in Job : Open(j) \/ Begin(j) \/ Withdraw(j)
         \/ \E f \in File, v \in FinalFile : Decide(f, v)

CSpec == CInit /\ [][CNext]_cvars

=============================================================================
