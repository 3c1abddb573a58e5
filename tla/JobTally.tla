------------------------------ MODULE JobTally ------------------------------
(***************************************************************************)
(* The pure part of services/jobs.py: how the per-file outcomes of a job   *)
(* become the status the job row shows.  No state; every module that moves *)
(* a job row uses these operators.                                         *)
(***************************************************************************)
EXTENDS Integers, FiniteSets

\* FileStatus and JobStatus of models/db.py.
FileStatus == {"pending", "processing", "done", "failed"}
JobStatus  == {"pending", "processing", "done", "failed", "partial_success"}

\* A file whose conversion has reached a verdict, and a job that has one.
FinalFile   == {"done", "failed"}
TerminalJob == {"done", "failed", "partial_success"}

(***************************************************************************)
(* Mutated forms of ComputeJobStatus: a batch closed one file too early,   *)
(* and a batch in which one failure fails everything.                      *)
(***************************************************************************)
ComputeJobStatusEarly(total, succeeded, failed) ==
  CASE succeeded + failed < total - 1  -> "processing"
    [] succeeded + failed >= total - 1 ->
         IF failed = 0 THEN "done" ELSE
         IF succeeded = 0 THEN "failed" ELSE "partial_success"
ComputeJobStatusAnyFails(total, succeeded, failed) ==
  CASE succeeded + failed < total                 -> "processing"
    [] succeeded + failed >= total /\ failed > 0 -> "failed"
    [] succeeded + failed >= total /\ failed = 0 -> "done"

(***************************************************************************)
(* compute_job_status: the guards are the early returns, in order.         *)
(***************************************************************************)
ComputeJobStatus(total, succeeded, failed) ==
  IF total <= 0                  THEN "pending"
  ELSE IF succeeded + failed < total THEN "processing"
  ELSE IF failed = 0             THEN "done"
  ELSE IF succeeded = 0          THEN "failed"
  ELSE                                "partial_success"

(***************************************************************************)
(* The verdict the function is meant to compute, stated on the outcomes    *)
(* themselves instead of on two counters: `outcome' maps each file of a    *)
(* non-empty job to its status.                                            *)
(***************************************************************************)
Verdict(outcome) ==
  LET fs == DOMAIN outcome IN
  IF \E f \in fs : outcome[f] \notin FinalFile THEN "processing"
  ELSE IF \A f \in fs : outcome[f] = "done"    THEN "done"
  ELSE IF \A f \in fs : outcome[f] = "failed"  THEN "failed"
  ELSE "partial_success"

=============================================================================
