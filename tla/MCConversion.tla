---------------------------- MODULE MCConversion ----------------------------
(***************************************************************************)
(* Small instances of Conversion for TLC: one job of one file or of two,   *)
(* and the sets of faults each run lets the environment inject.            *)
(***************************************************************************)
EXTENDS Conversion, TLC

CONSTANTS j1, f1, f2, w1, w2

OneJob == [f \in {f1, f2} |-> j1]
OneFile == f1 :> j1

WorkerSymmetry == Permutations({w1, w2})

\* Everything that can go wrong.
EveryFault == AllFaults

\* What neither delivers a message twice nor loses one before its retries.
OnceFaults == {"db", "partial", "unlink", "api", "timelimit", "unhandled",
               "evict", "publish"}

\* What may delay a file but not lose it.  A slot that has lost its message to
\* a redelivery and then dies ("orphan") loses what it began, and is not here.
DelayingFaults == {"db", "ambiguous", "partial", "crash", "redeliver"}
=============================================================================
