----------------------------- MODULE MCRowLocks -----------------------------
(***************************************************************************)
(* Small instances of RowLocks for TLC: one job of two files, one task per *)
(* file.                                                                   *)
(***************************************************************************)
EXTENDS RowLocks, TLC

CONSTANTS j1, f1, f2, r1, r2

OneJob  == [f \in {f1, f2} |-> j1]

OnePerFile   == r1 :> f1 @@ r2 :> f2
=============================================================================
