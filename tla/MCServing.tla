------------------------------ MODULE MCServing -----------------------------
(***************************************************************************)
(* Instance for TLC: an export of three files whose names collide with     *)
(* each other and with the numbered form of each other, and an import.     *)
(* The row of one file was tampered with, the output of another may go.    *)
(***************************************************************************)
EXTENDS Serving

CONSTANTS j1, j2, a1, a2, a3, b

MCJob   == {j1, j2}
MCFile  == {a1, a2, a3, b}
MCJobOf == [f \in MCFile |-> IF f = b THEN j2 ELSE j1]
MCStem  == [f \in MCFile |-> IF f = a3 THEN <<0, 2>> ELSE <<0>>]
=============================================================================
