------------------------------ MODULE Quality -------------------------------
(***************************************************************************)
(* processors/quality.py: how far a conversion can be trusted.             *)
(*                                                                         *)
(* Scores are in thousandths (round(score, 3) in the code).  A text is a   *)
(* sequence of tokens (Cleaner); its length stands for its characters, so  *)
(* the floors of the source are parameters here.                           *)
(***************************************************************************)
EXTENDS Integers, Sequences, FiniteSetsExt

CONSTANTS SmallInput,   \* a source this large ...
          SmallOutput,  \* ... ought to yield this much text
          Structure     \* and a text this long ought to have a heading

ASSUME FloorsAssumption ==
  /\ {SmallInput, SmallOutput, Structure} \subseteq Nat \ {0}
  /\ SmallOutput <= Structure

High   == 750
Medium == 450

LevelFor(score) ==
  IF score >= High THEN "high" ELSE IF score >= Medium THEN "medium" ELSE "low"

Count(text, token) == Cardinality({i \in 1..Len(text) : text[i] = token})

\* Mutated form: off by one at the floor.
TooSmallAbove(bytes, text) ==
  IF bytes > SmallInput /\ Len(text) < SmallOutput THEN 700 ELSE 0

\* What each of the three signs of damage costs.
TooSmall(bytes, text) ==
  IF bytes >= SmallInput /\ Len(text) < SmallOutput THEN 700 ELSE 0
NoHeading(text) ==
  IF Len(text) >= Structure /\ Count(text, "#") = 0 THEN 200 ELSE 0
Replaced(text) ==
  LET n == Count(text, "bad")
  IN  IF n = 0 THEN 0 ELSE Min({400, 100 + 50 * n})

Score(bytes, text) ==
  IF text = <<>> THEN 0
  ELSE Max({0, 1000 - TooSmall(bytes, text) - NoHeading(text) - Replaced(text)})

AssessQuality(bytes, text) ==
  [score |-> Score(bytes, text), level |-> LevelFor(Score(bytes, text))]

=============================================================================
