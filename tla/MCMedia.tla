------------------------------ MODULE MCMedia -------------------------------
(***************************************************************************)
(* Instances of Media for TLC: two documents, one of them converted twice; *)
(* images that two EPUBs would call the same.                              *)
(***************************************************************************)
EXTENDS Media

CONSTANTS a, b, r1, r2, r3, i1, i2

\* A document with images it refers to, all or some of them; one with images
\* only inside an SVG (the cleaner drops the reference); one whose text happens
\* to mention such a path; one without images.
SmallContents ==
  [pymupdf : BOOLEAN, images : SUBSET {i1, i2}, refs : {{}, {i1}, {i1, i2}}]

\* One image in each of the documents.
Illustrated == {[pymupdf |-> FALSE, images |-> {i1}, refs |-> {i1}]}

TwoOfOne == [r \in Run |-> IF r = r3 THEN b ELSE a]
=============================================================================
