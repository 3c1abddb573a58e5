------------------------------ MODULE MCUpload ------------------------------
(***************************************************************************)
(* Instances of Upload for TLC: two requests, lists of up to three small   *)
(* documents around every limit and every answer of the validation.        *)
(***************************************************************************)
EXTENDS Upload

Doc(ext, mime, marker, size) ==
  [ext |-> ext, mime |-> mime, marker |-> marker, size |-> size]

\* Full length, an archive libmagic mislabels, empty, one byte too long,
\* Markdown, and a document that is not what its extension says.
Full   == Doc("pdf", "pdf", FALSE, 4)
Packed == Doc("epub", "octet", TRUE, 3)
Empty  == Doc("txt", "text", FALSE, 0)
Long   == Doc("txt", "text", FALSE, 5)
Notes  == Doc("md", "text", FALSE, 1)
Wrong  == Doc("pdf", "html", FALSE, 2)

SmallPayloads ==
  {<<>>, <<Full>>, <<Packed>>, <<Empty>>, <<Long>>, <<Notes>>, <<Wrong>>,
   <<Full, Full>>, <<Full, Packed>>, <<Full, Wrong>>, <<Packed, Long>>,
   <<Notes, Empty>>, <<Notes, Notes>>, <<Notes, Notes, Notes>>}
=============================================================================
