----------------------------- MODULE Validation -----------------------------
(***************************************************************************)
(* security/validation.py: what makes an uploaded file acceptable.         *)
(*                                                                         *)
(* Extensions and media types are abbreviated to the part that tells them  *)
(* apart: "epub" is both ".epub" and "application/epub+zip", "octet" is    *)
(* "application/octet-stream".                                             *)
(***************************************************************************)
EXTENDS Naturals

\* The whitelists of the two directions (defaults of Settings): documents that
\* become Markdown, and Markdown that becomes a document.
AllowedExtensions   == {"epub", "pdf", "docx", "html", "txt"}
AllowedMimeTypes    == {"epub", "pdf", "docx", "html", "text"}
ExportExtensions    == {"md", "markdown"}
ExportMimeTypes     == {"text", "markdown", "x-markdown"}

OutputFormat == {"markdown", "pdf", "docx", "epub"}
Extension == AllowedExtensions \cup ExportExtensions \cup {"other"}
MimeType  == AllowedMimeTypes \cup ExportMimeTypes
             \cup {"zip", "xhtml", "octet", "empty"}

\* A document as uploaded: its extension, what libmagic says of its first bytes
\* if it has any, whether it is an archive with the entry that marks a file of
\* its extension, and its length.
Document == [ext : Extension, mime : MimeType, marker : BOOLEAN, size : Nat]

\* An extension that is not listed admits whatever is sniffed.
Lenient == [epub |-> {"epub", "zip"}, docx |-> {"docx", "zip"},
            txt |-> {"text"}, html |-> {"html", "xhtml"}, pdf |-> {"pdf"},
            md |-> ExportMimeTypes, markdown |-> ExportMimeTypes]
AcceptedFor(ext, mime) == IF ext \in DOMAIN Lenient THEN Lenient[ext] ELSE {mime}

SniffMime(d) == IF d.size = 0 THEN "empty" ELSE d.mime

ZipContainer == {"epub", "docx"}
VerifyZipContainer(d) == d.ext \in ZipContainer /\ d.size > 0 /\ d.marker

\* The sniffed type is one its extension admits, and one of those is allowed ...
MimeOk(d, mimes) ==
  LET accepted == AcceptedFor(d.ext, SniffMime(d))
  IN  SniffMime(d) \in accepted
        /\ (accepted \cap mimes # {} \/ SniffMime(d) \in mimes)

\* ... or libmagic is wrong about an archive of that very kind.
DetectFormat(d, exts, mimes) ==
  d.ext \in exts /\ (MimeOk(d, mimes) \/ VerifyZipContainer(d))

\* Mutated form: the sniff of an empty file is its extension's.
ValidateEmpty(d, target, limit) ==
  LET e == [d EXCEPT !.size = 1]
  IN  IF target = "markdown"
      THEN DetectFormat(e, AllowedExtensions, AllowedMimeTypes) /\ d.size <= limit
      ELSE DetectFormat(e, ExportExtensions, ExportMimeTypes) /\ d.size <= limit

\* validate_upload, or validate_markdown_input for an export.
Validate(d, target, limit) ==
  /\ IF target = "markdown"
     THEN DetectFormat(d, AllowedExtensions, AllowedMimeTypes)
     ELSE DetectFormat(d, ExportExtensions, ExportMimeTypes)
  /\ d.size <= limit

=============================================================================
