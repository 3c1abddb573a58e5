------------------------------ MODULE Routing -------------------------------
(***************************************************************************)
(* converters/router.py, converters/__init__.py, utils/pdf_inspector.py:   *)
(* which converter a document goes to.                                     *)
(*                                                                         *)
(* The pages of a PDF are "text" (enough characters for its area), "scan"  *)
(* (too few) or "void" (no area); a PDF that cannot be opened has none.    *)
(***************************************************************************)
EXTENDS Integers, Sequences, FiniteSetsExt

Tools == {"pandoc", "pymupdf", "markitdown", "ocr",
          "export-pdf", "export-docx", "export-epub"}

\* Mutated form: one of the two extensions of Markdown.
SupportedExtensionsShort == [t \in Tools |->
  CASE t = "pandoc" -> {"epub"}
    [] t \in {"pymupdf", "ocr"} -> {"pdf"}
    [] t = "markitdown" -> {"docx", "html", "txt"}
    [] OTHER -> {"md"}]

SupportedExtensions == [t \in Tools |->
  CASE t = "pandoc" -> {"epub"}
    [] t \in {"pymupdf", "ocr"} -> {"pdf"}
    [] t = "markitdown" -> {"docx", "html", "txt"}
    [] OTHER -> {"md", "markdown"}]

DefaultByFormat == [epub |-> "pandoc", pdf_native |-> "pymupdf",
                    pdf_scanned |-> "ocr", docx |-> "markitdown",
                    html |-> "markitdown", txt |-> "markitdown"]

SamplePages == 8

\* Python rounds a half to the even neighbour.
RoundHalfEven(num, den) ==
  LET q == num \div den
      r == 2 * (num % den)
  IN  IF r < den \/ (r = den /\ q % 2 = 0) THEN q ELSE q + 1

\* Mutated form: the division forgets that pages count from zero.
SampleIndicesPastEnd(pages, most) ==
  LET k == Min({most, pages})
  IN  CASE k = 0 -> {}
        [] k = 1 -> {0}
        [] OTHER -> {RoundHalfEven(i * pages, k - 1) : i \in 0..(k - 1)}

\* Pages count from 0.
SampleIndices(pages, most) ==
  LET k == Min({most, pages})
  IN  CASE k = 0 -> {}
        [] k = 1 -> {0}
        [] OTHER -> {RoundHalfEven(i * (pages - 1), k - 1) : i \in 0..(k - 1)}

\* Mutated form: by the first page alone.
InspectFirst(pages) ==
  IF pages = <<>> \/ pages[1] = "void" THEN "unknown"
  ELSE IF pages[1] = "text" THEN "text_native" ELSE "scanned"

\* At least 40 percent of the sampled pages carry text.
InspectPdf(pages) ==
  LET sample == SampleIndices(Len(pages), SamplePages)
      Of(kinds) == {i \in sample : pages[i + 1] \in kinds}
  IN  IF Of({"text", "scan"}) = {} THEN "unknown"
      ELSE IF 10 * Cardinality(Of({"text"})) >= 4 * Cardinality(sample)
      THEN "text_native" ELSE "scanned"

Classify(ext, pages) ==
  CASE ext = "pdf" -> IF InspectPdf(pages) = "scanned"
                      THEN "pdf_scanned" ELSE "pdf_native"
    [] ext \in DOMAIN DefaultByFormat -> ext
    [] OTHER -> "none"

\* The converter of a document, or "none": FormatNotSupportedError.  An empty
\* override is no override, and a name the registry lacks is an error.
Resolve(ext, pages, override) ==
  LET target == Classify(ext, pages)
      chosen == IF override # "" THEN override ELSE DefaultByFormat[target]
  IN  IF target # "none" /\ chosen \in Tools
        /\ ext \in SupportedExtensions[chosen]
      THEN chosen ELSE "none"

\* _resolve_export_converter: by the target of the job, not by the document.
ExportTool == [pdf |-> "export-pdf", docx |-> "export-docx",
               epub |-> "export-epub"]

=============================================================================
