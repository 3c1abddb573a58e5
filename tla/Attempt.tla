------------------------------ MODULE Attempt -------------------------------
(***************************************************************************)
(* One attempt at one document, from its validation to its verdict: the    *)
(* body of convert_file_task between its two transactions (tasks/          *)
(* conversion.py), the converters it calls (converters/), and the command  *)
(* line that calls the same converters without a queue (cli.py).           *)
(*                                                                         *)
(* It is a race of limits.  A task has Celery's soft limit, an exception   *)
(* raised wherever the task stands, and the hard one, which kills the      *)
(* process; the command line has neither.  pandoc, markitdown and ocrmypdf *)
(* have a limit of their own.  The call into pymupdf has none, and while   *)
(* it runs the soft limit has to wait.                                     *)
(*                                                                         *)
(* The database is Conversion's, the media folder Media's.                 *)
(***************************************************************************)
EXTENDS Validation, Routing, Cleaner, Quality

CONSTANTS Inputs,    \* what the attempts are given, see InputType
          Texts(_),  \* what a tool may extract from an input
          MaxSize,   \* max_file_size
          Soft,      \* Celery's limits,
          Hard,
          ToolLimit, \* that of pandoc and markitdown
          OcrLimit   \* and that of ocrmypdf

InputType == [cli : BOOLEAN, doc : Document,
              pages : Seq({"text", "scan", "void"}), target : OutputFormat,
              override : Tools \cup {"", "unknown"}, installed : SUBSET Tools]

ASSUME AttemptAssumption ==
  /\ {MaxSize, Soft, Hard, ToolLimit, OcrLimit} \subseteq Nat \ {0}
  /\ Soft < Hard
  /\ Inputs \subseteq InputType
  /\ \A in \in Inputs : in.cli => in.target = "markdown"
  /\ \A in \in Inputs : Texts(in) \subseteq Text

VARIABLES input,
          pc,       \* where the attempt stands
          tool,     \* the converter it was routed to
          now,      \* minutes since its start
          began,    \* when ocrmypdf or the tool was started
          process,  \* the tool: "none", "running", or a "stray" nobody awaits
          disk,     \* what it has in the output directory
          text,     \* what the tool extracted, then what is written
          quality,
          error,    \* the class of the exception on its way
          struck,   \* the stage a limit or an unnamed exception cut short
          verdict

vars == <<input, pc, tool, now, began, process, disk, text, quality, error,
          struck, verdict>>

Stage == {"validate", "route", "check", "ocr", "tool", "write", "assess",
          "record", "fail", "ended"}
Error == {"none", "FileValidation", "NotSupported", "Unavailable",
          "Conversion", "Unhandled", "SoftTimeLimit", "Killed"}

Unrated == [score |-> -1, level |-> "none"]

Init ==
  /\ input \in Inputs
  /\ pc = "validate" /\ tool = "none"
  /\ now = 0 /\ began = 0
  /\ process = "none" /\ disk = {}
  /\ text = <<>> /\ quality = Unrated
  /\ error = "none" /\ struck = "none" /\ verdict = "open"

Goto(stage) == pc' = stage /\ UNCHANGED <<error, verdict>>
Raise(class) == pc' = "fail" /\ error' = class /\ UNCHANGED verdict
\* Nothing the task's except clauses name: the attempt ends without a verdict
\* and the row stays processing (a retry, if there is one, is Conversion's).
Lose(class) ==
  pc' = "ended" /\ verdict' = "lost" /\ error' = class

Exporting == input.target # "markdown"
Subprocess == tool \notin {"pymupdf", "markitdown"}
InConvert == pc \in {"check", "ocr", "tool", "write"}
Limit == IF pc = "ocr" THEN OcrLimit ELSE ToolLimit
TimedOut == now - began >= Limit

(***************************************************************************)
(* Validate and route                                                      *)
(***************************************************************************)

ValidateInput ==
  /\ pc = "validate"
  /\ IF Validate(input.doc, input.target, MaxSize) THEN Goto("route")
     ELSE Raise("FileValidation")
  /\ UNCHANGED <<input, tool, now, began, process, disk, text, quality,
                 struck>>

Chosen ==
  IF Exporting THEN ExportTool[input.target]
  ELSE Resolve(input.doc.ext, input.pages, input.override)

Route ==
  /\ pc = "route"
  /\ tool' = Chosen
  /\ IF Chosen # "none" THEN Goto("check") ELSE Raise("NotSupported")
  /\ UNCHANGED <<input, now, began, process, disk, text, quality, struck>>

(***************************************************************************)
(* converter.convert                                                       *)
(***************************************************************************)

\* What convert checks before it starts its tool.  The input may be gone by
\* now; pymupdf and markitdown look for it before they look for themselves.
Installed == tool \in input.installed
InputGone ==
  /\ pc = "check"
  /\ Installed \/ ~Subprocess
  /\ Raise("Conversion")
  /\ UNCHANGED <<input, tool, now, began, process, disk, text, quality,
                 struck>>

\* Mutated form: nobody looks whether the tool is there.
StartUnchecked ==
  /\ pc = "check"
  /\ Goto(IF tool = "ocr" THEN "ocr" ELSE "tool")
  /\ process' = "running" /\ began' = now
  /\ UNCHANGED <<input, tool, now, disk, text, quality, struck>>

Start ==
  /\ pc = "check"
  /\ IF input.doc.ext \notin SupportedExtensions[tool]
     THEN /\ IF input.cli THEN Lose("Unhandled") ELSE Raise("NotSupported")
          /\ UNCHANGED <<process, began>>
     ELSE IF ~Installed
     THEN Raise("Unavailable") /\ UNCHANGED <<process, began>>
     ELSE /\ Goto(IF tool = "ocr" THEN "ocr" ELSE "tool")
          /\ process' = "running" /\ began' = now
  /\ UNCHANGED <<input, tool, now, disk, text, quality, struck>>

\* A subprocess writes its file as it goes, and so does write_text.
Writing ==
  IF pc = "write" \/ (process # "none" /\ Subprocess /\ tool # "ocr")
  THEN {"output"}
  ELSE IF process # "none" /\ tool = "ocr" /\ pc # "tool" THEN {"searchable"}
  ELSE {}
FileAppears ==
  /\ Writing # {}
  /\ disk' = disk \cup Writing
  /\ UNCHANGED <<input, pc, tool, now, began, process, text, quality, error,
                 struck, verdict>>

\* pymupdf reads the searchable copy; without one ocrmypdf has failed.
OcrReturns ==
  /\ pc = "ocr"
  /\ \/ "searchable" \in disk /\ Goto("tool") /\ UNCHANGED <<process, disk>>
     \/ /\ Raise("Conversion")
        /\ process' = "none" /\ disk' = disk \ {"searchable"}
  /\ UNCHANGED <<input, tool, now, began, text, quality, struck>>

\* The searchable copy goes whatever comes of the extraction; an export that
\* fails leaves no output behind, pandoc's into Markdown leaves what there is.
Discard == {"searchable"} \cup (IF Exporting THEN {"output"} ELSE {})

\* A tool that succeeds has something to show: the exported file, or text
\* (pandoc's may be blank: its file only has to be longer than zero).
ToolReturns ==
  /\ pc = "tool"
  /\ process' = "none"
  /\ IF Exporting
     THEN "output" \in disk /\ Goto("record") /\ UNCHANGED text
     ELSE /\ tool = "pandoc" => "output" \in disk
          /\ \E t \in Texts(input) :
               (t # <<>> \/ tool = "pandoc") /\ text' = t
          /\ Goto("write")
  /\ UNCHANGED <<input, tool, now, began, disk, quality, struck>>

\* Mutated form: the searchable copy is removed after the extraction only.
ToolFailsKeepingCopy ==
  /\ pc = "tool"
  /\ process' = "none" /\ disk' = disk \ (Discard \ {"searchable"})
  /\ Raise("Conversion")
  /\ UNCHANGED <<input, tool, now, began, text, quality, struck>>

\* A non-zero exit code, nothing extracted, an exception the converter names.
ToolFails ==
  /\ pc = "tool"
  /\ process' = "none" /\ disk' = disk \ Discard
  /\ Raise("Conversion")
  /\ UNCHANGED <<input, tool, now, began, text, quality, struck>>

\* Of what an exception unwinds, only the finally clause around the OCR
\* converter's extraction tidies up: not around ocrmypdf itself.
Unwound == IF pc \in {"tool", "write"} THEN disk \ {"searchable"} ELSE disk

\* An exception that neither the converter nor the task names, wherever it
\* comes from: the disk, a library, the decoding of what a tool printed.
RaiseUnnamed ==
  /\ pc \in {"validate", "route", "assess"} \/ InConvert
  /\ struck' = pc
  /\ process' = "none" /\ disk' = Unwound
  /\ Lose("Unhandled")
  /\ UNCHANGED <<input, tool, now, began, text, quality>>

\* Mutated form: the searchable copy is removed after a failure only.
WriteCleanedKeepingCopy ==
  /\ pc = "write"
  /\ text' = Clean(text)
  /\ disk' = disk \cup {"output"}
  /\ Goto(IF input.cli THEN "record" ELSE "assess")
  /\ UNCHANGED <<input, tool, now, began, process, quality, struck>>

\* write_cleaned_markdown.
WriteCleaned ==
  /\ pc = "write"
  /\ text' = Clean(text)
  /\ disk' = (disk \ {"searchable"}) \cup {"output"}
  /\ Goto(IF input.cli THEN "record" ELSE "assess")
  /\ UNCHANGED <<input, tool, now, began, process, quality, struck>>

\* Mutated form: pandoc and markitdown are waited for.
TimeOutOcr ==
  /\ pc = "ocr" /\ TimedOut
  /\ process' = "none" /\ disk' = disk \ Discard
  /\ Raise("Conversion")
  /\ UNCHANGED <<input, tool, now, began, text, quality, struck>>

\* subprocess.run kills its child, run_with_timeout leaves its thread behind.
TimeOut ==
  /\ pc \in {"ocr", "tool"} /\ TimedOut
  /\ pc = "tool" => tool \notin {"pymupdf", "ocr"}
  /\ process' = IF Subprocess THEN "none" ELSE "stray"
  /\ disk' = disk \ Discard
  /\ Raise("Conversion")
  /\ UNCHANGED <<input, tool, now, began, text, quality, struck>>

(***************************************************************************)
(* Verdict                                                                 *)
(***************************************************************************)

\* _assess makes do with no size or no text if a file cannot be read.
Assess ==
  /\ pc = "assess"
  /\ \E bytes \in {0, input.doc.size}, t \in {<<>>, text} :
       quality' = AssessQuality(bytes, t)
  /\ Goto("record")
  /\ UNCHANGED <<input, tool, now, began, process, disk, text, struck>>

Record ==
  /\ pc = "record"
  /\ pc' = "ended" /\ verdict' = "done"
  /\ UNCHANGED <<input, tool, now, began, process, disk, text, quality, error,
                 struck>>

RecordFailure ==
  /\ pc = "fail"
  /\ pc' = "ended" /\ verdict' = "failed"
  /\ UNCHANGED <<input, tool, now, began, process, disk, text, quality, error,
                 struck>>

(***************************************************************************)
(* Celery's limits                                                         *)
(***************************************************************************)

SoftDue == ~input.cli /\ pc # "ended" /\ struck = "none" /\ now >= Soft
HardDue == ~input.cli /\ pc # "ended" /\ now >= Hard
\* The interpreter is in the library's C code.
Deaf == pc = "tool" /\ tool \in {"pymupdf", "ocr"}

\* Mutated form: the limit is not caught around convert.
SoftLimitUncaught ==
  /\ SoftDue
  /\ struck' = pc
  /\ process' = "none"
  /\ Lose("SoftTimeLimit")
  /\ UNCHANGED <<input, tool, now, began, disk, text, quality>>

\* The exception unwinds what runs: a child is killed, the pool's thread is
\* not.
SoftLimit ==
  /\ SoftDue
  /\ struck' = pc
  /\ process' = IF process = "running" /\ ~Subprocess /\ ~Deaf
                THEN "stray" ELSE "none"
  /\ disk' = Unwound
  /\ IF InConvert THEN Raise("Conversion") ELSE Lose("SoftTimeLimit")
  /\ UNCHANGED <<input, tool, now, began, text, quality>>

\* SIGKILL: a child of the process lives on.
HardLimit ==
  /\ HardDue
  /\ struck' = pc
  /\ process' = IF process # "none" /\ Subprocess /\ ~Deaf
                THEN "stray" ELSE "none"
  /\ Lose("Killed")
  /\ UNCHANGED <<input, tool, now, began, disk, text, quality>>

StrayEnds ==
  /\ process = "stray" /\ process' = "none"
  /\ UNCHANGED <<input, pc, tool, now, began, disk, text, quality, error,
                 struck, verdict>>

\* Time passes up to the next limit.  Bound: the command line, which has none
\* of Celery's, is at its tool by the time Hard.
Horizon == Hard + OcrLimit
Tick ==
  /\ pc # "ended" /\ now < Horizon
  /\ input.cli /\ pc \notin {"ocr", "tool"} => now < Hard
  /\ ~HardDue /\ (SoftDue => Deaf)
  /\ pc \in {"ocr", "tool"} /\ TimedOut => pc = "tool" /\ Deaf
  /\ now' = now + 1
  /\ UNCHANGED <<input, pc, tool, began, process, disk, text, quality, error,
                 struck, verdict>>

Step ==
  \/ ValidateInput \/ Route
  \/ InputGone \/ Start \/ OcrReturns
  \/ ToolReturns \/ ToolFails \/ TimeOut \/ WriteCleaned
  \/ Assess \/ Record \/ RecordFailure
  \/ RaiseUnnamed \/ SoftLimit \/ HardLimit
Next == Step \/ FileAppears \/ StrayEnds \/ Tick

Spec == Init /\ [][Next]_vars

\* Everything but the tools gets on with it: they may return late or never.
FairSpec ==
  /\ Spec /\ WF_vars(Tick)
  /\ WF_vars(ValidateInput) /\ WF_vars(Route) /\ WF_vars(Start)
  /\ WF_vars(TimeOut) /\ WF_vars(SoftLimit) /\ WF_vars(HardLimit)
  /\ WF_vars(WriteCleaned) /\ WF_vars(Assess)
  /\ WF_vars(Record) /\ WF_vars(RecordFailure)

(***************************************************************************)
(* Properties                                                              *)
(***************************************************************************)

\* An attempt that succeeds has its whole output, cleaned, and nothing else: no
\* searchable copy, no tool still at it.
DoneIsWhole ==
  verdict = "done" =>
    /\ disk = {"output"} /\ process = "none" /\ error = "none"
    /\ struck = "none" /\ tool = Chosen

\* What an attempt that does not succeed may leave behind, and after what.
\* The searchable copy only if something cut ocrmypdf itself short (a limit, an
\* exception nobody names) or the process was killed; an output only with
\* pandoc, or if the attempt was cut short once its tool had begun; and the one
\* thing that goes on by itself is a thread of markitdown.
Leftovers ==
  pc = "ended" /\ verdict # "done" =>
    /\ "searchable" \in disk =>
         tool = "ocr" /\ (struck = "ocr" \/ error = "Killed")
    /\ "output" \in disk =>
         \/ tool = "pandoc" \/ error = "Killed"
         \/ struck \in {"tool", "write", "assess", "record"}
    /\ process # "none" => process = "stray" /\ tool = "markitdown"

\* What Celery's limits cost.  The soft one costs a verdict only outside
\* converter.convert: in the validation, the routing, the rating, and while
\* either outcome is being recorded.  The hard one costs it only if recording
\* a failure takes that long, or after a call into pymupdf that the soft one
\* had to wait for.
LimitsAreRecorded ==
  verdict = "lost" =>
    /\ error = "SoftTimeLimit" =>
         struck \in {"validate", "route", "assess", "record", "fail"}
    /\ error = "Killed" =>
         \/ struck = "fail"
         \/ /\ tool \in {"pymupdf", "ocr"}
            /\ struck \in {"tool", "write", "assess", "record"}

\* The whitelist of the validation, the routing table and what the converters
\* declare agree: a document that passes the first is refused by the others
\* only if a converter was asked for by name.
RefusedOnlyByName ==
  /\ error = "NotSupported" => input.override # "" /\ pc \in {"fail", "ended"}
  /\ pc = "check" => input.doc.ext \in SupportedExtensions[tool]

\* The exit codes of the command line say which of its calls went wrong, and 0
\* is not among them.
ExitCode ==
  CASE verdict = "done" -> 0
    [] error = "Unavailable" -> 2
    [] error = "NotSupported" -> 3
    [] error = "Conversion" -> 4
    [] error = "FileValidation" -> 5
    [] OTHER -> 1
ExitCodesTell ==
  input.cli /\ pc = "ended" =>
    /\ ExitCode = 0 => "output" \in disk
    /\ ExitCode = 2 => tool \notin input.installed
    /\ ExitCode = 3 => tool = "none"
    /\ ExitCode = 4 => tool \in input.installed \cup {"pymupdf", "markitdown"}
    /\ ExitCode = 5 => tool = "none" /\ disk = {}

\* The pages that decide between extraction and OCR are spread over the whole
\* document, the first and the last among them, as far apart as each other.
SampledFairly ==
  LET n == Len(input.pages)
      sample == SampleIndices(n, SamplePages)
      Next1(i) == Min({j \in sample : j > i})
      gaps == {Next1(i) - i : i \in sample \ {n - 1}}
  IN  pc = "route" /\ n > 1 =>
        /\ sample \subseteq 0..(n - 1)
        /\ Cardinality(sample) = Min({SamplePages, n})
        /\ {0, n - 1} \subseteq sample
        /\ \A g, h \in gaps : g <= h + 1

\* One page that is unlike all others never decides.
OutlierNeverDecides ==
  LET n == Len(input.pages)
      Most(kind) == Cardinality({i \in 1..n : input.pages[i] # kind}) <= 1
  IN  pc = "check" /\ input.doc.ext = "pdf" /\ input.override = "" /\ n > 2 =>
        /\ Most("text") => tool = "pymupdf"
        /\ Most("scan") => tool = "ocr"

\* The rating of a conversion never rises when a word of it is lost to a bad
\* encoding, and next to nothing from a large source is rated low whatever it
\* says.
RatingFollowsDamage ==
  pc = "assess" =>
    /\ \A i \in 1..Len(text), bytes \in {0, input.doc.size} :
         Score(bytes, [text EXCEPT ![i] = "bad"]) <= Score(bytes, text)
    /\ input.doc.size >= SmallInput /\ Len(text) < SmallOutput =>
         AssessQuality(input.doc.size, text).level = "low"

\* Cleaning text whose tags are nested as they should be leaves, beside the marks
\* of Markdown, the words that the nesting says survive, each once and in their
\* order, and no tag ...
WordsSurvive ==
  pc = "write" /\ WellFormed(text) =>
    Without(Clean(text), Mark) = SurvivingWords(text)

\* ... and every line of a call-out box or of a quoted passage that survives
\* begins with its quotation mark, at its place among the words, and no other
\* text does.  (Where a quotation ends is a line break, and so left out.)
QuotesStayQuoted ==
  pc = "write" /\ WellFormed(text) =>
    Without(Clean(text), Mark \ {">"}) = SurvivingLines(StripSvg[text])

\* Every attempt ends, whatever its tool does; only the command line waits for
\* pymupdf for ever.
EveryAttemptEnds == <>(pc = "ended" \/ (input.cli /\ Deaf))

\* "the worker fails fast with a clear error instead of hanging until Celery's
\* blunt soft time limit fires" (base.py:36): markitdown's own limit strikes
\* before Celery's (which comes out as the converter's error, if it does).
OwnLimitFirst ==
  ~(tool = "markitdown" /\ struck = "tool" /\ error = "Conversion")

=============================================================================
