---------------------------- MODULE AttemptProofs ---------------------------
(***************************************************************************)
(* What one attempt leaves behind and what the limits may cost it, for any *)
(* documents, texts and limits (the soft one before the hard one).         *)
(*                                                                         *)
(* The heart of it is InTime: the soft limit ends whatever listens to it   *)
(* before the hard one is due, so that no child outlives its task, and     *)
(* only a call into pymupdf, which does not listen, can be killed.         *)
(***************************************************************************)
EXTENDS Attempt, CleanerProofs, FiniteSetTheorems, TLAPS

Fine == error = "none" /\ struck = "none" /\ verdict = "open"

\* The parts of the invariant, by the stage of the attempt.
Typed ==
  /\ input \in Inputs /\ pc \in Stage
  /\ now \in Nat /\ began \in Nat
  /\ disk \subseteq {"searchable", "output"}
  /\ process \in {"none", "running", "stray"}

Validated ==
  pc \notin {"validate", "fail", "ended"} =>
    Validate(input.doc, input.target, MaxSize)

Routed ==
  /\ pc \in {"validate", "route"} => tool = "none"
  /\ pc \notin {"validate", "route"} => tool = Chosen \/ tool = "none"
  /\ pc \notin {"validate", "route", "fail", "ended"} =>
       tool = Chosen /\ tool # "none"

Early ==
  /\ pc \in {"validate", "route", "check"} =>
       disk = {} /\ process = "none" /\ Fine
  /\ pc = "ocr" => tool = "ocr" /\ process = "running"
                     /\ disk \subseteq {"searchable"} /\ Fine
  /\ pc = "tool" =>
       /\ process = "running" /\ Fine
       /\ "searchable" \in disk => tool = "ocr"
       /\ "output" \in disk => tool = "pandoc" \/ Exporting

Late ==
  /\ pc = "write" => process = "none" /\ Fine /\ ~Exporting
                       /\ ("searchable" \in disk => tool = "ocr")
  /\ pc \in {"assess", "record"} =>
       process = "none" /\ Fine /\ disk = {"output"}
  /\ pc = "fail" =>
       /\ error \notin {"none", "Unhandled", "SoftTimeLimit", "Killed"}
       /\ verdict = "open"
       /\ "output" \in disk => tool = "pandoc" \/ struck \in {"tool", "write"}
  /\ pc = "ended" => verdict # "open"
  /\ verdict # "open" => pc = "ended"
  /\ pc \in {"fail", "ended"} /\ "searchable" \in disk =>
       tool = "ocr" /\ (struck = "ocr" \/ error = "Killed")
  /\ pc \in {"fail", "ended"} /\ process # "none" =>
       process = "stray" /\ tool = "markitdown"

InTime ==
  /\ ~input.cli /\ pc \in {"validate", "route", "check", "ocr"} => now <= Soft
  /\ ~input.cli /\ pc = "tool" /\ tool \notin {"pymupdf", "ocr"} => now <= Soft
  /\ ~input.cli /\ pc \in {"write", "assess", "record"} /\ now > Soft =>
       tool \in {"pymupdf", "ocr"}

AttemptInv ==
  /\ Typed /\ Validated /\ Routed /\ Early /\ Late /\ InTime
  /\ DoneIsWhole /\ Leftovers /\ LimitsAreRecorded /\ RefusedOnlyByName

(***************************************************************************)
(* The tables                                                              *)
(***************************************************************************)

LEMMA ValidExtension ==
  ASSUME Validate(input.doc, input.target, MaxSize)
  PROVE  input.doc.ext \in IF Exporting THEN ExportExtensions
                                        ELSE AllowedExtensions
BY DEF Validate, DetectFormat, Exporting

\* Whoever is chosen for a validated document supports it, and is one of the
\* converters of its direction.
LEMMA ChosenFits ==
  ASSUME input \in Inputs, Validate(input.doc, input.target, MaxSize),
         Chosen # "none"
  PROVE  /\ input.doc.ext \in SupportedExtensions[Chosen]
         /\ Exporting =>
              Chosen \in {"export-pdf", "export-docx", "export-epub"}
         /\ ~Exporting => Chosen \in {"pandoc", "pymupdf", "markitdown", "ocr"}
<1>1. input \in InputType
  BY AttemptAssumption
<1>2. CASE Exporting
  <2>1. input.target \in {"pdf", "docx", "epub"}
    BY <1>1, <1>2 DEF InputType, OutputFormat, Exporting
  <2>2. Chosen \in {"export-pdf", "export-docx", "export-epub"}
    BY <1>2, <2>1 DEF Chosen, ExportTool
  <2> QED
    BY <1>2, <2>2, ValidExtension
       DEF SupportedExtensions, ExportExtensions, Tools
<1>3. CASE ~Exporting
  <2>1. Chosen \in Tools /\ input.doc.ext \in SupportedExtensions[Chosen]
    BY <1>3 DEF Chosen, Resolve
  <2>2. input.doc.ext \in AllowedExtensions
    BY <1>3, ValidExtension
  <2> QED
    BY <1>3, <2>1, <2>2 DEF SupportedExtensions, AllowedExtensions, Tools
<1> QED
  BY <1>2, <1>3

\* A validated document that nobody asked a converter for has one.
LEMMA NeverRefused ==
  ASSUME input \in Inputs, Validate(input.doc, input.target, MaxSize),
         Chosen = "none"
  PROVE  input.override # ""
<1>1. input \in InputType
  BY AttemptAssumption
<1>2. ~Exporting
  <2>1. ASSUME Exporting PROVE FALSE
    <3>1. input.target \in {"pdf", "docx", "epub"}
      BY <1>1, <2>1 DEF InputType, OutputFormat, Exporting
    <3> QED
      BY <2>1, <3>1 DEF Chosen, ExportTool
  <2> QED
    BY <2>1
<1>3. input.doc.ext \in AllowedExtensions
  BY <1>2, ValidExtension
<1> DEFINE target == Classify(input.doc.ext, input.pages)
<1>4. /\ target \in DOMAIN DefaultByFormat /\ target # "none"
      /\ DefaultByFormat[target] \in Tools
      /\ input.doc.ext \in SupportedExtensions[DefaultByFormat[target]]
  <2>1. CASE input.doc.ext = "pdf"
    <3>1. target \in {"pdf_scanned", "pdf_native"}
      BY <2>1 DEF Classify, DefaultByFormat
    <3> QED
      BY <2>1, <3>1 DEF DefaultByFormat, SupportedExtensions, Tools
  <2>2. CASE input.doc.ext \in {"epub", "docx", "html", "txt"}
    <3>1. input.doc.ext # "pdf" /\ input.doc.ext \in DOMAIN DefaultByFormat
      BY <2>2 DEF DefaultByFormat
    <3>2. target = input.doc.ext
      BY <3>1 DEF Classify
    <3> QED
      BY <2>2, <3>2 DEF DefaultByFormat, SupportedExtensions, Tools
  <2> QED
    BY <1>3, <2>1, <2>2 DEF AllowedExtensions
<1>5. ASSUME input.override = "" PROVE FALSE
  <2>1. Resolve(input.doc.ext, input.pages, input.override)
          = DefaultByFormat[target]
    BY <1>4, <1>5 DEF Resolve
  <2>2. DefaultByFormat[target] # "none"
    BY <1>4 DEF Tools
  <2> QED
    BY <1>2, <2>1, <2>2 DEF Chosen
<1> QED
  BY <1>5

(***************************************************************************)
(* The invariant                                                           *)
(***************************************************************************)

LEMMA Initially == Init => AttemptInv
<1> SUFFICES ASSUME Init PROVE AttemptInv
  OBVIOUS
<1>1. Hard > 0
  BY AttemptAssumption
<1> QED
  BY AttemptAssumption
     DEF Init, AttemptInv, Typed, Validated, Routed, Early, Late, InTime, Fine,
         DoneIsWhole, Leftovers, LimitsAreRecorded, RefusedOnlyByName, Stage

LEMMA IdleKeeps ==
  ASSUME AttemptInv, UNCHANGED vars
  PROVE  AttemptInv'
<1>1. Typed' /\ Validated'
  BY DEF AttemptInv, vars, Typed, Validated
<1>2. Routed' /\ RefusedOnlyByName' /\ DoneIsWhole'
  BY DEF AttemptInv, vars, Routed, RefusedOnlyByName, DoneIsWhole, Chosen,
       Exporting
<1>3. Early' /\ Late'
  BY DEF AttemptInv, vars, Early, Late, Fine, Exporting
<1>4. InTime' /\ Leftovers' /\ LimitsAreRecorded'
  BY DEF AttemptInv, vars, InTime, Leftovers, LimitsAreRecorded
<1> QED
  BY <1>1, <1>2, <1>3, <1>4 DEF AttemptInv

\* Time stands still at a limit that somebody listens to.
LEMMA TickKeeps ==
  ASSUME AttemptInv, Tick
  PROVE  AttemptInv'
<1>0. Soft \in Nat /\ Hard \in Nat /\ Soft < Hard
  BY AttemptAssumption
<1>1. Typed' /\ Validated'
  BY DEF AttemptInv, Tick, Typed, Validated
<1>2. Routed' /\ RefusedOnlyByName' /\ DoneIsWhole'
  BY DEF AttemptInv, Tick, Routed, RefusedOnlyByName, DoneIsWhole, Chosen,
       Exporting
<1>3. Early'
  BY DEF AttemptInv, Tick, Early, Fine, Exporting
<1>4. Late' /\ Leftovers' /\ LimitsAreRecorded'
  BY <1>0 DEF AttemptInv, Tick, Typed, Late, Fine, Exporting, Leftovers,
       LimitsAreRecorded
<1>5. InTime'
  BY <1>0 DEF AttemptInv, Tick, Typed, InTime, Early, Late, Fine, SoftDue, Deaf
<1> QED
  BY <1>1, <1>2, <1>3, <1>4, <1>5 DEF AttemptInv

\* Whoever the hard limit finds at a tool is in pymupdf.
LEMMA HardLimitKeeps ==
  ASSUME AttemptInv, HardLimit
  PROVE  AttemptInv'
<1>0. Soft \in Nat /\ Hard \in Nat /\ Soft < Hard
  BY AttemptAssumption
<1>1. Typed' /\ Validated'
  BY DEF AttemptInv, HardLimit, Typed, Validated, Stage, Lose
<1>2. Routed' /\ RefusedOnlyByName' /\ DoneIsWhole'
  BY DEF AttemptInv, HardLimit, Lose, Routed, RefusedOnlyByName, DoneIsWhole,
       Chosen, Exporting
<1>3. Early' /\ InTime'
  BY DEF AttemptInv, HardLimit, Lose, Early, Fine, Exporting, InTime
<1>4a. process' = "none"
  BY <1>0 DEF AttemptInv, HardLimit, HardDue, InTime, Typed, Early, Late,
       Subprocess, Deaf, Stage
<1>4. Late'
  BY <1>0, <1>4a DEF AttemptInv, HardLimit, HardDue, Typed, Early, Late, Fine,
       Stage, Lose
<1>7. Leftovers'
  BY <1>0, <1>4 DEF HardLimit, Late, Lose, Leftovers
<1>5. LimitsAreRecorded'
  BY <1>0 DEF AttemptInv, HardLimit, HardDue, Typed, InTime, Early, Late,
       LimitsAreRecorded, Lose, Fine, Stage
<1> QED
  BY <1>1, <1>2, <1>3, <1>4, <1>5, <1>7 DEF AttemptInv

\* Whatever an exception cuts short, what it leaves is accounted for.
LEMMA RaiseUnnamedKeeps ==
  ASSUME AttemptInv, RaiseUnnamed
  PROVE  AttemptInv'
<1>1. Typed' /\ Validated'
  BY DEF AttemptInv, RaiseUnnamed, Unwound, Typed, Validated, Stage, Lose
<1>2. Routed' /\ RefusedOnlyByName' /\ DoneIsWhole'
  BY DEF AttemptInv, RaiseUnnamed, Lose, Routed, RefusedOnlyByName,
       DoneIsWhole, Chosen, Exporting
<1>3. Early' /\ InTime' /\ LimitsAreRecorded'
  BY DEF AttemptInv, RaiseUnnamed, Lose, Early, Fine, Exporting, InTime,
       LimitsAreRecorded
<1>4. Late' /\ Leftovers'
  BY DEF AttemptInv, RaiseUnnamed, Unwound, InConvert, Lose, Early, Late,
       Fine, Leftovers
<1> QED
  BY <1>1, <1>2, <1>3, <1>4 DEF AttemptInv

LEMMA SoftLimitKeeps ==
  ASSUME AttemptInv, SoftLimit
  PROVE  AttemptInv'
<1> USE DEF Raise, Lose
<1>1. Typed' /\ Validated'
  BY DEF AttemptInv, SoftLimit, Unwound, Typed, Validated, Stage
<1>2. Routed' /\ RefusedOnlyByName' /\ DoneIsWhole'
  BY DEF AttemptInv, SoftLimit, SoftDue, Routed, Late, RefusedOnlyByName,
       DoneIsWhole, Chosen, Exporting
<1>3. Early' /\ InTime'
  BY DEF AttemptInv, SoftLimit, Early, Fine, Exporting, InTime
<1>4. LimitsAreRecorded'
  BY DEF AttemptInv, SoftLimit, SoftDue, InConvert, Typed, Stage, Late,
       LimitsAreRecorded
<1>5. process' # "none" => process' = "stray" /\ tool' = "markitdown"
  BY ChosenFits
     DEF AttemptInv, SoftLimit, SoftDue, Deaf, Subprocess, Typed, Stage,
         Early, Late
<1>6. "searchable" \in disk' => tool' = "ocr" /\ struck' = "ocr"
  BY DEF AttemptInv, SoftLimit, SoftDue, Unwound, Typed, Stage, Early, Late
<1>7. "output" \in disk' =>
        \/ tool' = "pandoc"
        \/ struck' \in {"tool", "write"}
        \/ error' = "SoftTimeLimit" /\ struck' \in {"assess", "record"}
  BY DEF AttemptInv, SoftLimit, SoftDue, Unwound, InConvert, Typed, Stage,
         Early, Late
<1>8. Late'
  BY <1>5, <1>6, <1>7 DEF AttemptInv, SoftLimit, InConvert, Typed, Stage, Late
<1>9. Leftovers'
  BY <1>5, <1>6, <1>7 DEF Leftovers
<1> QED
  BY <1>1, <1>2, <1>3, <1>4, <1>8, <1>9 DEF AttemptInv

LEMMA ToolReturnsKeeps ==
  ASSUME AttemptInv, ToolReturns
  PROVE  AttemptInv'
<1>0. Soft \in Nat /\ Hard \in Nat
  BY AttemptAssumption
<1>1. Typed' /\ Validated'
  BY DEF AttemptInv, ToolReturns, Goto, Typed, Validated, Stage
<1>2. Routed' /\ RefusedOnlyByName' /\ DoneIsWhole'
  BY DEF AttemptInv, ToolReturns, Goto, Routed, Late, RefusedOnlyByName,
         DoneIsWhole, Chosen, Exporting
<1>3. Exporting => disk \subseteq {"output"}
  BY ChosenFits DEF AttemptInv, ToolReturns, Typed, Validated, Routed, Early
<1>4. Early' /\ Late' /\ Leftovers' /\ LimitsAreRecorded'
  BY <1>0, <1>3
     DEF AttemptInv, ToolReturns, Goto, Typed, Early, Late, Fine, Exporting,
         Leftovers, LimitsAreRecorded
<1>5. InTime'
  BY <1>0 DEF AttemptInv, ToolReturns, Goto, Typed, InTime
<1> QED
  BY <1>1, <1>2, <1>4, <1>5 DEF AttemptInv

LEMMA FileAppearsKeeps ==
  ASSUME AttemptInv, FileAppears
  PROVE  AttemptInv'
<1>1. Typed' /\ Validated'
  BY DEF AttemptInv, FileAppears, Writing, Typed, Validated
<1>2. Routed' /\ RefusedOnlyByName' /\ InTime'
  BY DEF AttemptInv, FileAppears, Routed, RefusedOnlyByName, InTime, Chosen,
         Exporting
<1>3. Early' /\ Late' /\ DoneIsWhole' /\ Leftovers' /\ LimitsAreRecorded'
  <2>1. pc \in {"ocr", "tool", "write"}
    BY DEF AttemptInv, FileAppears, Writing, Typed, Stage, Early, Late,
           Subprocess
  <2>2. pc = "ocr" => Writing \subseteq {"searchable"}
    BY <2>1 DEF AttemptInv, Writing, Early
  <2>3. pc = "tool" => Writing \subseteq {"output"} /\ 
                       ("output" \in Writing => tool = "pandoc" \/ Exporting)
    <3>1. pc = "tool" /\ ~Exporting =>
            tool \in {"pandoc", "pymupdf", "markitdown", "ocr"}
      BY ChosenFits DEF AttemptInv, Typed, Validated, Routed
    <3> QED
      BY <3>1 DEF AttemptInv, Writing, Early, Subprocess
  <2>4. pc = "write" => Writing = {"output"}
    BY DEF Writing
  <2> QED
    BY <2>1, <2>2, <2>3, <2>4
       DEF AttemptInv, FileAppears, Early, Late, Fine, DoneIsWhole, Leftovers,
           LimitsAreRecorded, Exporting
<1> QED
  BY <1>1, <1>2, <1>3 DEF AttemptInv

\* The input stays, and with it what is chosen for it.
LEMMA InputStays ==
  ASSUME [Next]_vars
  PROVE  /\ input' = input /\ Chosen' = Chosen /\ Exporting' = Exporting
         /\ Validate(input.doc, input.target, MaxSize)'
              <=> Validate(input.doc, input.target, MaxSize)
<1>1. input' = input
  BY DEF Next, Step, vars, ValidateInput, Route, InputGone, Start, FileAppears,
         OcrReturns, ToolReturns, ToolFails, RaiseUnnamed, TimeOut, WriteCleaned,
         Assess, Record, RecordFailure, SoftLimit, HardLimit, StrayEnds, Tick
<1> QED
  BY <1>1 DEF Chosen, Exporting

LEMMA Steps ==
  ASSUME AttemptInv, [Next]_vars
  PROVE  AttemptInv'
<1>0. Soft \in Nat /\ Hard \in Nat /\ Soft < Hard
  BY AttemptAssumption
<1> USE <1>0, InputStays, ChosenFits, NeverRefused
    DEF AttemptInv, Typed, Validated, Routed, Early, Late, InTime, Fine,
        DoneIsWhole, Leftovers, LimitsAreRecorded, RefusedOnlyByName, Stage,
        Goto, Raise
<1>1. CASE ValidateInput
  BY <1>1 DEF ValidateInput
<1>2. CASE Route
  BY <1>2 DEF Route
<1>3. CASE InputGone
  BY <1>3 DEF InputGone
<1>4. CASE Start
  BY <1>4 DEF Start, Installed
<1>5. CASE FileAppears
  BY <1>5, FileAppearsKeeps
<1>6. CASE OcrReturns
  BY <1>6 DEF OcrReturns
<1>7. CASE ToolReturns
  BY <1>7, ToolReturnsKeeps
<1>8. CASE ToolFails
  BY <1>8 DEF ToolFails, Discard
<1>9. CASE RaiseUnnamed
  BY <1>9, RaiseUnnamedKeeps
<1>10. CASE TimeOut
  BY <1>10 DEF TimeOut, Discard, Subprocess
<1>11. CASE WriteCleaned
  BY <1>11 DEF WriteCleaned
<1>12. CASE Assess
  BY <1>12 DEF Assess
<1>13. CASE Record
  BY <1>13 DEF Record
<1>14. CASE RecordFailure
  BY <1>14 DEF RecordFailure
<1>15. CASE SoftLimit
  BY <1>15, SoftLimitKeeps
<1>16. CASE HardLimit
  BY <1>16, HardLimitKeeps
<1>17. CASE StrayEnds
  BY <1>17 DEF StrayEnds
<1>18. CASE Tick
  BY <1>18, TickKeeps
<1>19. CASE UNCHANGED vars
  BY <1>19, IdleKeeps
<1> QED
  BY <1>1, <1>2, <1>3, <1>4, <1>5, <1>6, <1>7, <1>8, <1>9, <1>10, <1>11,
     <1>12, <1>13, <1>14, <1>15, <1>16, <1>17, <1>18, <1>19
     DEF Next, Step

THEOREM AttemptInvariant == Spec => []AttemptInv
<1>1. Init => AttemptInv
  BY Initially
<1>2. AttemptInv /\ [Next]_vars => AttemptInv'
  BY Steps
<1> QED
  BY <1>1, <1>2, PTL DEF Spec

(***************************************************************************)
(* Who is to blame                                                         *)
(***************************************************************************)

\* What each class of error says of the converter.
Blame ==
  /\ pc \in {"ocr", "tool", "write", "assess", "record"} => Installed
  /\ error = "Unavailable" => ~Installed
  /\ error \in {"NotSupported", "FileValidation"} => tool = "none" /\ disk = {}
  /\ error = "Conversion" /\ input.cli => Installed \/ ~Subprocess

LEMMA BlameKeeps ==
  ASSUME AttemptInv, Blame, [Next]_vars
  PROVE  Blame'
<1> USE DEF Blame, Installed, Subprocess, Goto, Raise, Lose
<1>1. CASE ValidateInput
  BY <1>1 DEF ValidateInput, AttemptInv, Routed, Early
<1>2. CASE Route
  BY <1>2 DEF Route, AttemptInv, Early, Fine
<1>3. CASE InputGone
  BY <1>3 DEF InputGone
<1>4. CASE Start
  <2>1. input.doc.ext \in SupportedExtensions[tool]
    BY <1>4 DEF Start, AttemptInv, RefusedOnlyByName
  <2>2. error = "none"
    BY <1>4 DEF Start, AttemptInv, Early, Fine
  <2> QED
    BY <1>4, <2>1, <2>2 DEF Start
<1>5. CASE FileAppears
  <2>1. pc \in {"ocr", "tool", "write", "fail", "ended"}
    BY <1>5 DEF FileAppears, Writing, AttemptInv, Typed, Stage, Early, Late
  <2>2. process # "none" \/ pc = "write"
    BY <1>5 DEF FileAppears, Writing
  <2>3. error \notin {"NotSupported", "FileValidation"}
    BY <2>1, <2>2 DEF AttemptInv, Early, Late, Fine
  <2> QED
    BY <1>5, <2>3 DEF FileAppears
<1>6. CASE OcrReturns
  BY <1>6 DEF OcrReturns, AttemptInv, Early, Fine
<1>7. CASE ToolReturns
  BY <1>7 DEF ToolReturns
<1>8. CASE ToolFails \/ RaiseUnnamed
  BY <1>8 DEF ToolFails, RaiseUnnamed
<1>9. CASE TimeOut
  BY <1>9 DEF TimeOut
<1>10. CASE WriteCleaned
  BY <1>10 DEF WriteCleaned, AttemptInv, Late, Fine
<1>11. CASE Assess \/ Record \/ RecordFailure
  BY <1>11 DEF Assess, Record, RecordFailure
<1>12. CASE SoftLimit \/ HardLimit
  BY <1>12 DEF SoftLimit, HardLimit, SoftDue, InConvert
<1>13. CASE StrayEnds \/ Tick
  BY <1>13 DEF StrayEnds, Tick
<1>14. CASE UNCHANGED vars
  BY <1>14 DEF vars
<1> QED
  BY <1>1, <1>2, <1>3, <1>4, <1>5, <1>6, <1>7, <1>8, <1>9, <1>10, <1>11,
     <1>12, <1>13, <1>14
     DEF Next, Step

(***************************************************************************)
(* Theorems                                                                *)
(***************************************************************************)

\* A success has the whole output and nothing else: whatever the tools do, no
\* searchable copy is left and no tool is still at it.
THEOREM SuccessIsWhole == Spec => []DoneIsWhole
<1>1. AttemptInv => DoneIsWhole
  BY DEF AttemptInv
<1> QED
  BY <1>1, AttemptInvariant, PTL

\* An attempt without success leaves no more than it may, and no child process
\* outlives it, whatever the tools do, however the limits are set and wherever
\* a limit or an exception nobody names cuts it short.
THEOREM NothingIsLeft == Spec => []Leftovers
<1>1. AttemptInv => Leftovers
  BY DEF AttemptInv
<1> QED
  BY <1>1, AttemptInvariant, PTL

\* The soft limit costs a verdict only outside converter.convert, the hard one
\* only after a call into pymupdf or while a failure is being recorded.
THEOREM LimitsDoNotLose == Spec => []LimitsAreRecorded
<1>1. AttemptInv => LimitsAreRecorded
  BY DEF AttemptInv
<1> QED
  BY <1>1, AttemptInvariant, PTL

\* The whitelist, the routing table and the converters agree about every
\* document.
THEOREM TablesAgree == Spec => []RefusedOnlyByName
<1>1. AttemptInv => RefusedOnlyByName
  BY DEF AttemptInv
<1> QED
  BY <1>1, AttemptInvariant, PTL

\* The exit codes of the command line tell what went wrong.
THEOREM ExitCodesAreTrue == Spec => []ExitCodesTell
<1>1. Init => Blame
  BY DEF Init, Blame
<1>2. AttemptInv /\ Blame /\ [Next]_vars => Blame'
  BY BlameKeeps
<1>3. AttemptInv /\ Blame => ExitCodesTell
  <2> SUFFICES ASSUME AttemptInv, Blame, input.cli, pc = "ended"
               PROVE  ExitCodesTell
    BY DEF ExitCodesTell
  <2>1. ExitCode = 0 => verdict = "done"
    BY DEF ExitCode
  <2>2. /\ ExitCode = 2 => error = "Unavailable"
        /\ ExitCode = 3 => error = "NotSupported"
        /\ ExitCode = 4 => error = "Conversion"
        /\ ExitCode = 5 => error = "FileValidation"
    BY DEF ExitCode
  <2> QED
    BY <2>1, <2>2
       DEF ExitCodesTell, AttemptInv, DoneIsWhole, Blame, Installed, Subprocess
<1> QED
  BY <1>1, <1>2, <1>3, AttemptInvariant, PTL DEF Spec

(***************************************************************************)
(* The sample of pages                                                     *)
(***************************************************************************)

\* The smallest element of a set of numbers, if it has one.
LEMMA MinIs ==
  ASSUME NEW S \in SUBSET Int, NEW x \in S, \A y \in S : x <= y
  PROVE  Min(S) = x
<1> DEFINE m == CHOOSE z \in S : \A y \in S : z <= y
<1>1. m \in S /\ \A y \in S : m <= y
  OBVIOUS
<1>2. m = x
  <2> HIDE DEF m
  <2> QED
    BY <1>1
<1> QED
  BY <1>2 DEF Min

LEMMA MinOfTwo ==
  ASSUME NEW a \in Int, NEW b \in Int
  PROVE  Min({a, b}) = IF a <= b THEN a ELSE b
<1>1. CASE a <= b
  BY <1>1, MinIs
<1>2. CASE b < a
  BY <1>2, MinIs
<1> QED
  BY <1>1, <1>2

\* Rounding to sevenths is off by three of them, at most, ...
LEMMA RoundSevenths ==
  ASSUME NEW num \in Nat
  PROVE  /\ RoundHalfEven(num, 7) \in Nat
         /\ 7 * RoundHalfEven(num, 7) - num \in -3..3
<1>1. /\ num \div 7 \in Nat /\ num % 7 \in 0..6
      /\ num = 7 * (num \div 7) + (num % 7)
  OBVIOUS
<1> DEFINE q == num \div 7
           r == num % 7
<1>2. RoundHalfEven(num, 7)
        = IF 2 * r < 7 \/ (2 * r = 7 /\ q % 2 = 0) THEN q ELSE q + 1
  BY DEF RoundHalfEven
<1> HIDE DEF q, r
<1>3. q \in Nat /\ r \in 0..6 /\ num = 7 * q + r
  BY <1>1 DEF q, r
<1>4. CASE r <= 3
  BY <1>2, <1>3, <1>4
<1>5. CASE r >= 4
  BY <1>2, <1>3, <1>5
<1> QED
  BY <1>3, <1>4, <1>5

\* ... and a whole number is not rounded.
LEMMA RoundWhole ==
  ASSUME NEW d \in 1..7, NEW i \in Nat
  PROVE  RoundHalfEven(i * d, d) = i
<1>1. /\ (i * 1) \div 1 = i /\ (i * 1) % 1 = 0
      /\ (i * 2) \div 2 = i /\ (i * 2) % 2 = 0
      /\ (i * 3) \div 3 = i /\ (i * 3) % 3 = 0
      /\ (i * 4) \div 4 = i /\ (i * 4) % 4 = 0
      /\ (i * 5) \div 5 = i /\ (i * 5) % 5 = 0
      /\ (i * 6) \div 6 = i /\ (i * 6) % 6 = 0
      /\ (i * 7) \div 7 = i /\ (i * 7) % 7 = 0
  OBVIOUS
<1>2. (i * d) \div d = i /\ (i * d) % d = 0
  BY <1>1
<1> QED
  BY <1>2 DEF RoundHalfEven

\* The sample of a short document is the whole of it.
LEMMA ShortSample ==
  ASSUME NEW n \in 1..8
  PROVE  SampleIndices(n, SamplePages) = 0..(n - 1)
<1>1. Min({8, n}) = n
  BY MinOfTwo
<1>2. CASE n = 1
  BY <1>1, <1>2 DEF SampleIndices, SamplePages
<1>3. CASE n > 1
  <2>1. n - 1 \in 1..7 /\ n # 0 /\ n # 1
    BY <1>3
  <2>2. \A i \in 0..(n - 1) : RoundHalfEven(i * (n - 1), n - 1) = i
    <3> DEFINE d == n - 1
    <3>1. d \in 1..7
      BY <2>1
    <3> HIDE DEF d
    <3>2. \A i \in Nat : RoundHalfEven(i * d, d) = i
      BY <3>1, RoundWhole
    <3> QED
      BY <3>2 DEF d
  <2>3. SampleIndices(n, SamplePages)
          = {RoundHalfEven(i * (n - 1), n - 1) : i \in 0..(n - 1)}
    BY <1>1, <2>1 DEF SampleIndices, SamplePages
  <2> QED
    BY <2>2, <2>3
<1> QED
  BY <1>2, <1>3

\* That of a longer one has eight pages, the i-th of them about i sevenths of
\* the way.
Sampled(n, i) == RoundHalfEven(i * (n - 1), 7)

LEMMA LongSample ==
  ASSUME NEW n \in Nat, n >= 8
  PROVE  /\ SampleIndices(n, SamplePages) = {Sampled(n, i) : i \in 0..7}
         /\ \A i \in 0..7 : Sampled(n, i) \in 0..(n - 1)
         /\ Sampled(n, 0) = 0 /\ Sampled(n, 7) = n - 1
         /\ \A i \in 0..6 :
              /\ Sampled(n, i) < Sampled(n, i + 1)
              /\ 7 * (Sampled(n, i + 1) - Sampled(n, i)) - (n - 1) \in -6..6
<1>1. Min({8, n}) = 8
  BY MinOfTwo
<1>2. SampleIndices(n, SamplePages) = {Sampled(n, i) : i \in 0..7}
  BY <1>1 DEF SampleIndices, SamplePages, Sampled
<1>3. \A i \in 0..7 : /\ Sampled(n, i) \in Nat
                      /\ 7 * Sampled(n, i) - i * (n - 1) \in -3..3
  <2> SUFFICES ASSUME NEW i \in 0..7
               PROVE  /\ Sampled(n, i) \in Nat
                      /\ 7 * Sampled(n, i) - i * (n - 1) \in -3..3
    OBVIOUS
  <2>1. i * (n - 1) \in Nat
    BY i \in {0, 1, 2, 3, 4, 5, 6, 7}
  <2> QED
    BY <2>1, RoundSevenths DEF Sampled
<1>4. /\ \A i \in {0, 1, 2, 3, 4, 5, 6, 7} : Sampled(n, i) \in Nat
      /\ 7 * Sampled(n, 0) \in -3..3
      /\ 7 * Sampled(n, 1) - (n - 1) \in -3..3
      /\ 7 * Sampled(n, 2) - 2 * (n - 1) \in -3..3
      /\ 7 * Sampled(n, 3) - 3 * (n - 1) \in -3..3
      /\ 7 * Sampled(n, 4) - 4 * (n - 1) \in -3..3
      /\ 7 * Sampled(n, 5) - 5 * (n - 1) \in -3..3
      /\ 7 * Sampled(n, 6) - 6 * (n - 1) \in -3..3
      /\ 7 * Sampled(n, 7) - 7 * (n - 1) \in -3..3
  <2>1. \A i \in {0, 1, 2, 3, 4, 5, 6, 7} : i \in 0..7
    OBVIOUS
  <2>2. 0 * (n - 1) = 0 /\ 1 * (n - 1) = n - 1
    OBVIOUS
  <2> QED
    BY <1>3, <2>1, <2>2
<1>5. \A i \in 0..7 : Sampled(n, i) \in 0..(n - 1)
  BY <1>4, \A i \in 0..7 : i \in {0, 1, 2, 3, 4, 5, 6, 7}
<1>6. Sampled(n, 0) = 0 /\ Sampled(n, 7) = n - 1
  BY <1>4
<1>7. \A i \in 0..6 :
        /\ Sampled(n, i) < Sampled(n, i + 1)
        /\ 7 * (Sampled(n, i + 1) - Sampled(n, i)) - (n - 1) \in -6..6
  <2> DEFINE Apart(a, b) == /\ a < b
                            /\ 7 * (b - a) - (n - 1) \in -6..6
  <2>1. /\ Apart(Sampled(n, 0), Sampled(n, 1))
        /\ Apart(Sampled(n, 1), Sampled(n, 2))
        /\ Apart(Sampled(n, 2), Sampled(n, 3))
        /\ Apart(Sampled(n, 3), Sampled(n, 4))
        /\ Apart(Sampled(n, 4), Sampled(n, 5))
        /\ Apart(Sampled(n, 5), Sampled(n, 6))
        /\ Apart(Sampled(n, 6), Sampled(n, 7))
    BY <1>4
  <2>2. \A i \in 0..6 : i \in {0, 1, 2, 3, 4, 5, 6}
    OBVIOUS
  <2> HIDE DEF Apart
  <2>3. \A i \in 0..6 : Apart(Sampled(n, i), Sampled(n, i + 1))
    BY <2>1, <2>2
  <2> QED
    BY <2>3 DEF Apart
<1> QED
  BY <1>2, <1>5, <1>6, <1>7

\* Both in one: a sample is an increasing sequence of pages.
Spread(n, k, S, e) ==
  /\ e \in [0..(k - 1) -> 0..(n - 1)] /\ S = {e[i] : i \in 0..(k - 1)}
  /\ e[0] = 0 /\ e[k - 1] = n - 1
  /\ \A i \in 0..(k - 1), j \in 0..(k - 1) : i < j => e[i] < e[j]
  /\ \A i \in 0..(k - 2), j \in 0..(k - 2) :
       e[i + 1] - e[i] <= e[j + 1] - e[j] + 1

LEMMA SampleIsSpread ==
  ASSUME NEW n \in Nat, n > 1
  PROVE  \E e : Spread(n, Min({SamplePages, n}),
                       SampleIndices(n, SamplePages), e)
<1> DEFINE S == SampleIndices(n, SamplePages)
<1>1. CASE n < 8
  <2> DEFINE e == [i \in 0..(n - 1) |-> i]
  <2>1. S = 0..(n - 1) /\ Min({SamplePages, n}) = n
    <3>1. S = 0..(n - 1)
      <4>1. n \in 1..8
        BY <1>1
      <4> QED
        BY <4>1, ShortSample
    <3>2. Min({SamplePages, n}) = n
      BY <1>1, MinOfTwo DEF SamplePages
    <3> QED
      BY <3>1, <3>2
  <2> HIDE DEF S
  <2>2. Spread(n, n, S, e)
    BY <2>1 DEF Spread
  <2> HIDE DEF e
  <2> QED
    BY <2>1, <2>2 DEF S
<1>2. CASE n >= 8
  <2> DEFINE e == [i \in 0..7 |-> Sampled(n, i)]
  <2>1. Min({SamplePages, n}) = 8
    BY <1>2, MinOfTwo DEF SamplePages
  <2>2. /\ S = {Sampled(n, i) : i \in 0..7}
        /\ \A i \in 0..7 : Sampled(n, i) \in 0..(n - 1)
        /\ Sampled(n, 0) = 0 /\ Sampled(n, 7) = n - 1
        /\ \A i \in 0..6 :
             /\ Sampled(n, i) < Sampled(n, i + 1)
             /\ 7 * (Sampled(n, i + 1) - Sampled(n, i)) - (n - 1) \in -6..6
    BY <1>2, LongSample
  <2> HIDE DEF S
  <2>3. /\ e \in [0..7 -> 0..(n - 1)] /\ S = {e[i] : i \in 0..7}
        /\ e[0] = 0 /\ e[7] = n - 1
    BY <2>2
  <2>4. \A i \in 0..6 : /\ e[i] < e[i + 1]
                        /\ 7 * (e[i + 1] - e[i]) - (n - 1) \in -6..6
    BY <2>2
  <2> HIDE DEF e
  <2>5. \A i \in 0..7, j \in 0..7 : i < j => e[i] < e[j]
    <3>1. /\ e[0] < e[1] /\ e[1] < e[2] /\ e[2] < e[3] /\ e[3] < e[4]
          /\ e[4] < e[5] /\ e[5] < e[6] /\ e[6] < e[7]
          /\ {e[0], e[1], e[2], e[3], e[4], e[5], e[6], e[7]} \subseteq Int
      BY <2>3, <2>4
    <3>2. \A i \in 0..7 : i \in {0, 1, 2, 3, 4, 5, 6, 7}
      OBVIOUS
    <3> QED
      BY <3>1, <3>2
  <2>6. \A i \in 0..6, j \in 0..6 : e[i + 1] - e[i] <= e[j + 1] - e[j] + 1
    <3> SUFFICES ASSUME NEW i \in 0..6, NEW j \in 0..6
                 PROVE  e[i + 1] - e[i] <= e[j + 1] - e[j] + 1
      OBVIOUS
    <3>1. {e[i], e[i + 1], e[j], e[j + 1]} \subseteq Int
      BY <2>3
    <3>2. /\ 7 * (e[i + 1] - e[i]) - (n - 1) \in -6..6
          /\ 7 * (e[j + 1] - e[j]) - (n - 1) \in -6..6
      BY <2>4
    <3> QED
      BY <3>1, <3>2
  <2>7. Spread(n, 8, S, e)
    BY <2>3, <2>5, <2>6 DEF Spread
  <2> QED
    BY <2>1, <2>7 DEF S
<1> QED
  BY <1>1, <1>2

\* An increasing sequence takes as many values as it has places, and the next
\* larger value is the next one.
LEMMA SpreadIsFair ==
  ASSUME NEW n \in Nat, NEW k \in Nat, k > 1, NEW S, NEW e, Spread(n, k, S, e)
  PROVE  /\ S \subseteq 0..(n - 1) /\ IsFiniteSet(S) /\ Cardinality(S) = k
         /\ {0, n - 1} \subseteq S
         /\ \A i \in 0..(k - 2) :
              Min({j \in S : j > e[i]}) = e[i + 1]
<1>1. S \subseteq 0..(n - 1) /\ {0, n - 1} \subseteq S
  BY DEF Spread
<1>2. IsFiniteSet(S) /\ Cardinality(S) = k
  <2>1. /\ IsFiniteSet(0..(k - 1)) /\ Cardinality(0..(k - 1)) = k
    BY FS_Interval
  <2>2. e \in Bijection(0..(k - 1), S)
    <3>1. e \in [0..(k - 1) -> S] /\ \A s \in S : \E i \in 0..(k - 1) : e[i] = s
      BY DEF Spread
    <3>2. \A i \in 0..(k - 1), j \in 0..(k - 1) : e[i] = e[j] => i = j
      <4>1. \A i \in 0..(k - 1), j \in 0..(k - 1) :
              /\ i < j => e[i] < e[j]
              /\ e[i] \in Int /\ e[j] \in Int
        BY DEF Spread
      <4> QED
        BY <4>1
    <3> QED
      BY <3>1, <3>2 DEF Bijection, Injection, Surjection, IsInjective
  <2> QED
    BY <2>1, <2>2, FS_Bijection DEF ExistsBijection
<1>3. ASSUME NEW i \in 0..(k - 2)
      PROVE  Min({j \in S : j > e[i]}) = e[i + 1]
  <2> DEFINE T == {j \in S : j > e[i]}
  <2>1. i + 1 \in 0..(k - 1) /\ i \in 0..(k - 1)
    OBVIOUS
  <2>2. e[i + 1] \in T
    BY <2>1 DEF Spread
  <2>3. ASSUME NEW y \in T
        PROVE  e[i + 1] <= y
    <3>1. PICK j \in 0..(k - 1) : y = e[j]
      BY DEF Spread
    <3>2. j > i
      <4>1. e[j] > e[i] /\ e[i] \in Int /\ e[j] \in Int
        BY <2>1, <3>1 DEF Spread
      <4>2. j < i => e[j] < e[i]
        BY <2>1, <3>1 DEF Spread
      <4> QED
        BY <2>1, <3>1, <4>1, <4>2
    <3>3. j = i + 1 \/ j > i + 1
      BY <3>2
    <3>4. e[i + 1] \in Int
      BY <2>1 DEF Spread
    <3> QED
      BY <2>1, <3>1, <3>3, <3>4 DEF Spread
  <2>4. T \in SUBSET Int
    <3>1. 0..(n - 1) \subseteq Int
      OBVIOUS
    <3> QED
      BY <1>1, <3>1
  <2> HIDE DEF T
  <2>5. Min(T) = e[i + 1]
    BY <2>2, <2>3, <2>4, MinIs
  <2> QED
    BY <2>5 DEF T
<1> QED
  BY <1>1, <1>2, <1>3

\* Whatever the document, SampledFairly is true of it.
LEMMA SampleIsFair ==
  ASSUME NEW n \in Nat, n > 1, n = Len(input.pages)
  PROVE  SampledFairly
<1> DEFINE S == SampleIndices(n, SamplePages)
           k == Min({SamplePages, n})
           Next1(i) == Min({j \in S : j > i})
           gaps == {Next1(i) - i : i \in S \ {n - 1}}
<1>1. k \in Nat /\ k > 1
  BY MinOfTwo DEF SamplePages
<1>2. PICK e : Spread(n, k, S, e)
  BY SampleIsSpread
<1> HIDE DEF S, k
<1>3. /\ S \subseteq 0..(n - 1) /\ Cardinality(S) = k /\ {0, n - 1} \subseteq S
      /\ \A i \in 0..(k - 2) : Next1(e[i]) = e[i + 1]
  BY <1>1, <1>2, SpreadIsFair
<1>4. ASSUME NEW g \in gaps
      PROVE  \E i \in 0..(k - 2) : g = e[i + 1] - e[i]
  <2>1. PICK s \in S \ {n - 1} : g = Next1(s) - s
    OBVIOUS
  <2>2. PICK i \in 0..(k - 1) : s = e[i]
    BY <1>2 DEF Spread
  <2>3. i # k - 1
    BY <1>2, <2>1, <2>2 DEF Spread
  <2>4. i \in 0..(k - 2)
    BY <1>1, <2>3
  <2> HIDE DEF Next1, gaps
  <2> QED
    BY <1>3, <2>1, <2>2, <2>4
<1>5. \A g, h \in gaps : g <= h + 1
  <2> SUFFICES ASSUME NEW g \in gaps, NEW h \in gaps
               PROVE  g <= h + 1
    OBVIOUS
  <2>1. PICK i \in 0..(k - 2) : g = e[i + 1] - e[i]
    BY <1>4
  <2>2. PICK j \in 0..(k - 2) : h = e[j + 1] - e[j]
    BY <1>4
  <2> HIDE DEF gaps
  <2> QED
    BY <1>2, <2>1, <2>2 DEF Spread
<1> QED
  BY <1>3, <1>5 DEF SampledFairly, S, k

\* The sampled pages of a kind, and the others.
LikePages(S, pages, kind) == {i \in S : pages[i + 1] = kind}
OddPages(S, pages, kind) == {i \in S : pages[i + 1] # kind}
Exceptions(n, pages, kind) == {i \in 1..n : pages[i] # kind}

\* A sample of a document of which one page at most is not of a kind has one
\* page, at most, that is not.
LEMMA OutliersInSample ==
  ASSUME NEW n \in Nat, n > 2, NEW pages, NEW kind,
         Cardinality(Exceptions(n, pages, kind)) <= 1,
         NEW S, S = SampleIndices(n, SamplePages)
  PROVE  /\ Cardinality(S) \in Nat /\ Cardinality(S) > 2 /\ IsFiniteSet(S)
         /\ Cardinality(OddPages(S, pages, kind)) \in {0, 1}
         /\ Cardinality(LikePages(S, pages, kind))
              = Cardinality(S) - Cardinality(OddPages(S, pages, kind))
<1> DEFINE Like == LikePages(S, pages, kind)
           Odd == OddPages(S, pages, kind)
           All == Exceptions(n, pages, kind)
           k == Min({SamplePages, n})
           shift == [i \in Odd |-> i + 1]
<1>1. k \in Nat /\ k > 2
  BY MinOfTwo DEF SamplePages
<1>2. PICK e : Spread(n, k, S, e)
  BY SampleIsSpread
<1>3. S \subseteq 0..(n - 1) /\ IsFiniteSet(S) /\ Cardinality(S) = k
  <2> HIDE DEF k
  <2> QED
    BY <1>1, <1>2, SpreadIsFair
<1> HIDE DEF k
<1>4. IsFiniteSet(Like) /\ IsFiniteSet(Odd)
  BY <1>3, FS_Subset DEF LikePages, OddPages
<1>5. Cardinality(S) = Cardinality(Like) + Cardinality(Odd)
  <2>1. Like \cup Odd = S /\ Like \cap Odd = {}
    BY DEF LikePages, OddPages
  <2>2. Cardinality(Like \cup Odd) = Cardinality(Like) + Cardinality(Odd)
                                     - Cardinality(Like \cap Odd)
    BY <1>4, FS_Union
  <2>3. Cardinality(Like \cap Odd) = 0
    BY <2>1, FS_EmptySet
  <2>4. Cardinality(Like) \in Nat /\ Cardinality(Odd) \in Nat
    BY <1>4, FS_CardinalityType
  <2> HIDE DEF Like, Odd
  <2>5. Cardinality(Like \cup Odd) = Cardinality(Like) + Cardinality(Odd)
    BY <2>2, <2>3, <2>4
  <2> QED
    BY <2>1, <2>5
<1>6. IsFiniteSet(All) /\ Cardinality(All) \in {0, 1}
  <2>1. IsFiniteSet(1..n)
    BY FS_Interval
  <2>2. IsFiniteSet(All)
    BY <2>1, FS_Subset DEF Exceptions
  <2>3. Cardinality(All) \in Nat
    BY <2>2, FS_CardinalityType
  <2>4. Cardinality(All) <= 1
    OBVIOUS
  <2> HIDE DEF All
  <2> QED
    BY <2>2, <2>3, <2>4
<1>7. shift \in Injection(Odd, All)
  <2>1. \A i \in Odd : i \in Int /\ i + 1 \in All
    BY <1>3 DEF OddPages, Exceptions
  <2>2. shift \in [Odd -> All]
    BY <2>1
  <2>3. \A i, j \in Odd : shift[i] = shift[j] => i = j
    BY <2>1
  <2> HIDE DEF shift, Odd, All
  <2> QED
    BY <2>2, <2>3 DEF Injection, IsInjective
<1>8. Cardinality(Odd) <= Cardinality(All)
  BY <1>6, <1>7, FS_Injection
<1>9. Cardinality(Like) \in Nat /\ Cardinality(Odd) \in Nat
  BY <1>4, FS_CardinalityType
<1> HIDE DEF Like, Odd, All
<1>10. Cardinality(Odd) \in {0, 1}
  BY <1>6, <1>8, <1>9
<1>11. Cardinality(Like) = Cardinality(S) - Cardinality(Odd)
  BY <1>5, <1>9
<1> QED
  BY <1>1, <1>3, <1>10, <1>11 DEF Like, Odd

\* A PDF is what all its pages but one are.
LEMMA MostDecide ==
  ASSUME NEW pages \in Seq({"text", "scan", "void"}), Len(pages) > 2,
         NEW kind \in {"text", "scan"},
         Cardinality(Exceptions(Len(pages), pages, kind)) <= 1
  PROVE  InspectPdf(pages)
           = IF kind = "text" THEN "text_native" ELSE "scanned"
<1> DEFINE n == Len(pages)
           S == SampleIndices(n, SamplePages)
           Like == LikePages(S, pages, kind)
           Odd == OddPages(S, pages, kind)
           Texts1 == {i \in S : pages[i + 1] \in {"text"}}
           Some == {i \in S : pages[i + 1] \in {"text", "scan"}}
<1>1. /\ Cardinality(S) \in Nat /\ Cardinality(S) > 2 /\ IsFiniteSet(S)
      /\ Cardinality(Odd) \in {0, 1}
      /\ Cardinality(Like) = Cardinality(S) - Cardinality(Odd)
  <2> HIDE DEF n
  <2>1. n \in Nat /\ n > 2 /\ Cardinality(Exceptions(n, pages, kind)) <= 1
    BY DEF n
  <2> QED
    BY <2>1, OutliersInSample
<1> HIDE DEF S
<1>2. Some # {}
  <2>1. Like # {}
    <3>1. Cardinality(Like) # 0
      <4> HIDE DEF Like, Odd
      <4> QED
        BY <1>1
    <3> QED
      BY <3>1, FS_EmptySet
  <2> QED
    BY <2>1 DEF LikePages
<1>3. InspectPdf(pages)
        = IF 10 * Cardinality(Texts1) >= 4 * Cardinality(S)
          THEN "text_native" ELSE "scanned"
  BY <1>2 DEF InspectPdf, S
<1>4. CASE kind = "text"
  <2>1. Texts1 = Like
    BY <1>4 DEF LikePages
  <2> HIDE DEF Like, Odd, Texts1
  <2> QED
    BY <1>1, <1>3, <1>4, <2>1
<1>5. CASE kind = "scan"
  <2>1. Texts1 \in SUBSET Odd /\ Odd \in SUBSET S
    BY <1>5 DEF OddPages
  <2>2. IsFiniteSet(Odd)
    BY <1>1, <2>1, FS_Subset
  <2>3. IsFiniteSet(Texts1) /\ Cardinality(Texts1) <= Cardinality(Odd)
    BY <2>1, <2>2, FS_Subset
  <2>4. Cardinality(Texts1) \in Nat
    BY <2>3, FS_CardinalityType
  <2> HIDE DEF Like, Odd, Texts1
  <2> QED
    BY <1>1, <1>3, <1>5, <2>3, <2>4
<1> QED
  BY <1>4, <1>5

\* The pages that decide are spread over the document, ...
THEOREM SamplesAreFair == Spec => []SampledFairly
<1>1. AttemptInv => SampledFairly
  <2> SUFFICES ASSUME AttemptInv
               PROVE  SampledFairly
    OBVIOUS
  <2>1. Len(input.pages) \in Nat
    <3>1. input \in InputType
      BY AttemptAssumption DEF AttemptInv, Typed
    <3>2. input.pages \in Seq({"text", "scan", "void"})
      BY <3>1 DEF InputType
    <3> QED
      BY <3>2
  <2>2. CASE Len(input.pages) > 1
    BY <2>1, <2>2, SampleIsFair
  <2>3. CASE ~(Len(input.pages) > 1)
    BY <2>3 DEF SampledFairly
  <2> QED
    BY <2>2, <2>3
<1> QED
  BY <1>1, AttemptInvariant, PTL

\* ... and a single page that is unlike the others never decides.
THEOREM OutliersAreOutvoted == Spec => []OutlierNeverDecides
<1>1. AttemptInv => OutlierNeverDecides
  <2> SUFFICES ASSUME AttemptInv, pc = "check", input.doc.ext = "pdf",
                      input.override = "", Len(input.pages) > 2,
                      NEW kind \in {"text", "scan"},
                      Cardinality(Exceptions(Len(input.pages), input.pages,
                                             kind)) <= 1
               PROVE  tool = IF kind = "text" THEN "pymupdf" ELSE "ocr"
    BY DEF OutlierNeverDecides, Exceptions
  <2>1. input \in InputType /\ input.pages \in Seq({"text", "scan", "void"})
    BY AttemptAssumption DEF AttemptInv, Typed, InputType
  <2>2. tool = Chosen /\ Validate(input.doc, input.target, MaxSize)
    BY DEF AttemptInv, Routed, Validated
  <2>3. ~Exporting
    BY <2>2, ValidExtension DEF ExportExtensions
  <2>4. InspectPdf(input.pages)
          = IF kind = "text" THEN "text_native" ELSE "scanned"
    BY <2>1, MostDecide
  <2>5. Classify(input.doc.ext, input.pages)
          = IF kind = "text" THEN "pdf_native" ELSE "pdf_scanned"
    BY <2>4 DEF Classify, DefaultByFormat
  <2>6. /\ "pymupdf" \in Tools /\ "ocr" \in Tools
        /\ "pdf" \in SupportedExtensions["pymupdf"]
        /\ "pdf" \in SupportedExtensions["ocr"]
    BY DEF Tools, SupportedExtensions
  <2>7. Chosen = IF kind = "text" THEN "pymupdf" ELSE "ocr"
    <3> DEFINE target == Classify(input.doc.ext, input.pages)
    <3>1. /\ target # "none"
          /\ DefaultByFormat[target] = IF kind = "text" THEN "pymupdf" ELSE "ocr"
      <4>1. /\ DefaultByFormat["pdf_native"] = "pymupdf"
            /\ DefaultByFormat["pdf_scanned"] = "ocr"
        BY DEF DefaultByFormat
      <4>2. CASE kind = "text"
        <5>1. target = "pdf_native"
          BY <2>5, <4>2
        <5> HIDE DEF target
        <5> QED
          BY <4>1, <4>2, <5>1
      <4>3. CASE kind = "scan"
        <5>1. target = "pdf_scanned"
          BY <2>5, <4>3
        <5> HIDE DEF target
        <5> QED
          BY <4>1, <4>3, <5>1
      <4> QED
        BY <4>2, <4>3
    <3>2. Chosen = Resolve(input.doc.ext, input.pages, "")
      BY <2>3 DEF Chosen
    <3> HIDE DEF target
    <3>3. Resolve(input.doc.ext, input.pages, "") = DefaultByFormat[target]
      BY <2>6, <3>1 DEF Resolve, target
    <3> QED
      BY <3>1, <3>2, <3>3
  <2> QED
    BY <2>2, <2>7
<1> QED
  BY <1>1, AttemptInvariant, PTL

(***************************************************************************)
(* The quality score                                                       *)
(***************************************************************************)

LEMMA MaxIs ==
  ASSUME NEW S \in SUBSET Int, NEW x \in S, \A y \in S : x >= y
  PROVE  Max(S) = x
<1> DEFINE m == CHOOSE z \in S : \A y \in S : z >= y
<1>1. m \in S /\ \A y \in S : m >= y
  OBVIOUS
<1>2. m = x
  <2> HIDE DEF m
  <2> QED
    BY <1>1
<1> QED
  BY <1>2 DEF Max

LEMMA CountIsFinite ==
  ASSUME NEW t \in Text, NEW x
  PROVE  /\ IsFiniteSet({i \in 1..Len(t) : t[i] = x})
         /\ Count(t, x) \in Nat
<1>1. Len(t) \in Nat
  BY DEF Text
<1>2. IsFiniteSet(1..Len(t))
  BY <1>1, FS_Interval
<1>3. IsFiniteSet({i \in 1..Len(t) : t[i] = x})
  BY <1>2, FS_Subset
<1> QED
  BY <1>3, FS_CardinalityType DEF Count

\* What a bad character at place i does to the counts.
LEMMA DamageCounts ==
  ASSUME NEW t \in Text, NEW i \in 1..Len(t), t[i] # "bad"
  PROVE  LET u == [t EXCEPT ![i] = "bad"]
         IN  /\ Len(u) = Len(t) /\ u \in Text
             /\ Count(u, "bad") = Count(t, "bad") + 1
             /\ Count(u, "#") <= Count(t, "#")
<1> DEFINE u == [t EXCEPT ![i] = "bad"]
           At(v, x) == {k \in 1..Len(v) : v[k] = x}
<1>1. Len(t) \in Nat /\ t \in Seq(Token) /\ "bad" \in Token
  BY DEF Text, Token, Word
<1>2. Len(u) = Len(t) /\ u \in Seq(Token)
  BY <1>1
<1>3. \A k \in 1..Len(t) : u[k] = IF k = i THEN "bad" ELSE t[k]
  BY <1>1
<1> HIDE DEF u
<1>4. At(u, "bad") = At(t, "bad") \cup {i} /\ i \notin At(t, "bad")
  BY <1>2, <1>3
<1>5. At(u, "#") \in SUBSET At(t, "#")
  BY <1>2, <1>3
<1>6. IsFiniteSet(At(t, "bad")) /\ IsFiniteSet(At(t, "#"))
  BY CountIsFinite
<1>7. Cardinality(At(u, "bad")) = Cardinality(At(t, "bad")) + 1
  <2> HIDE DEF At
  <2> QED
    BY <1>4, <1>6, FS_AddElement
<1>8. Cardinality(At(u, "#")) <= Cardinality(At(t, "#"))
  <2> HIDE DEF At
  <2> QED
    BY <1>5, <1>6, FS_Subset
<1> QED
  BY <1>1, <1>2, <1>7, <1>8 DEF Count, Text, u

\* What the three signs of damage cost, in numbers.
LEMMA CostsAre ==
  ASSUME NEW t \in Text, NEW bytes \in Nat
  PROVE  /\ TooSmall(bytes, t)
              = IF bytes >= SmallInput /\ Len(t) < SmallOutput THEN 700 ELSE 0
         /\ NoHeading(t)
              = IF Len(t) >= Structure /\ Count(t, "#") = 0 THEN 200 ELSE 0
         /\ Replaced(t) = IF Count(t, "bad") = 0 THEN 0
                          ELSE IF Count(t, "bad") >= 6 THEN 400
                          ELSE 100 + 50 * Count(t, "bad")
         /\ Score(bytes, t)
              = IF t = <<>> THEN 0
                ELSE LET sum == 1000 - TooSmall(bytes, t) - NoHeading(t)
                                  - Replaced(t)
                     IN  IF sum >= 0 THEN sum ELSE 0
<1> DEFINE n == Count(t, "bad")
           c == TooSmall(bytes, t)
           h == NoHeading(t)
           r == Replaced(t)
<1>1. n \in Nat
  BY CountIsFinite
<1>2. c = IF bytes >= SmallInput /\ Len(t) < SmallOutput THEN 700 ELSE 0
  BY DEF TooSmall
<1>3. h = IF Len(t) >= Structure /\ Count(t, "#") = 0 THEN 200 ELSE 0
  BY DEF NoHeading
<1>4. r = IF n = 0 THEN 0 ELSE IF n >= 6 THEN 400 ELSE 100 + 50 * n
  <2>1. r = IF n = 0 THEN 0 ELSE Min({400, 100 + 50 * n})
    BY DEF Replaced
  <2> HIDE DEF n, r
  <2>2. Min({400, 100 + 50 * n})
          = IF 400 <= 100 + 50 * n THEN 400 ELSE 100 + 50 * n
    BY <1>1, MinOfTwo
  <2> QED
    BY <1>1, <2>1, <2>2
<1>5. Score(bytes, t) = IF t = <<>> THEN 0 ELSE Max({0, 1000 - c - h - r})
  BY DEF Score
<1> HIDE DEF n, c, h, r
<1>6. 1000 - c - h - r \in Int
  <2>1. c \in Int /\ h \in Int /\ r \in Int
    BY <1>1, <1>2, <1>3, <1>4
  <2> QED
    BY <2>1
<1> DEFINE sum == 1000 - c - h - r
<1> HIDE DEF sum
<1>7. Max({0, sum}) = IF sum >= 0 THEN sum ELSE 0
  <2>1. sum \in Int
    BY <1>6 DEF sum
  <2>2. CASE sum >= 0
    BY <2>1, <2>2, MaxIs
  <2>3. CASE sum < 0
    BY <2>1, <2>3, MaxIs
  <2> QED
    BY <2>1, <2>2, <2>3
<1> QED
  BY <1>2, <1>3, <1>4, <1>5, <1>7 DEF sum, n, c, h, r

LEMMA CostsAreNat ==
  ASSUME NEW t \in Text, NEW bytes \in Nat
  PROVE  /\ TooSmall(bytes, t) \in Nat
         /\ NoHeading(t) \in Nat
         /\ Replaced(t) \in Nat
<1> DEFINE n == Count(t, "bad")
           r == Replaced(t)
<1>1. TooSmall(bytes, t) \in Nat
  BY CostsAre
<1>2. NoHeading(t) \in Nat
  BY DEF NoHeading
<1>3. Replaced(t) \in Nat
  <2>1. n \in Nat
    BY CountIsFinite
  <2>2. r = IF n = 0 THEN 0 ELSE IF n >= 6 THEN 400 ELSE 100 + 50 * n
    BY CostsAre
  <2> HIDE DEF n, r
  <2>3. r \in Nat
    BY <2>1, <2>2
  <2> QED
    BY <2>3 DEF r
<1> QED
  BY <1>1, <1>2, <1>3

\* A bad character never raises the score.
LEMMA DamageNeverPays ==
  ASSUME NEW t \in Text, NEW i \in 1..Len(t), NEW bytes \in Nat
  PROVE  Score(bytes, [t EXCEPT ![i] = "bad"]) <= Score(bytes, t)
<1> DEFINE u == [t EXCEPT ![i] = "bad"]
<1>1. /\ Len(t) \in Nat /\ Len(t) > 0 /\ t # <<>>
      /\ {SmallInput, SmallOutput, Structure} \subseteq Nat
  BY FloorsAssumption DEF Text
<1>2. CASE t[i] = "bad"
  <2>1. u = t
    BY <1>1, <1>2 DEF Text
  <2>2. Score(bytes, t) \in Int
    <3>1. /\ TooSmall(bytes, t) \in Int /\ NoHeading(t) \in Int
          /\ Replaced(t) \in Int
      BY CostsAreNat
    <3> QED
      BY <1>1, <3>1, CostsAre
  <2> QED
    BY <2>1, <2>2
<1>3. CASE t[i] # "bad"
  <2>1. /\ Len(u) = Len(t) /\ u \in Text
        /\ Count(u, "bad") = Count(t, "bad") + 1
        /\ Count(u, "#") <= Count(t, "#")
    BY <1>3, DamageCounts
  <2> HIDE DEF u
  <2>2. /\ Count(t, "bad") \in Nat /\ Count(t, "#") \in Nat
        /\ Count(u, "#") \in Nat
    BY <2>1, CountIsFinite
  <2>3. u # <<>>
    BY <1>1, <2>1
  <2>4. TooSmall(bytes, u) = TooSmall(bytes, t) /\ TooSmall(bytes, t) \in Nat
    BY <2>1, CostsAre
  <2>5. /\ NoHeading(t) <= NoHeading(u)
        /\ NoHeading(t) \in Nat /\ NoHeading(u) \in Nat
    BY <2>1, <2>2, CostsAre
  <2>6. /\ Replaced(t) <= Replaced(u)
        /\ Replaced(t) \in Nat /\ Replaced(u) \in Nat
    <3> DEFINE n == Count(t, "bad")
               cost(k) == IF k = 0 THEN 0 ELSE IF k >= 6 THEN 400 ELSE 100 + 50 * k
    <3>1. Replaced(t) = cost(n)
      BY CostsAre
    <3>2. Replaced(u) = cost(n + 1)
      BY <2>1, CostsAre
    <3>3. n \in Nat
      BY <2>2
    <3> HIDE DEF n
    <3>4. CASE n = 0
      BY <3>1, <3>2, <3>4
    <3>5. CASE n # 0
      BY <3>1, <3>2, <3>3, <3>5
    <3> QED
      BY <3>4, <3>5
  <2>7. Score(bytes, u) <= Score(bytes, t)
    <3> DEFINE before == 1000 - TooSmall(bytes, t) - NoHeading(t) - Replaced(t)
               after == 1000 - TooSmall(bytes, u) - NoHeading(u) - Replaced(u)
    <3>1. Score(bytes, t) = IF before >= 0 THEN before ELSE 0
      BY <1>1, CostsAre
    <3>2. Score(bytes, u) = IF after >= 0 THEN after ELSE 0
      BY <2>1, <2>3, CostsAre
    <3>3. \A a, b, c, d, e \in Nat : b <= d /\ c <= e =>
            /\ 1000 - a - d - e <= 1000 - a - b - c
            /\ 1000 - a - d - e \in Int /\ 1000 - a - b - c \in Int
      OBVIOUS
    <3>4. after <= before /\ after \in Int /\ before \in Int
      BY <2>4, <2>5, <2>6, <3>3
    <3> HIDE DEF after, before
    <3> QED
      BY <3>1, <3>2, <3>4
  <2> QED
    BY <2>7 DEF u
<1> QED
  BY <1>2, <1>3

\* What is extracted is a text, and what is written has been through the cleaner.
Cleaned ==
  text \in Text /\ (pc = "assess" => text \in Seq(Token \ Scaffold))

LEMMA CleanedInvariant == Spec => []Cleaned
<1>1. Init => Cleaned
  BY TextBasics DEF Init, Cleaned
<1>2. AttemptInv /\ Cleaned /\ [Next]_vars => Cleaned'
  <2> SUFFICES ASSUME AttemptInv, Cleaned, [Next]_vars PROVE Cleaned'
    OBVIOUS
  <2>1. ASSUME text' = text, pc' # "assess" \/ pc' = pc PROVE Cleaned'
    BY <2>1 DEF Cleaned
  <2>2. CASE UNCHANGED vars
    BY <2>1, <2>2 DEF vars
  <2>3. CASE ToolReturns
    <3>1. text' = text \/ \E t \in Texts(input) : text' = t
      BY <2>3 DEF ToolReturns
    <3>2. Texts(input) \subseteq Text
      BY AttemptAssumption DEF AttemptInv, Typed
    <3>3. pc' # "assess"
      BY <2>3 DEF ToolReturns, Goto
    <3> QED
      BY <3>1, <3>2, <3>3 DEF Cleaned
  <2>4. CASE WriteCleaned
    <3>1. text' = Clean(text)
      BY <2>4 DEF WriteCleaned
    <3> QED
      BY <3>1, CleanDerives, NoScaffoldLeft DEF Cleaned
  <2>5. CASE ValidateInput \/ Route \/ InputGone \/ Start \/ OcrReturns
    BY <2>1, <2>5 DEF ValidateInput, Route, InputGone, Start, OcrReturns, Goto,
                      Raise, Lose
  <2>6. CASE ToolFails \/ RaiseUnnamed \/ TimeOut \/ Assess \/ Record \/ RecordFailure
    BY <2>1, <2>6 DEF ToolFails, RaiseUnnamed, TimeOut, Assess, Record,
                      RecordFailure, Goto, Raise, Lose
  <2>7. CASE SoftLimit \/ HardLimit
    BY <2>1, <2>7 DEF SoftLimit, HardLimit, Raise, Lose
  <2>8. CASE FileAppears \/ StrayEnds \/ Tick
    BY <2>1, <2>8 DEF FileAppears, StrayEnds, Tick
  <2> QED
    BY <2>2, <2>3, <2>4, <2>5, <2>6, <2>7, <2>8 DEF Next, Step
<1> QED
  BY <1>1, <1>2, AttemptInvariant, PTL DEF Spec

\* A word lost to a bad encoding never raises the rating, and next to nothing
\* from a large source is rated low.
THEOREM RatingIsMonotone == Spec => []RatingFollowsDamage
<1>1. AttemptInv /\ Cleaned => RatingFollowsDamage
  <2> SUFFICES ASSUME AttemptInv, text \in Text, pc = "assess"
               PROVE  RatingFollowsDamage
    BY DEF RatingFollowsDamage, Cleaned
  <2>1. input.doc.size \in Nat
    <3>1. input \in InputType
      BY AttemptAssumption DEF AttemptInv, Typed
    <3> QED
      BY <3>1 DEF InputType, Document
  <2>2. \A i \in 1..Len(text), bytes \in {0, input.doc.size} :
          Score(bytes, [text EXCEPT ![i] = "bad"]) <= Score(bytes, text)
    BY <2>1, DamageNeverPays
  <2>3. ASSUME input.doc.size >= SmallInput, Len(text) < SmallOutput
        PROVE  AssessQuality(input.doc.size, text).level = "low"
    <3> DEFINE s == Score(input.doc.size, text)
               h == NoHeading(text)
               r == Replaced(text)
    <3>1. TooSmall(input.doc.size, text) = 700
      BY <2>1, <2>3, CostsAre
    <3>2. h \in Nat /\ r \in Nat
      BY <2>1, CostsAreNat
    <3>3. s = IF text = <<>> THEN 0
              ELSE IF 1000 - 700 - h - r >= 0 THEN 1000 - 700 - h - r ELSE 0
      BY <2>1, <3>1, CostsAre
    <3> HIDE DEF h, r, s
    <3>4. s < 450 /\ s \in Int
      BY <3>2, <3>3
    <3>5. LevelFor(s) = "low"
      BY <3>4 DEF LevelFor, High, Medium
    <3> QED
      BY <3>5 DEF AssessQuality, s
  <2> QED
    BY <2>2, <2>3 DEF RatingFollowsDamage
<1> QED
  BY <1>1, AttemptInvariant, CleanedInvariant, PTL

=============================================================================
