---------------------------- MODULE UploadProofs ----------------------------
(***************************************************************************)
(* What POST /jobs leaves on disk and in the tables, for any number of     *)
(* concurrent requests, any documents, chunk size and limits, and any      *)
(* number of errors and crashes.                                           *)
(*                                                                         *)
(* RequestInv(r) is the part of UInv about one request.  A step of another *)
(* request touches neither its handler nor its files (OthersAreSpared), so *)
(* each step is looked at for its own request only.                        *)
(***************************************************************************)
EXTENDS Upload, TLAPS

RequestInv(r) ==
  HoldsStaged(r) /\ HoldsNothing(r) /\ ReadsNext(r) /\ JobIsStaged(r)

\* Only documents of the direction, with something in them, are accepted.
LEMMA ValidFits ==
  ASSUME NEW d \in Document, NEW target, NEW limit \in Nat,
         Validate(d, target, limit)
  PROVE  /\ d.size \in 1..limit
         /\ d.ext \in IF target = "markdown" THEN AllowedExtensions
                                             ELSE ExportExtensions
<1>1. d.size \in Nat /\ d.size <= limit
  BY DEF Validate, Document
<1>2. d.ext \in IF target = "markdown" THEN AllowedExtensions
                                       ELSE ExportExtensions
  BY DEF Validate, DetectFormat
<1>3. ASSUME d.size = 0, NEW mimes, MimeOk(d, mimes)
      PROVE  FALSE
  <2>1. d.ext \in DOMAIN Lenient
    BY <1>2 DEF AllowedExtensions, ExportExtensions, Lenient
  <2>2. "empty" \in Lenient[d.ext]
    BY <1>3, <2>1 DEF MimeOk, SniffMime, AcceptedFor
  <2> QED
    BY <1>2, <2>2
       DEF AllowedExtensions, ExportExtensions, ExportMimeTypes, Lenient
<1>4. d.size # 0
  BY <1>3 DEF Validate, DetectFormat, VerifyZipContainer
<1> QED
  BY <1>1, <1>2, <1>4

\* A request whose handler, files and rows are left alone keeps its part.
LEMMA OthersAreSpared ==
  ASSUME NEW r \in Request, RequestInv(r),
         req'[r] = req[r], jobs'[r] = jobs[r],
         \A p : p[1] = r => (p \in disk' <=> p \in disk)
  PROVE  RequestInv(r)'
<1>1. \A i, n : OnDisk(r, i, n)' <=> OnDisk(r, i, n)
  BY DEF OnDisk
<1>2. \A i : Staged(r, i)' <=> Staged(r, i)
  BY <1>1 DEF Staged
<1>3. HoldsStaged(r)' /\ HoldsNothing(r)'
  BY <1>2 DEF RequestInv, HoldsStaged, HoldsNothing, Position
<1>4. ReadsNext(r)' /\ JobIsStaged(r)'
  BY <1>1 DEF RequestInv, ReadsNext, JobIsStaged, Position, Fits
<1> QED
  BY <1>3, <1>4 DEF RequestInv

\* The types of one request.
LEMMA RequestTyped ==
  ASSUME UTypeOK, NEW r \in Request
  PROVE  /\ req[r] \in Handler
         /\ req[r].docs \in Seq(Document) /\ req[r].specs \in Seq(Nat)
         /\ req[r].got \in Nat /\ req[r].got <= MaxFileSize
         /\ jobs[r] \in Seq(Nat)
         /\ Len(req[r].specs) \in Nat /\ Len(req[r].docs) \in Nat
         /\ Position(r) \in Nat \ {0}
<1>1. /\ req[r] \in Handler /\ req[r].specs \in Seq(Nat)
      /\ req[r].docs \in Payload /\ req[r].got \in Nat
      /\ req[r].got <= MaxFileSize /\ jobs[r] \in Seq(Nat)
  BY DEF UTypeOK, Handler
<1>2. req[r].docs \in Seq(Document)
  BY <1>1, UploadAssumption
<1>3. Len(req[r].specs) \in Nat /\ Len(req[r].docs) \in Nat
  BY <1>1, <1>2
<1> QED
  BY <1>1, <1>2, <1>3 DEF Position

\* A handler that has moved on without touching the disk.
LEMMA HandlerMoves ==
  ASSUME UTypeOK, NEW r \in Request, NEW pc \in {"none"} \cup Handling \cup Answered,
         GoTo(r, pc)
  PROVE  /\ req' \in [Request -> Handler]
         /\ req'[r] = [req[r] EXCEPT !.pc = pc]
         /\ req'[r].pc = pc /\ req'[r].target = req[r].target
         /\ req'[r].docs = req[r].docs /\ req'[r].specs = req[r].specs
         /\ req'[r].got = req[r].got
         /\ \A s \in Request \ {r} : req'[s] = req[s]
         /\ \A s \in Request : req'[s].got = req[s].got
BY DEF UTypeOK, GoTo, Handler

\* What is unlinked is r's.
LEMMA UnlinkedSpares ==
  ASSUME UTypeOK, NEW r, NEW n
  PROVE  /\ Unlinked(r, n) \subseteq disk
         /\ \A p : p[1] # r => (p \in Unlinked(r, n) <=> p \in disk)
BY DEF Unlinked

\* A rejection that unlinks every staged file of the request.
LEMMA RejectionKeeps ==
  ASSUME UInv, NEW r \in Request, NEW n \in Nat, Rejects(r, n),
         jobs[r] = <<>>,
         \A p \in disk : p[1] = r => p[2] <= n
  PROVE  UInv'
<1>1. /\ UTypeOK /\ \A s \in Request : RequestInv(s)
      /\ GoTo(r, "rejected") /\ disk' = Unlinked(r, n)
      /\ UNCHANGED <<jobs, sent, errors>>
  BY DEF UInv, Rejects, RequestInv
<1>2. /\ req' \in [Request -> Handler] /\ req'[r].pc = "rejected"
      /\ \A s \in Request \ {r} : req'[s] = req[s]
      /\ \A s \in Request : req'[s].got = req[s].got
  BY <1>1, HandlerMoves DEF Answered
<1>3. UTypeOK'
  BY <1>1, <1>2, UnlinkedSpares DEF UTypeOK
<1>4. \A p \in disk' : p[1] # r
  <2> SUFFICES ASSUME NEW p \in disk, p[1] = r, p[2] > n PROVE FALSE
    BY <1>1 DEF Unlinked
  <2>1. p[2] \in Nat /\ p[2] <= n
    BY <1>1 DEF UTypeOK
  <2> QED
    BY <2>1
<1>5. RequestInv(r)'
  BY <1>1, <1>2, <1>4
     DEF RequestInv, HoldsStaged, HoldsNothing, ReadsNext, JobIsStaged
<1>6. ASSUME NEW s \in Request, s # r
      PROVE  RequestInv(s)'
  <2>1. req'[s] = req[s] /\ jobs'[s] = jobs[s]
    BY <1>1, <1>2, <1>6
  <2>2. \A p : p[1] = s => (p \in disk' <=> p \in disk)
    BY <1>1, <1>6, UnlinkedSpares
  <2> QED
    BY <1>1, <2>1, <2>2, OthersAreSpared
<1> QED
  BY <1>3, <1>5, <1>6 DEF UInv, RequestInv

\* A step of r that leaves the other handlers and their files alone.
LEMMA OwnStep ==
  ASSUME UInv, NEW r \in Request, UTypeOK', RequestInv(r)',
         \A s \in Request \ {r} : req'[s] = req[s] /\ jobs'[s] = jobs[s],
         \A p : p[1] # r => (p \in disk' <=> p \in disk)
  PROVE  UInv'
<1>1. ASSUME NEW s \in Request, s # r
      PROVE  RequestInv(s)'
  <2>1. /\ RequestInv(s) /\ req'[s] = req[s] /\ jobs'[s] = jobs[s]
        /\ \A p : p[1] = s => (p \in disk' <=> p \in disk)
    BY <1>1 DEF UInv, RequestInv
  <2> QED
    BY <2>1, OthersAreSpared
<1> QED
  BY <1>1 DEF UInv, RequestInv

\* The checks before anything is staged.
LEMMA ArriveKeeps ==
  ASSUME UInv, NEW r \in Request, Arrive(r)
  PROVE  UInv'
<1> DEFINE ok == Len(req[r].docs) \in 1..MaxFiles /\ req[r].target \in OutputFormat
<1>1. /\ UTypeOK /\ RequestInv(r) /\ req[r].pc = "none"
      /\ UNCHANGED <<disk, jobs, sent, errors>>
  BY DEF UInv, RequestInv, Arrive
<1>2. ASSUME NEW pc \in {"open", "rejected"}, GoTo(r, pc),
             pc = "open" => ok
      PROVE  UInv'
  <2>0. req[r].specs = <<>>
    BY <1>1 DEF RequestInv, ReadsNext
  <2>1. /\ req' \in [Request -> Handler]
        /\ req'[r].pc = pc /\ req'[r].docs = req[r].docs
        /\ req'[r].specs = <<>> /\ req'[r].got = req[r].got
        /\ \A s \in Request \ {r} : req'[s] = req[s]
        /\ \A s \in Request : req'[s].got = req[s].got
    BY <1>1, <1>2, <2>0, HandlerMoves DEF Handling, Answered
  <2>2. UTypeOK'
    BY <1>1, <2>1 DEF UTypeOK
  <2>3. jobs'[r] = <<>> /\ \A p \in disk' : p[1] # r
    BY <1>1 DEF RequestInv, JobIsStaged, HoldsNothing
  <2>4. RequestInv(r)'
    BY <1>1, <1>2, <2>1, <2>3, RequestTyped
       DEF RequestInv, HoldsStaged, HoldsNothing, ReadsNext, JobIsStaged
  <2> QED
    BY <1>1, <2>1, <2>2, <2>4, OwnStep
<1> QED
  BY <1>1, <1>2 DEF Arrive

\* A new staged file, next after the accepted ones.
LEMMA OpenKeeps ==
  ASSUME UInv, NEW r \in Request, Open(r)
  PROVE  UInv'
<1> DEFINE i == Position(r)
<1>1. /\ UTypeOK /\ RequestInv(r) /\ req[r].pc = "open"
      /\ disk' = disk \cup {<<r, i, 0>>}
      /\ req' = [req EXCEPT ![r].pc = "read", ![r].got = 0]
      /\ UNCHANGED <<jobs, sent, errors>>
  BY DEF UInv, RequestInv, Open
<1>2. /\ req' \in [Request -> Handler]
      /\ req'[r].pc = "read" /\ req'[r].docs = req[r].docs
      /\ req'[r].target = req[r].target
      /\ req'[r].specs = req[r].specs /\ req'[r].got = 0
      /\ \A s \in Request \ {r} : req'[s] = req[s]
  <2>1. [[req[r] EXCEPT !.pc = "read"] EXCEPT !.got = 0] \in Handler
    BY <1>1, RequestTyped DEF Handler, Handling
  <2> QED
    BY <1>1, <2>1, RequestTyped DEF UTypeOK, Handler
<1>3. i \in Nat \ {0} /\ Position(r)' = i /\ i = Len(req[r].specs) + 1
  BY <1>1, <1>2, RequestTyped DEF Position
<1>4. UTypeOK'
  <2>1. <<r, i, 0>> \in Request \X Nat \X Nat
    BY <1>3
  <2>2. \A s \in Request : req'[s].got <= MaxFileSize
    BY <1>1, <1>2, UploadAssumption DEF UTypeOK
  <2> QED
    BY <1>1, <1>2, <2>1, <2>2 DEF UTypeOK
<1>5. /\ Len(req[r].docs) \in 1..MaxFiles
      /\ Len(req[r].specs) < Len(req[r].docs)
      /\ \A k \in DOMAIN req[r].specs : Staged(r, k)
      /\ \A p \in disk : p[1] = r => p[2] \in DOMAIN req[r].specs
      /\ jobs[r] = <<>>
  BY <1>1 DEF RequestInv, HoldsStaged, ReadsNext, JobIsStaged
<1>6. DOMAIN req[r].specs = 1..(i - 1)
  BY <1>1, <1>3, RequestTyped
<1>7. \A k \in DOMAIN req[r].specs : \A n : OnDisk(r, k, n) => OnDisk(r, k, n)'
  BY <1>1, <1>3, <1>6 DEF OnDisk
<1>8. {p \in disk' : p[1] = r /\ p[2] = i} = {<<r, i, 0>>}
  <2>1. \A p \in disk : ~(p[1] = r /\ p[2] = i)
    BY <1>3, <1>5, <1>6
  <2> QED
    BY <1>1, <2>1
<1>9. HoldsStaged(r)'
  <2>1. \A k \in DOMAIN req'[r].specs : Staged(r, k)'
    BY <1>2, <1>5, <1>7 DEF Staged
  <2>2. \A p \in disk' : p[1] = r => p[2] \in DOMAIN req'[r].specs \/ p[2] = i
    BY <1>1, <1>2, <1>5
  <2>3. Len(req'[r].specs) <= Len(req'[r].docs)
    BY <1>1, <1>2, <1>5, RequestTyped
  <2> QED
    BY <1>2, <1>3, <1>5, <2>1, <2>2, <2>3 DEF HoldsStaged
<1>10. ReadsNext(r)'
  <2>1. req[r].docs[i].size \in Nat
    <3>1. req[r].docs \in Seq(Document) /\ Len(req[r].specs) \in Nat
          /\ Len(req[r].docs) \in Nat
      BY <1>1, RequestTyped
    <3>2. i \in 1..Len(req[r].docs)
      BY <1>3, <1>5, <3>1
    <3>3. req[r].docs[i] \in Document
      BY <3>1, <3>2
    <3> QED
      BY <3>3 DEF Document
  <2>2. Len(req'[r].specs) < Len(req'[r].docs)
    BY <1>2, <1>5
  <2>3. 0 <= req'[r].docs[i].size
    BY <1>2, <2>1
  <2> QED
    BY <1>2, <1>3, <1>8, <2>2, <2>3 DEF ReadsNext, OnDisk
<1>11. JobIsStaged(r)' /\ HoldsNothing(r)'
  BY <1>1, <1>2, <1>5 DEF JobIsStaged, HoldsNothing
<1> QED
  BY <1>1, <1>2, <1>4, <1>9, <1>10, <1>11, OwnStep DEF RequestInv

\* What the handler that reads r knows.
LEMMA Reading ==
  ASSUME UInv, NEW r \in Request, req[r].pc = "read"
  PROVE  /\ UTypeOK /\ RequestInv(r)
         /\ jobs[r] = <<>>
         /\ Position(r) \in Nat \ {0} /\ Position(r) = Len(req[r].specs) + 1
         /\ Len(req[r].docs) \in 1..MaxFiles
         /\ Position(r) <= Len(req[r].docs)
         /\ req[r].docs[Position(r)] \in Document
         /\ DOMAIN req[r].specs = 1..(Position(r) - 1)
         /\ \A k \in DOMAIN req[r].specs : Staged(r, k)
         /\ \A p \in disk : p[1] = r => p[2] <= Position(r)
         /\ OnDisk(r, Position(r), req[r].got)
         /\ req[r].got \in Nat
         /\ req[r].got <= req[r].docs[Position(r)].size
<1>1. UTypeOK /\ RequestInv(r) /\ jobs[r] = <<>>
  BY DEF UInv, RequestInv, JobIsStaged
<1>2. /\ Position(r) \in Nat \ {0} /\ Position(r) = Len(req[r].specs) + 1
      /\ Len(req[r].specs) < Len(req[r].docs)
      /\ Len(req[r].docs) \in 1..MaxFiles
      /\ Len(req[r].docs) \in Nat
      /\ OnDisk(r, Position(r), req[r].got)
      /\ req[r].got \in Nat
      /\ req[r].got <= req[r].docs[Position(r)].size
  BY <1>1, RequestTyped DEF RequestInv, HoldsStaged, ReadsNext, Position
<1>3. /\ DOMAIN req[r].specs = 1..(Position(r) - 1)
      /\ Position(r) <= Len(req[r].docs)
  BY <1>1, <1>2, RequestTyped
<1>4. req[r].docs[Position(r)] \in Document
  BY <1>1, <1>2, <1>3, RequestTyped
<1>5. /\ \A k \in DOMAIN req[r].specs : Staged(r, k)
      /\ \A p \in disk : p[1] = r =>
           p[2] \in DOMAIN req[r].specs \/ p[2] = Position(r)
  BY <1>1 DEF RequestInv, HoldsStaged
<1>6. \A p \in disk : p[1] = r => p[2] <= Position(r)
  BY <1>2, <1>3, <1>5
<1> QED
  BY <1>1, <1>2, <1>3, <1>4, <1>5, <1>6

\* One more chunk, or the rejection of a file that is too big.
LEMMA ReadKeeps ==
  ASSUME UInv, NEW r \in Request, Read(r)
  PROVE  UInv'
<1> DEFINE i == Position(r)
           g == req[r].got
           n == req[r].got + NextChunk(r)
<1>1. req[r].pc = "read" /\ Left(r) > 0
  BY DEF Read
<1>2. CASE Rejects(r, i)
  BY <1>1, <1>2, Reading, RejectionKeeps
<1>3. ASSUME n <= MaxFileSize,
             req' = [req EXCEPT ![r].got = n],
             disk' = (disk \ {<<r, i, g>>}) \cup {<<r, i, n>>},
             UNCHANGED <<jobs, sent, errors>>
      PROVE  UInv'
  <2>1. n \in Nat /\ n <= req[r].docs[i].size
    <3>1. /\ Left(r) \in Nat /\ g \in Nat
          /\ Left(r) = req[r].docs[i].size - g
          /\ req[r].docs[i].size \in Nat
      BY <1>1, Reading DEF Left, Document
    <3>2. NextChunk(r) \in Nat /\ NextChunk(r) <= Left(r)
      BY <3>1, UploadAssumption DEF NextChunk
    <3> QED
      BY <3>1, <3>2
  <2> HIDE DEF n
  <2>2. /\ req' \in [Request -> Handler]
        /\ req'[r].pc = "read" /\ req'[r].docs = req[r].docs
        /\ req'[r].target = req[r].target
        /\ req'[r].specs = req[r].specs /\ req'[r].got = n
        /\ \A s \in Request \ {r} : req'[s] = req[s]
    <3>1. UTypeOK /\ req[r] \in Handler
      BY <1>1, Reading, RequestTyped
    <3>2. [req[r] EXCEPT !.got = n] \in Handler
      BY <2>1, <3>1 DEF Handler
    <3> QED
      BY <1>1, <1>3, <3>1, <3>2 DEF UTypeOK, Handler
  <2>3. UTypeOK /\ i \in Nat \ {0} /\ Position(r)' = i
    BY <1>1, <2>2, Reading DEF Position
  <2>4. UTypeOK'
    BY <1>3, <2>1, <2>2, <2>3 DEF UTypeOK
  <2>5. {p \in disk' : p[1] = r /\ p[2] = i} = {<<r, i, n>>}
    <3>1. {p \in disk : p[1] = r /\ p[2] = i} = {<<r, i, g>>}
      BY <1>1, Reading DEF OnDisk
    <3> QED
      BY <1>3, <3>1
  <2>6. ASSUME NEW k \in DOMAIN req[r].specs
        PROVE  Staged(r, k)'
    <3>1. k # i /\ Staged(r, k)
      BY <1>1, Reading
    <3>2. OnDisk(r, k, req[r].docs[k].size)'
      BY <1>3, <3>1 DEF Staged, OnDisk
    <3> QED
      BY <2>2, <3>1, <3>2 DEF Staged
  <2>7. HoldsStaged(r)'
    <3>1. \A p \in disk' : p[1] = r =>
            p[2] \in DOMAIN req'[r].specs \/ p[2] = i
      BY <1>1, <1>3, <2>2, Reading DEF RequestInv, HoldsStaged
    <3>2. /\ Len(req'[r].docs) \in 1..MaxFiles
          /\ Len(req'[r].specs) <= Len(req'[r].docs)
      BY <1>1, <2>2, Reading DEF RequestInv, HoldsStaged
    <3> QED
      BY <2>2, <2>3, <2>6, <3>1, <3>2 DEF HoldsStaged
  <2>8. ReadsNext(r)'
    <3>1. Len(req'[r].specs) < Len(req'[r].docs)
      BY <1>1, <2>2, Reading DEF RequestInv, ReadsNext
    <3> QED
      BY <2>1, <2>2, <2>3, <2>5, <3>1 DEF ReadsNext, OnDisk
  <2>9. JobIsStaged(r)' /\ HoldsNothing(r)'
    BY <1>1, <1>3, <2>2, Reading DEF JobIsStaged, HoldsNothing
  <2>10. /\ \A s \in Request \ {r} : req'[s] = req[s] /\ jobs'[s] = jobs[s]
         /\ \A p : p[1] # r => (p \in disk' <=> p \in disk)
    BY <1>3, <2>2
  <2> QED
    BY <2>4, <2>7, <2>8, <2>9, <2>10, OwnStep DEF RequestInv
<1> QED
  BY <1>2, <1>3 DEF Read

\* A file that is accepted is staged as it was sent; one that is not goes with
\* all the others.
LEMMA EndOfFileKeeps ==
  ASSUME UInv, NEW r \in Request, EndOfFile(r)
  PROVE  UInv'
<1> DEFINE i == Position(r)
           d == req[r].docs[i]
           pc == IF i = Len(req[r].docs) THEN "persist" ELSE "open"
           specs == Append(req[r].specs, req[r].got)
<1>1. req[r].pc = "read" /\ Left(r) = 0
  BY DEF EndOfFile
<1>2. CASE Rejects(r, i)
  BY <1>1, <1>2, Reading, RejectionKeeps
<1>3. ASSUME Accepts(r),
             req' = [req EXCEPT ![r].specs = specs, ![r].pc = pc],
             UNCHANGED <<disk, jobs, sent, errors>>
      PROVE  UInv'
  <2>1. /\ d \in Document /\ d.size \in Nat /\ req[r].got = d.size
        /\ d.size \in 1..MaxFileSize
        /\ d.ext \in IF req[r].target = "markdown" THEN AllowedExtensions
                                                   ELSE ExportExtensions
    <3>1. d \in Document /\ d.size \in Nat /\ req[r].got \in Nat
      BY <1>1, Reading DEF Document
    <3>2. req[r].got = d.size
      BY <1>1, <3>1 DEF Left
    <3> QED
      BY <1>3, <3>1, <3>2, ValidFits, UploadAssumption DEF Accepts
  <2>2. /\ UTypeOK /\ req[r].specs \in Seq(Nat) /\ req[r].got \in Nat
        /\ i \in Nat \ {0} /\ i = Len(req[r].specs) + 1
        /\ i <= Len(req[r].docs) /\ Len(req[r].docs) \in 1..MaxFiles
        /\ Len(req[r].docs) \in Nat /\ Len(req[r].specs) \in Nat
    BY <1>1, Reading, RequestTyped
  <2>3. /\ specs \in Seq(Nat) /\ Len(specs) = i
        /\ specs[i] = req[r].got
        /\ \A k \in DOMAIN req[r].specs : specs[k] = req[r].specs[k]
        /\ DOMAIN specs = DOMAIN req[r].specs \cup {i}
        /\ i \notin DOMAIN req[r].specs
    <3> DEFINE old == req[r].specs
               g == req[r].got
    <3>1. old \in Seq(Nat) /\ g \in Nat /\ i = Len(old) + 1
      BY <2>2
    <3> HIDE DEF i, old, g
    <3>2. /\ Append(old, g) \in Seq(Nat) /\ Len(Append(old, g)) = i
          /\ Append(old, g)[i] = g
          /\ \A k \in 1..Len(old) : Append(old, g)[k] = old[k]
      BY <3>1
    <3>3. /\ DOMAIN old = 1..Len(old) /\ Len(old) \in Nat
          /\ DOMAIN Append(old, g) = 1..i
      BY <3>1, <3>2
    <3>4. 1..i = 1..Len(old) \cup {i} /\ i \notin 1..Len(old)
      BY <3>1, <3>3
    <3> QED
      BY <3>2, <3>3, <3>4 DEF old, g
  <2>4. /\ pc \in {"open", "persist"}
        /\ pc = "open" => i < Len(req[r].docs)
        /\ pc = "persist" => i = Len(req[r].docs)
    BY <2>2
  <2> HIDE DEF pc, specs
  <2>5. /\ req' \in [Request -> Handler]
        /\ req'[r].pc = pc /\ req'[r].docs = req[r].docs
        /\ req'[r].target = req[r].target
        /\ req'[r].specs = specs /\ req'[r].got = req[r].got
        /\ \A s \in Request \ {r} : req'[s] = req[s]
    <3>1. UTypeOK /\ req[r] \in Handler
      BY <1>1, Reading, RequestTyped
    <3>2. [[req[r] EXCEPT !.specs = specs] EXCEPT !.pc = pc] \in Handler
      BY <2>3, <2>4, <3>1 DEF Handler, Handling
    <3> QED
      BY <1>3, <3>1, <3>2 DEF UTypeOK, Handler
  <2>6. UTypeOK'
    BY <1>3, <2>2, <2>5 DEF UTypeOK
  <2>7. ASSUME NEW k \in DOMAIN specs
        PROVE  Staged(r, k)'
    <3>1. CASE k = i
      <4>1. OnDisk(r, k, d.size)
        BY <1>1, <2>1, <3>1, Reading
      <4> QED
        BY <1>3, <2>1, <2>3, <2>5, <3>1, <4>1 DEF Staged, OnDisk
    <3>2. CASE k # i
      <4>1. k \in DOMAIN req[r].specs
        BY <2>3, <3>2
      <4>2. Staged(r, k)
        BY <1>1, <4>1, Reading
      <4> QED
        BY <1>3, <2>3, <2>5, <4>1, <4>2 DEF Staged, OnDisk
    <3> QED
      BY <3>1, <3>2
  <2>8. HoldsStaged(r)'
    <3>1. \A p \in disk' : p[1] = r => p[2] \in DOMAIN specs
      BY <1>1, <1>3, <2>3, Reading DEF RequestInv, HoldsStaged
    <3>2. Len(specs) <= Len(req[r].docs)
      BY <2>2, <2>3
    <3> QED
      BY <2>2, <2>5, <2>7, <3>1, <3>2 DEF HoldsStaged
  <2>9. ReadsNext(r)'
    BY <2>3, <2>4, <2>5 DEF ReadsNext
  <2>10. jobs'[r] = <<>>
    BY <1>1, <1>3, Reading
  <2>11. JobIsStaged(r)' /\ HoldsNothing(r)'
    BY <2>4, <2>5, <2>10 DEF JobIsStaged, HoldsNothing
  <2>12. /\ \A s \in Request \ {r} : req'[s] = req[s] /\ jobs'[s] = jobs[s]
         /\ \A p : p[1] # r => (p \in disk' <=> p \in disk)
    BY <1>3, <2>5
  <2> QED
    BY <2>6, <2>8, <2>9, <2>11, <2>12, OwnStep DEF RequestInv
<1> QED
  BY <1>2, <1>3 DEF EndOfFile, Accepted

\* The job names what is staged, or nothing stays.
LEMMA PersistKeeps ==
  ASSUME UInv, NEW r \in Request, Persist(r)
  PROVE  UInv'
<1>1. /\ UTypeOK /\ RequestInv(r) /\ req[r].pc = "persist" /\ jobs[r] = <<>>
  BY DEF UInv, RequestInv, Persist, JobIsStaged
<1>2. /\ Len(req[r].docs) \in 1..MaxFiles
      /\ Len(req[r].specs) = Len(req[r].docs)
      /\ req[r].specs \in Seq(Nat)
      /\ \A k \in DOMAIN req[r].specs : Staged(r, k)
      /\ \A p \in disk : p[1] = r => p[2] \in DOMAIN req[r].specs
  BY <1>1, RequestTyped DEF RequestInv, HoldsStaged, ReadsNext
<1>3. CASE Rejects(r, Len(req[r].specs))
  <2>1. Len(req[r].specs) \in Nat
    BY <1>2
  <2>2. \A p \in disk : p[1] = r => p[2] <= Len(req[r].specs)
    BY <1>2
  <2> QED
    BY <1>1, <1>3, <2>1, <2>2, RejectionKeeps
<1>4. ASSUME Fits(req[r].specs),
             jobs' = [jobs EXCEPT ![r] = req[r].specs],
             GoTo(r, "dispatch"),
             UNCHANGED <<disk, sent, errors>>
      PROVE  UInv'
  <2>1. /\ req' \in [Request -> Handler]
        /\ req'[r].pc = "dispatch" /\ req'[r].docs = req[r].docs
        /\ req'[r].target = req[r].target
        /\ req'[r].specs = req[r].specs /\ req'[r].got = req[r].got
        /\ \A s \in Request \ {r} : req'[s] = req[s]
        /\ \A s \in Request : req'[s].got = req[s].got
    BY <1>1, <1>4, HandlerMoves DEF Handling
  <2>2. /\ jobs'[r] = req[r].specs
        /\ \A s \in Request \ {r} : jobs'[s] = jobs[s]
        /\ jobs' \in [Request -> Seq(Nat)]
    BY <1>1, <1>2, <1>4 DEF UTypeOK
  <2>3. UTypeOK'
    BY <1>1, <1>4, <2>1, <2>2 DEF UTypeOK
  <2>4. \A k \in DOMAIN req[r].specs : Staged(r, k)'
    BY <1>2, <1>4, <2>1 DEF Staged, OnDisk
  <2>5. HoldsStaged(r)'
    BY <1>2, <1>4, <2>1, <2>4 DEF HoldsStaged
  <2>6. ReadsNext(r)' /\ HoldsNothing(r)'
    BY <1>2, <2>1 DEF ReadsNext, HoldsNothing
  <2>7. req[r].specs # <<>>
    BY <1>2
  <2>8. JobIsStaged(r)'
    BY <1>2, <1>4, <2>1, <2>2, <2>7 DEF JobIsStaged, Fits
  <2> QED
    BY <1>4, <2>1, <2>2, <2>3, <2>5, <2>6, <2>8, OwnStep DEF RequestInv
<1> QED
  BY <1>3, <1>4 DEF Persist

\* A handler that has its job, or that breaks, leaves everything where it is.
LEMMA MovesOn ==
  ASSUME UInv, NEW r \in Request, RequestInv(r), NEW q \in Handler,
         req'[r] = q, q.docs = req[r].docs, q.specs = req[r].specs,
         q.target = req[r].target,
         \/ req[r].pc = "dispatch" /\ q.pc \in {"dispatch", "created"}
         \/ req[r].pc \in Handling /\ q.pc = "error",
         UNCHANGED <<disk, jobs>>
  PROVE  RequestInv(r)'
<1>1. \A k : Staged(r, k) => Staged(r, k)'
  BY DEF Staged, OnDisk
<1>2. HoldsStaged(r)'
  BY <1>1 DEF RequestInv, HoldsStaged, Handling
<1>3. ReadsNext(r)' /\ HoldsNothing(r)' /\ JobIsStaged(r)'
  BY DEF RequestInv, ReadsNext, HoldsNothing, JobIsStaged, Handling, Fits
<1> QED
  BY <1>2, <1>3 DEF RequestInv

LEMMA DispatchKeeps ==
  ASSUME UInv, NEW r \in Request, Dispatch(r) \/ Breaks(r)
  PROVE  UInv'
<1>1. UTypeOK /\ RequestInv(r) /\ req[r].pc \in Handling /\ req[r] \in Handler
  BY RequestTyped DEF UInv, RequestInv, Dispatch, Breaks, Handling
<1>2. ASSUME sent' = [sent EXCEPT ![r] = @ + 1],
             UNCHANGED <<req, disk, jobs, errors>>
      PROVE  UInv'
  <2>1. sent' \in [Request -> Nat]
    <3>1. sent \in [Request -> Nat] /\ sent[r] + 1 \in Nat
      BY <1>1 DEF UTypeOK
    <3> QED
      BY <1>2, <3>1
  <2>2. UTypeOK'
    BY <1>1, <1>2, <2>1 DEF UTypeOK
  <2>3. RequestInv(r)'
    BY <1>1, <1>2, OthersAreSpared
  <2> QED
    BY <1>2, <2>2, <2>3, OwnStep
<1>3. ASSUME NEW pc \in {"created", "error"}, GoTo(r, pc),
             pc = "created" => req[r].pc = "dispatch",
             errors' \in 0..MaxErrors, UNCHANGED <<disk, jobs, sent>>
      PROVE  UInv'
  <2>1. /\ req' \in [Request -> Handler]
        /\ req'[r].pc = pc /\ req'[r].docs = req[r].docs
        /\ req'[r].target = req[r].target
        /\ req'[r].specs = req[r].specs
        /\ \A s \in Request \ {r} : req'[s] = req[s]
        /\ \A s \in Request : req'[s].got = req[s].got
    BY <1>1, <1>3, HandlerMoves DEF Answered
  <2>2. UTypeOK'
    BY <1>1, <1>3, <2>1 DEF UTypeOK
  <2>3. req'[r] \in Handler
    BY <2>1
  <2>4. RequestInv(r)'
    BY <1>1, <1>3, <2>1, <2>3, MovesOn
  <2> QED
    BY <1>3, <2>1, <2>2, <2>4, OwnStep
<1>4. CASE Dispatch(r)
  <2>1. errors \in 0..MaxErrors
    BY <1>1 DEF UTypeOK
  <2>2. CASE /\ sent' = [sent EXCEPT ![r] = @ + 1]
             /\ UNCHANGED <<req, disk, jobs, errors>>
    BY <1>2, <2>2
  <2>3. CASE GoTo(r, "created") /\ UNCHANGED <<disk, jobs, sent, errors>>
    <3>1. errors' = errors /\ req[r].pc = "dispatch"
      BY <1>4, <2>3 DEF Dispatch
    <3> QED
      BY <1>3, <2>1, <2>3, <3>1
  <2> QED
    BY <1>4, <2>2, <2>3 DEF Dispatch
<1>5. CASE Breaks(r)
  <2>1. errors' \in 0..MaxErrors
    BY <1>1, <1>5, UploadAssumption DEF Breaks, UTypeOK
  <2> QED
    BY <1>3, <1>5, <2>1 DEF Breaks
<1> QED
  BY <1>4, <1>5

\* A crash breaks every handler at once.
LEMMA CrashKeeps ==
  ASSUME UInv, ApiDies
  PROVE  UInv'
<1>1. /\ UTypeOK /\ \A r \in Request : RequestInv(r) /\ req[r] \in Handler
      /\ errors < MaxErrors /\ errors' = errors + 1
      /\ req' = [r \in Request |-> IF req[r].pc \in Handling
                                   THEN [req[r] EXCEPT !.pc = "error"]
                                   ELSE req[r]]
      /\ UNCHANGED <<disk, jobs, sent>>
  BY RequestTyped DEF UInv, RequestInv, ApiDies
<1>2. ASSUME NEW r \in Request
      PROVE  /\ req'[r] \in Handler /\ req'[r].got = req[r].got
             /\ RequestInv(r)'
  <2>1. CASE req[r].pc \in Handling
    <3>1. req'[r] = [req[r] EXCEPT !.pc = "error"]
      BY <1>1, <2>1
    <3>2. /\ req'[r] \in Handler /\ req'[r].pc = "error"
          /\ req'[r].docs = req[r].docs /\ req'[r].specs = req[r].specs
          /\ req'[r].target = req[r].target /\ req'[r].got = req[r].got
      BY <1>1, <3>1 DEF Handler, Answered
    <3> QED
      BY <1>1, <2>1, <3>2, MovesOn
  <2>2. CASE req[r].pc \notin Handling
    <3>1. req'[r] = req[r]
      BY <1>1, <2>2
    <3> QED
      BY <1>1, <3>1, OthersAreSpared
  <2> QED
    BY <2>1, <2>2
<1>3. req' \in [Request -> Handler]
  BY <1>1, <1>2
<1>4. errors' \in 0..MaxErrors
  BY <1>1, UploadAssumption DEF UTypeOK
<1>5. UTypeOK'
  BY <1>1, <1>2, <1>3, <1>4 DEF UTypeOK
<1> QED
  BY <1>2, <1>5 DEF UInv, RequestInv

\* Before the first request.
LEMMA UploadInitially == UInit => UInv
<1> SUFFICES ASSUME UInit PROVE UInv
  OBVIOUS
<1>1. ASSUME NEW r \in Request
      PROVE  /\ req[r] \in Handler /\ req[r].pc = "none" /\ req[r].got = 0
             /\ req[r].specs = <<>>
  <2> DEFINE New == [pc : {"none"}, target : Target, docs : Payload,
                     specs : {<<>>}, got : {0}]
  <2>1. req[r] \in New
    BY DEF UInit
  <2>2. PICK t \in Target, d \in Payload :
          req[r] = [pc |-> "none", target |-> t, docs |-> d, specs |-> <<>>,
                    got |-> 0]
    BY <2>1
  <2>3. <<>> \in Seq(Nat)
    OBVIOUS
  <2> HIDE DEF New
  <2>4. req[r] \in Handler
    BY <2>2, <2>3 DEF Handler
  <2> QED
    BY <2>2, <2>4
<1>2. req \in [Request -> Handler]
  BY <1>1 DEF UInit
<1>3. <<>> \in Seq(Nat)
  OBVIOUS
<1>4. UTypeOK
  BY <1>1, <1>2, <1>3, UploadAssumption DEF UInit, UTypeOK
<1>5. ASSUME NEW r \in Request
      PROVE  RequestInv(r)
  BY <1>1 DEF UInit, RequestInv, HoldsStaged, HoldsNothing, ReadsNext,
              JobIsStaged
<1> QED
  BY <1>4, <1>5 DEF UInv, RequestInv

LEMMA UploadStep == UInv /\ [UNext]_uvars => UInv'
<1> SUFFICES ASSUME UInv, [UNext]_uvars PROVE UInv'
  OBVIOUS
<1>1. ASSUME NEW r \in Request, Arrive(r) \/ HandlerStep(r) \/ Breaks(r)
      PROVE  UInv'
  BY <1>1, ArriveKeeps, OpenKeeps, ReadKeeps, EndOfFileKeeps, PersistKeeps,
     DispatchKeeps DEF HandlerStep
<1>2. CASE ApiDies
  BY <1>2, CrashKeeps
<1>3. CASE UNCHANGED uvars
  <2>1. /\ UNCHANGED <<req, disk, jobs, sent, errors>> /\ UTypeOK
        /\ \A r \in Request : RequestInv(r)
    BY <1>3 DEF uvars, UInv, RequestInv
  <2>2. UTypeOK'
    BY <2>1 DEF UTypeOK
  <2>3. \A r \in Request : RequestInv(r)'
    BY <2>1, OthersAreSpared
  <2> QED
    BY <2>2, <2>3 DEF UInv, RequestInv
<1> QED
  BY <1>1, <1>2, <1>3 DEF UNext

\* What a handler holds is what is on disk, at every step of every request.
THEOREM HandlersHoldTheDisk == USpec => []UInv
BY UploadInitially, UploadStep, PTL DEF USpec

\* A rejected request leaves nothing staged, whichever upload it was rejected
\* for and whatever others stage meanwhile; only an error leaves files no row
\* names.
THEOREM NothingStaysStaged == USpec => []StagedIsAccountedFor
<1>1. UInv => StagedIsAccountedFor
  <2> SUFFICES ASSUME UInv, NEW p \in disk,
                      req[p[1]].pc \notin Handling \cup {"error"}
               PROVE  jobs[p[1]] # <<>> /\ p[2] \in DOMAIN jobs[p[1]]
    BY DEF StagedIsAccountedFor
  <2> DEFINE r == p[1]
  <2>1. UTypeOK /\ r \in Request
    BY DEF UInv, UTypeOK
  <2>2. req[r].pc = "created"
    BY <2>1, RequestTyped DEF UInv, HoldsNothing, Handler, Answered
  <2> QED
    BY <2>1, <2>2 DEF UInv, HoldsStaged, JobIsStaged
<1> QED
  BY <1>1, HandlersHoldTheDisk, PTL

\* A job is created with the documents of its request, all of them, entire, of
\* the right kind and within the limits.
THEOREM JobsFit == USpec => []AcceptedJobsFit
<1>1. UInv => AcceptedJobsFit
  <2> SUFFICES ASSUME UInv, NEW r \in Request, jobs[r] # <<>>
               PROVE  /\ Len(jobs[r]) = Len(req[r].docs)
                      /\ Len(jobs[r]) <= MaxFiles
                      /\ SizeOf(jobs[r]) <= MaxJobSize
                      /\ \A i \in DOMAIN jobs[r] : Staged(r, i)
    BY DEF AcceptedJobsFit, Staged, OnDisk, UInv, JobIsStaged
  <2>1. /\ req[r].pc \in {"dispatch", "created", "error"}
        /\ jobs[r] = req[r].specs /\ Fits(jobs[r])
        /\ Len(jobs[r]) = Len(req[r].docs)
        /\ Len(req[r].docs) \in 1..MaxFiles
        /\ \A i \in DOMAIN req[r].specs : Staged(r, i)
    BY DEF UInv, JobIsStaged, HoldsStaged
  <2>2. SizeOf(jobs[r]) <= MaxJobSize
    BY <2>1 DEF Fits
  <2> QED
    BY <2>1, <2>2, UploadAssumption
<1> QED
  BY <1>1, HandlersHoldTheDisk, PTL

=============================================================================
