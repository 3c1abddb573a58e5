------------------------------- MODULE Upload -------------------------------
(***************************************************************************)
(* POST /jobs (routes/jobs.py, create_job_route): the uploads are staged   *)
(* on disk chunk by chunk and validated one after the other, then the job  *)
(* is persisted in one transaction and one task per file is published.     *)
(*                                                                         *)
(* A handler gives way to the others while it waits for the next chunk, so *)
(* several requests stage at the same time.  Between the last chunk and    *)
(* the response it does not wait; the steps below are finer than that.     *)
(***************************************************************************)
EXTENDS Validation, Integers, Sequences, SequencesExt

CONSTANTS
  Request,         \* POST requests
  Payload,         \* lists of documents a client may send
  Target,          \* values of target_format a client may send
  Chunk,           \* 1 MiB, the bytes one read returns at most
  MaxFileSize, MaxJobSize, MaxFiles,     \* the limits of Settings
  MaxErrors        \* bound on the errors and crashes of the environment

ASSUME UploadAssumption ==
  /\ Payload \subseteq Seq(Document)
  /\ Chunk \in Nat \ {0}
  /\ MaxFileSize \in Nat /\ MaxJobSize \in Nat /\ MaxFiles \in Nat
  /\ MaxErrors \in Nat

VARIABLES
  req,       \* per request: where its handler is and what it holds
  disk,      \* staged inputs <<request, position, bytes written>>
  jobs,      \* per request: size_bytes of the rows of its job, <<>> for no job
  sent,      \* per request: tasks published
  errors     \* errors so far

uvars == <<req, disk, jobs, sent, errors>>

(***************************************************************************)
(* "none" before the request and three answers after it: "created" (201),  *)
(* "rejected" (400) and "error" (500, or no answer from a process that     *)
(* died).  specs are the sizes of the files staged and accepted so far,    *)
(* got the bytes of the one being read.                                    *)
(***************************************************************************)
Answered == {"created", "rejected", "error"}
Handling == {"open", "read", "persist", "dispatch"}
Handler  == [pc : {"none"} \cup Handling \cup Answered, target : Target,
             docs : Payload, specs : Seq(Nat), got : Nat]

UInit ==
  /\ req \in [Request -> [pc : {"none"}, target : Target, docs : Payload,
                          specs : {<<>>}, got : {0}]]
  /\ disk = {}
  /\ jobs = [r \in Request |-> <<>>]
  /\ sent = [r \in Request |-> 0]
  /\ errors = 0

\* The position of the upload at hand, and what is left of it to read.
Position(r) == Len(req[r].specs) + 1
Left(r)     == req[r].docs[Position(r)].size - req[r].got
NextChunk(r) == IF Left(r) < Chunk THEN Left(r) ELSE Chunk

\* Staged files of r up to position n are unlinked.
Unlinked(r, n) == {p \in disk : p[1] = r => p[2] > n}

GoTo(r, pc)   == req' = [req EXCEPT ![r].pc = pc]
Rejects(r, n) == /\ GoTo(r, "rejected")
                 /\ disk' = Unlinked(r, n)
                 /\ UNCHANGED <<jobs, sent, errors>>

\* The checks before anything is staged.
Arrive(r) ==
  /\ req[r].pc = "none"
  /\ GoTo(r, IF /\ Len(req[r].docs) \in 1..MaxFiles
                /\ req[r].target \in OutputFormat THEN "open" ELSE "rejected")
  /\ UNCHANGED <<disk, jobs, sent, errors>>

\* _stash_upload: the file is created, ...
Open(r) ==
  /\ req[r].pc = "open"
  /\ disk' = disk \cup {<<r, Position(r), 0>>}
  /\ req' = [req EXCEPT ![r].pc = "read", ![r].got = 0]
  /\ UNCHANGED <<jobs, sent, errors>>

\* ... and written chunk by chunk.  One that grows too big is unlinked, and then
\* the files staged before it.
Read(r) ==
  LET i == Position(r)
      n == req[r].got + NextChunk(r)
  IN
  /\ req[r].pc = "read" /\ Left(r) > 0
  /\ \/ n > MaxFileSize /\ Rejects(r, i)
     \/ /\ n <= MaxFileSize
        /\ req' = [req EXCEPT ![r].got = n]
        /\ disk' = (disk \ {<<r, i, req[r].got>>}) \cup {<<r, i, n>>}
        /\ UNCHANGED <<jobs, sent, errors>>

Accepts(r) == Validate(req[r].docs[Position(r)], req[r].target, MaxFileSize)

\* The next upload, or the job.
Accepted(r) ==
  /\ req' = [req EXCEPT ![r].specs = Append(@, req[r].got),
                        ![r].pc = IF Position(r) = Len(req[r].docs)
                                  THEN "persist" ELSE "open"]
  /\ UNCHANGED <<disk, jobs, sent, errors>>

\* Mutated forms: the rejected file is not among the staged ones yet, and the
\* loop over the chunks does not end at an empty one.
EndOfFileUnstaged(r) ==
  /\ req[r].pc = "read" /\ Left(r) = 0
  /\ \/ ~Accepts(r) /\ Rejects(r, Position(r) - 1)
     \/ Accepts(r) /\ Accepted(r)
EndOfFileEndless(r) ==
  /\ req[r].pc = "read" /\ Left(r) = 0 /\ req[r].got > 0
  /\ \/ ~Accepts(r) /\ Rejects(r, Position(r))
     \/ Accepts(r) /\ Accepted(r)

\* The whole file is there: it is validated.
EndOfFile(r) ==
  /\ req[r].pc = "read" /\ Left(r) = 0
  /\ \/ ~Accepts(r) /\ Rejects(r, Position(r))
     \/ Accepts(r) /\ Accepted(r)

SizeOf(specs) == FoldLeft(+, 0, specs)

\* Mutated form: each file is compared with the limit of the batch.
FitsEach(specs) == \A i \in DOMAIN specs : specs[i] <= MaxJobSize

\* The limits of create_job.
Fits(specs) == Len(specs) <= MaxFiles /\ SizeOf(specs) <= MaxJobSize

\* create_job, in one transaction.
Persist(r) ==
  /\ req[r].pc = "persist"
  /\ \/ ~Fits(req[r].specs) /\ Rejects(r, Len(req[r].specs))
     \/ /\ Fits(req[r].specs)
        /\ jobs' = [jobs EXCEPT ![r] = req[r].specs]
        /\ GoTo(r, "dispatch")
        /\ UNCHANGED <<disk, sent, errors>>

\* convert_file_task.delay, once per row.
Dispatch(r) ==
  /\ req[r].pc = "dispatch"
  /\ \/ /\ sent[r] < Len(jobs[r])
        /\ sent' = [sent EXCEPT ![r] = @ + 1]
        /\ UNCHANGED <<req, disk, jobs, errors>>
     \/ /\ sent[r] = Len(jobs[r])
        /\ GoTo(r, "created")
        /\ UNCHANGED <<disk, jobs, sent, errors>>

(***************************************************************************)
(* What no except clause of the route names: the disk is full, the name is *)
(* too long, the database or the broker is away.  Nothing is cleaned up.   *)
(***************************************************************************)
Breaks(r) ==
  /\ req[r].pc \in Handling
  /\ errors < MaxErrors /\ errors' = errors + 1
  /\ GoTo(r, "error")
  /\ UNCHANGED <<disk, jobs, sent>>

\* The API process dies with every handler in it.
ApiDies ==
  /\ errors < MaxErrors /\ errors' = errors + 1
  /\ req' = [r \in Request |-> IF req[r].pc \in Handling
                               THEN [req[r] EXCEPT !.pc = "error"] ELSE req[r]]
  /\ UNCHANGED <<disk, jobs, sent>>

HandlerStep(r) == Open(r) \/ Read(r) \/ EndOfFile(r) \/ Persist(r) \/ Dispatch(r)

UNext == \/ \E r \in Request : Arrive(r) \/ HandlerStep(r) \/ Breaks(r)
         \/ ApiDies

USpec == UInit /\ [][UNext]_uvars

\* The event loop comes back to every handler.
UFairSpec == USpec /\ \A r \in Request : WF_uvars(HandlerStep(r))

(***************************************************************************)
(* Properties                                                              *)
(***************************************************************************)

UTypeOK ==
  /\ req \in [Request -> Handler]
  /\ \A r \in Request : req[r].got <= MaxFileSize
  /\ disk \subseteq Request \X Nat \X Nat
  /\ jobs \in [Request -> Seq(Nat)]
  /\ sent \in [Request -> Nat]
  /\ errors \in 0..MaxErrors

\* A staged input belongs to a row, to a request that is still handled, or to
\* one that broke on an error the route does not expect: whatever was staged
\* when a request is rejected, nothing of it stays.
StagedIsAccountedFor ==
  \A p \in disk : \/ jobs[p[1]] # <<>> /\ p[2] \in DOMAIN jobs[p[1]]
                  \/ req[p[1]].pc \in Handling \cup {"error"}

\* The rows of a job name inputs that are on disk, entire and as long as the
\* documents the client sent; each has an extension the direction
\* accepts and none is empty; and the job is within the three limits.
AcceptedJobsFit ==
  \A r \in Request : jobs[r] # <<>> =>
    /\ Len(jobs[r]) = Len(req[r].docs) /\ Len(jobs[r]) <= MaxFiles
    /\ SizeOf(jobs[r]) <= MaxJobSize
    /\ \A i \in DOMAIN jobs[r] :
         LET d == req[r].docs[i] IN
         /\ jobs[r][i] = d.size /\ d.size \in 1..MaxFileSize
         /\ {p \in disk : p[1] = r /\ p[2] = i} = {<<r, i, d.size>>}
         /\ d.ext \in IF req[r].target = "markdown" THEN AllowedExtensions
                                                    ELSE ExportExtensions

\* The inductive invariant behind the two: what the handler of r holds is what
\* is on disk, up to the file it is reading.
OnDisk(r, i, n) == {p \in disk : p[1] = r /\ p[2] = i} = {<<r, i, n>>}
Staged(r, i) ==
  LET d == req[r].docs[i] IN
  /\ req[r].specs[i] = d.size /\ d.size \in 1..MaxFileSize
  /\ OnDisk(r, i, d.size)
  /\ d.ext \in IF req[r].target = "markdown" THEN AllowedExtensions
                                             ELSE ExportExtensions
HoldsStaged(r) ==
  req[r].pc \notin {"none", "rejected"} =>
    /\ Len(req[r].docs) \in 1..MaxFiles
    /\ Len(req[r].specs) <= Len(req[r].docs)
    /\ \A i \in DOMAIN req[r].specs : Staged(r, i)
    /\ \A p \in disk : p[1] = r /\ req[r].pc # "error" =>
         \/ p[2] \in DOMAIN req[r].specs
         \/ req[r].pc = "read" /\ p[2] = Position(r)
HoldsNothing(r) ==
  req[r].pc \in {"none", "rejected"} => \A p \in disk : p[1] # r
ReadsNext(r) ==
  /\ req[r].pc = "none" => req[r].specs = <<>>
  /\ req[r].pc \in {"open", "read"} => Len(req[r].specs) < Len(req[r].docs)
  /\ req[r].pc = "read" => /\ OnDisk(r, Position(r), req[r].got)
                           /\ req[r].got <= req[r].docs[Position(r)].size
  /\ req[r].pc \in {"persist", "dispatch", "created"} =>
       Len(req[r].specs) = Len(req[r].docs)
JobIsStaged(r) ==
  /\ req[r].pc \in {"dispatch", "created"} => jobs[r] # <<>>
  /\ jobs[r] # <<>> => /\ req[r].pc \in {"dispatch", "created", "error"}
                       /\ jobs[r] = req[r].specs /\ Fits(jobs[r])
                       /\ Len(jobs[r]) = Len(req[r].docs)
UInv == /\ UTypeOK
        /\ \A r \in Request : HoldsStaged(r) /\ HoldsNothing(r) /\ ReadsNext(r)
                              /\ JobIsStaged(r)

\* Every request is answered, however its uploads are cut into chunks.
EveryRequestIsAnswered ==
  \A r \in Request : req[r].pc \in Handling ~> req[r].pc \in Answered

=============================================================================
