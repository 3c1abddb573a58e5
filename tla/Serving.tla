------------------------------ MODULE Serving ------------------------------
(***************************************************************************)
(* What a browser tab sees of the tables and the disk while others change  *)
(* them: the read routes (list, job, content, download, zip), DELETE, and  *)
(* the hook the tab holds: "job" polls GET /jobs/{id}, "jobs" the newest   *)
(* ones, "history" pages through all, "blob" fetches a PDF to embed it.    *)
(* The handlers are synchronous on one event loop: each is one step, its   *)
(* reply on the way for as long as it likes.  (A handler reads in several  *)
(* SELECTs, and a worker, another process, can commit between them: that   *)
(* is RowLocks' View.)  Each hook lives in a tab of its own; they share    *)
(* nothing but the server.                                                 *)
(***************************************************************************)
EXTENDS JobRows, SequencesExt

CONSTANTS
  ExportJob,      \* jobs whose target_format is not markdown
  Stem,           \* File -> original_filename without extension, sanitised:
                  \* tokens, a number among them stands for "-" and itself
  Tampered,       \* files whose stored output_path leaves data_dir
  Fragile,        \* bound: files whose output something else may remove
  Limit,          \* useJobs(10)
  PageSize,       \* PAGE_SIZE of the history
  Starts,         \* bound: deliveries of conversion tasks, first or repeated
  Selections      \* bound: files the reader selects for the preview

ASSUME ServingAssumption ==
  /\ ExportJob \subseteq Job
  /\ Tampered \subseteq File /\ Fragile \subseteq File
  /\ Stem \in [File -> Seq(Nat)]
  /\ Limit \in 1..100 /\ PageSize \in 1..100
  /\ Starts \in Nat /\ Selections \in Nat

VARIABLES
  createdAt,  \* jobs.created_at, of the jobs ever created; 0 for the others
  disk,       \* outputs under data_dir: <<file, run>>
  starts,     \* deliveries so far
  again,      \* jobs of which a file got a second delivery after its verdict
  wiped,      \* files whose output something else removed
  hook, page, \* what the tab holds, and for which job ("job", "blob")
  shown,      \* the data of the query, pages of the history concatenated
  pages,      \* how many replies `shown' holds; 0: no data
  reply,      \* the request of the query
  closing,    \* jobs whose DELETE the tab has sent, reply on the way
  told,       \* jobs whose deletion the tab has handled (onSuccess)
  before,     \* when the first page of the history was read: jobs there, gone
  preview,    \* the effect of useFileBlobUrl: its current run and its state
  fetches     \* downloads the effect's runs have under way

server == <<jobs, files, created, createdAt, disk, starts, again, wiped>>
query  == <<shown, pages, reply, before>>
delete == <<closing, told>>
blob   == <<preview, fetches>>
svars  == <<server, hook, page, query, delete, blob>>

Hook == {"job", "jobs", "history", "blob"}
There == {j \in Job : JobExists(j)}

(***************************************************************************)
(* The read routes                                                         *)
(***************************************************************************)
Path(f) == <<f, files[f].output>>
Ready(j) == {f \in FilesOf(j) : files[f].output # 0}

\* GET /jobs/{id}: the job and its files, as of one moment.
JobRead(j) == [id |-> j, status |-> jobs[j].status, ready |-> Ready(j)]

\* ORDER BY created_at DESC: the place of a job among those there are now.
Rank(j) == Cardinality({k \in There : createdAt[k] >= createdAt[j]})

\* Mutated form: the limit is dropped.
ListJobsUnlimited(limit, offset) ==
  [i \in 1..(Cardinality(There) - offset) |->
     JobRead(CHOOSE j \in There : Rank(j) = offset + i)]

\* list_jobs: newest first, LIMIT and OFFSET.
ListJobs(limit, offset) ==
  [i \in 1..Min({limit, Cardinality(There) - offset}) |->
     JobRead(CHOOSE j \in There : Rank(j) = offset + i)]

\* GET /files/{id}/download, and /content with its 415 for exports.
Download(f) == CASE ~FileExists(f)         -> 404
                 [] files[f].output = 0    -> 409
                 [] f \in Tampered         -> 400
                 [] Path(f) \notin disk    -> 404
                 [] OTHER                  -> 200
Content(f) ==
  IF FileExists(f) /\ files[f].output # 0 /\ JobOf[f] \in ExportJob
    THEN 415 ELSE Download(f)

\* GET /jobs/{id}/download: the files it packs, and the answer.
Packed(j) == {f \in Ready(j) : Download(f) = 200}
ZipStatus(j) == CASE ~JobExists(j)  -> 404
                  [] Ready(j) = {}  -> 409
                  [] Packed(j) = {} -> 404
                  [] OTHER          -> 200

\* The n-th candidate for the name of an entry: stem, stem-2, stem-3, ...
EntryName(stem, n) == IF n = 1 THEN stem ELSE Append(stem, n)

\* Mutated form: an `if' where the code has a `while'.
NamedOnce(names, f) ==
  Append(names, EntryName(Stem[f], IF Stem[f] \in ToSet(names) THEN 2 ELSE 1))

\* The first candidate no earlier entry has.
Named(names, f) ==
  LET Free(n) == EntryName(Stem[f], n) \notin ToSet(names)
      first   == CHOOSE n \in 1..(Len(names) + 1) :
                   Free(n) /\ \A m \in 1..(n - 1) : ~Free(m)
  IN  Append(names, EntryName(Stem[f], first))
EntryNames(order) ==
  LET names[k \in 0..Len(order)] ==
        IF k = 0 THEN <<>> ELSE Named(names[k - 1], order[k])
  IN  names[Len(order)]

(***************************************************************************)
(* The server moves: uploads, tasks, deletions, a file lost on disk        *)
(***************************************************************************)
Tab == <<hook, page, query, delete, blob>>

Create(j) == /\ InsertJob(j)
             /\ createdAt' = [createdAt EXCEPT ![j] = Cardinality(created) + 1]
             /\ UNCHANGED <<disk, starts, again, wiped>>

\* A delivery after the verdict is a repeated one.
Delivered(f) ==
  /\ starts < Starts
  /\ starts' = starts + 1
  /\ again' = IF files[f].status \in FinalFile THEN again \cup {JobOf[f]}
                                               ELSE again

Start(f) == /\ FileExists(f)
            /\ files[f].status # "processing"
            /\ Delivered(f)
            /\ StartFile(f)
            /\ UNCHANGED <<created, createdAt, disk, wiped>>

\* The verdict of a started file, or the second one of a file that two tasks
\* had started before the first verdict.
Verdicts(f) ==
  \/ files[f].status = "processing" /\ UNCHANGED <<starts, again>>
  \/ files[f].status \in FinalFile /\ Delivered(f)

Finish(f) ==
  /\ FileExists(f)
  /\ Verdicts(f)
  /\ LET n == files[f].output + 1 IN
       disk' = disk \cup {<<f, n>>} /\ CompleteFile(f, n)
  /\ UNCHANGED <<created, createdAt, wiped>>

\* Mutated form: a failing run removes the output the row still names.
FailTidily(f) ==
  /\ FileExists(f)
  /\ Verdicts(f)
  /\ FailFile(f)
  /\ disk' = disk \ {Path(f)}
  /\ UNCHANGED <<created, createdAt, wiped>>

Fail(f) == /\ FileExists(f)
           /\ Verdicts(f)
           /\ FailFile(f)
           /\ UNCHANGED <<created, createdAt, disk, wiped>>

\* delete_job_route: the rows, then the outputs they named.
Delete(j) ==
  /\ RemoveJob(j)
  /\ disk' = disk \ {Path(f) : f \in FilesOf(j) \ Tampered}
  /\ UNCHANGED <<createdAt, starts, again, wiped>>

\* Not by this program: the zip route counts with dead files (jobs.py 313).
Wipe(f) == /\ f \in Fragile
           /\ Path(f) \in disk
           /\ disk' = disk \ {Path(f)}
           /\ wiped' = wiped \cup {f}
           /\ UNCHANGED <<rows, createdAt, starts, again>>

ServerNext == /\ \/ \E j \in Job : Create(j) \/ Delete(j)
                 \/ \E f \in File : Start(f) \/ Finish(f) \/ Fail(f) \/ Wipe(f)
              /\ UNCHANGED Tab

(***************************************************************************)
(* The query of the tab (TanStack Query; retry: 1 is part of Lost)         *)
(***************************************************************************)
Idle == [at |-> "idle", ok |-> TRUE, jobs |-> <<>>]
Answered(list) == [at |-> "flying", ok |-> TRUE, jobs |-> list]
NotFound       == [at |-> "flying", ok |-> FALSE, jobs |-> <<>>]

\* Mutated form: a pending job counts as settled.
ActiveStatusesProcessing == {"processing"}
ACTIVE_STATUSES == {"pending", "processing"}

\* refetchInterval: no data yet, or something in it still active.
Refetches ==
  pages = 0 \/ \E i \in DOMAIN shown : shown[i].status \in ACTIVE_STATUSES

Poll ==
  /\ reply.at # "flying"
  /\ Refetches
  /\ \/ hook = "jobs" /\ reply' = Answered(ListJobs(Limit, 0))
     \/ hook = "job" /\ reply' = IF JobExists(page)
                                   THEN Answered(<<JobRead(page)>>)
                                   ELSE NotFound
  /\ UNCHANGED <<server, hook, page, shown, pages, before, delete, blob>>

\* getNextPageParam: none after a page that is not full.
HasNextPage == pages = 0 \/ Len(shown) = pages * PageSize

\* Mutated form: one too far.
NextOffsetPast == pages * PageSize + (IF pages > 0 THEN 1 ELSE 0)
NextOffset     == pages * PageSize

LoadMore ==
  /\ hook = "history"
  /\ reply.at # "flying"
  /\ HasNextPage
  /\ reply' = Answered(ListJobs(PageSize, NextOffset))
  /\ before' = IF pages = 0 THEN [there |-> There, gone |-> created \ There]
                            ELSE before
  /\ UNCHANGED <<server, hook, page, shown, pages, delete, blob>>

\* A reply that is not ok leaves the data and puts the query in error.
Arrive ==
  /\ reply.at = "flying"
  /\ IF reply.ok
       THEN /\ shown' = IF hook = "history" THEN shown \o reply.jobs
                                            ELSE reply.jobs
            /\ pages' = IF hook = "history" THEN pages + 1 ELSE 1
       ELSE UNCHANGED <<shown, pages>>
  /\ reply' = IF reply.ok THEN Idle ELSE [Idle EXCEPT !.at = "failed"]
  /\ UNCHANGED <<server, hook, page, before, delete, blob>>

Lost == /\ reply.at = "flying"
        /\ reply' = [Idle EXCEPT !.at = "failed"]
        /\ UNCHANGED <<server, hook, page, shown, pages, before, delete, blob>>

(***************************************************************************)
(* DeleteJobDialog on a card or on the page of the job                     *)
(***************************************************************************)
OnScreen == {shown[i].id : i \in DOMAIN shown}

\* A 404 (someone else was faster) ends in a toast: nothing changes.  In the
\* history nothing follows either: there it is a Delete like anyone's.
Confirm(j) == /\ hook \in {"job", "jobs"}
              /\ closing = {}
              /\ j \in OnScreen
              /\ Delete(j)
              /\ closing' = {j}
              /\ UNCHANGED <<hook, page, query, told, blob>>

\* Mutated form: the refetch joins the request that is under way.
DeletedJoining ==
  /\ closing # {}
  /\ closing' = {}
  /\ told' = told \cup closing
  /\ reply' = IF reply.at = "flying" THEN reply
              ELSE IF hook = "jobs" THEN Answered(ListJobs(Limit, 0))
                                    ELSE NotFound
  /\ UNCHANGED <<server, hook, page, shown, pages, before, blob>>

\* onSuccess invalidates ['jobs'] and ['job', id], not ['history'].  An active
\* query drops the request it has under way and asks again; for a job that is
\* gone, and whose page will be left.
Deleted ==
  /\ closing # {}
  /\ closing' = {}
  /\ told' = told \cup closing
  /\ reply' = IF hook = "jobs" THEN Answered(ListJobs(Limit, 0)) ELSE NotFound
  /\ UNCHANGED <<server, hook, page, shown, pages, before, blob>>

\* onError: a toast.
DeleteLost == /\ closing # {}
              /\ closing' = {}
              /\ UNCHANGED <<server, hook, page, query, told, blob>>

(***************************************************************************)
(* useFileBlobUrl: run n of the effect owns fetch n and object URL n       *)
(***************************************************************************)
NoPreview == [run |-> 0, runs |-> 0, file |-> "none", url |-> 0,
              live |-> {}, isError |-> FALSE, lost |-> {}, listed |-> {}]

\* The reader selects a file the page lists as ready, by what it last read of
\* the job; the cleanup of the run before, then the next run.
Select(f) ==
  LET n == preview.runs + 1 IN
  /\ hook = "blob" /\ f \in Ready(page) \cup preview.listed
  /\ f # preview.file
  /\ n <= Selections
  /\ preview' = [preview EXCEPT
       !.run = n, !.runs = n, !.file = f, !.url = 0,
       !.live = @ \ {preview.run}, !.isError = FALSE,
       !.listed = @ \cup Ready(page)]
  /\ fetches' = fetches \cup
       {[run |-> n, ok |-> Download(f) = 200, path |-> Path(f)]}
  /\ UNCHANGED <<server, hook, page, query, delete>>

Unmount ==
  /\ preview.run # 0
  /\ preview' = [preview EXCEPT !.run = 0, !.file = "none", !.url = 0,
                                !.live = @ \ {preview.run}, !.isError = FALSE]
  /\ UNCHANGED <<server, hook, page, query, delete, fetches>>

\* Mutated form: the run that asked may be over.
FetchedUncancelled(q) ==
  /\ preview' = IF q.ok /\ q.path \in disk
                  THEN [preview EXCEPT !.url = q.run, !.live = @ \cup {q.run}]
                  ELSE [preview EXCEPT !.isError = TRUE]
  /\ fetches' = fetches \ {q}
  /\ UNCHANGED <<server, hook, page, query, delete>>

\* FileResponse opens the file after the handler has returned: a 500 if it
\* is gone by then.  A cancelled run drops what it gets.
Fetched(q) ==
  /\ preview' = IF q.run # preview.run THEN preview
                ELSE IF q.ok /\ q.path \in disk
                  THEN [preview EXCEPT !.url = q.run, !.live = @ \cup {q.run}]
                  ELSE [preview EXCEPT !.isError = TRUE]
  /\ fetches' = fetches \ {q}
  /\ UNCHANGED <<server, hook, page, query, delete>>

\* The network fails the request, or breaks off the body: fetch or blob()
\* rejects.  The runs this happened to are kept in `lost'.
FetchLost(q) ==
  /\ preview' = [preview EXCEPT
       !.lost = @ \cup {q.run},
       !.isError = IF q.run = preview.run THEN TRUE ELSE @]
  /\ fetches' = fetches \ {q}
  /\ UNCHANGED <<server, hook, page, query, delete>>

TabNext == \/ Poll \/ LoadMore \/ Arrive \/ Lost
           \/ \E j \in Job : Confirm(j)
           \/ Deleted \/ DeleteLost
           \/ \E f \in File : Select(f)
           \/ Unmount
           \/ \E q \in fetches : Fetched(q) \/ FetchLost(q)

Init == /\ RowsInit
        /\ createdAt = [j \in Job |-> 0]
        /\ disk = {} /\ starts = 0 /\ again = {} /\ wiped = {}
        /\ \/ hook \in {"jobs", "history"} /\ page = "none"
           \/ hook = "job"  /\ page \in Job
           \/ hook = "blob" /\ page \in ExportJob
        /\ shown = <<>> /\ pages = 0 /\ reply = Idle
        /\ before = [there |-> {}, gone |-> {}]
        /\ closing = {} /\ told = {}
        /\ preview = NoPreview /\ fetches = {}

Next == ServerNext \/ TabNext

Spec == Init /\ [][Next]_svars

\* The timer of refetchInterval fires; a network that fails every time is not
\* considered.  Nobody has to upload, convert, delete or load more.
FairSpec == Spec /\ WF_reply(Poll) /\ SF_reply(Arrive)

(***************************************************************************)
(* Properties                                                              *)
(***************************************************************************)
Ids(list) == {list[i].id : i \in DOMAIN list}
Read == [id : Job, status : JobStatus, ready : SUBSET File]

\* Every variable has its type, no two jobs were created at one time, and a
\* reply is never longer than was asked for (ListJobs clamps to its limit).
SvTypeOK ==
  /\ RowsTypeOK
  /\ createdAt \in [Job -> Nat]
  /\ \A j, k \in created : createdAt[j] = createdAt[k] => j = k
  /\ disk \subseteq File \X (1..Starts)
  /\ starts \in 0..Starts /\ again \subseteq Job /\ wiped \subseteq File
  /\ hook \in Hook /\ page \in Job \cup {"none"}
  /\ shown \in Seq(Read) /\ reply.jobs \in Seq(Read)
  /\ pages \in Nat /\ reply.at \in {"idle", "flying", "failed"}
  /\ CASE hook = "job"     -> Ids(shown) \subseteq {page}
       [] hook = "jobs"    -> Len(shown) <= Limit
       [] hook = "history" -> Len(shown) <= pages * PageSize
       [] hook = "blob"    -> shown = <<>>
  /\ closing \cup told \subseteq created

\* What a tab shows as converted can be had for as long as its job exists,
\* however old the reply is: a second delivery that starts, fails or succeeds
\* never takes a file back that a reader has seen (start_file and fail_file
\* leave output_path alone, a second output has a name of its own), and the
\* page asks /content only for what /content serves (job page, l.227).
SeenIsServable ==
  \A i \in DOMAIN shown : JobExists(shown[i].id) =>
    \A f \in shown[i].ready \ (Tampered \cup wiped) :
      /\ Download(f) = 200
      /\ JobOf[f] \notin ExportJob => Content(f) = 200

EntriesDiffer ==
  \A j \in Job : \A order \in SetToSeqs(FilesOf(j)) :
    IsInjective(EntryNames(order))

\* The archive of a job has an entry for every file it packs, under a name no
\* other entry has, whatever the files are called and in whatever order the
\* rows come (of two entries of one name unpacking keeps one; the names of the
\* first k files are the first k names, so it is enough to pack all); and a tab
\* that shows a converted file can have the archive, of all files but those
\* that cannot be served (jobs.py 313-331).
ArchiveIsWhole ==
  /\ EntriesDiffer
  /\ \A i \in DOMAIN shown :
       /\ JobExists(shown[i].id)
       /\ ~(shown[i].ready \subseteq Tampered \cup wiped)
       => ZipStatus(shown[i].id) = 200

\* When polling has stopped at a terminal status, what the tab shows of the
\* job is what the tables hold, unless the job is gone or one of its files was
\* delivered again: no verdict comes after the one that closed the job.
FinalViewHolds ==
  \A i \in DOMAIN shown :
    /\ shown[i].status \in TerminalJob
    /\ JobExists(shown[i].id)
    /\ shown[i].id \notin again
    => shown[i] = JobRead(shown[i].id)

\* Once a deletion has been confirmed on the dashboard, no older reply brings
\* the card back: it is on screen only until the refetch is answered, or after
\* that refetch has failed (delete-job-dialog.tsx 42).
GoneStaysGone ==
  hook = "jobs" =>
    /\ told \cap Ids(reply.jobs) = {}
    /\ told \cap Ids(shown) # {} => reply.at # "idle"

\* Paging by offset over a list that moves: a history that has come to its end
\* misses at most as many jobs as were deleted while it was read, and repeats
\* at most as many as were added (history/page.tsx 24-27).
HistoryErrsByWhatMoved ==
  LET gone  == created \ There
      added == created \ (before.there \cup before.gone)
  IN hook = "history" /\ pages > 0 /\ reply.at # "flying" =>
       /\ Len(shown) - Cardinality(Ids(shown)) <= Cardinality(added)
       /\ ~HasNextPage =>
            Cardinality((before.there \cap There) \ Ids(shown))
              <= Cardinality(gone \ before.gone)

\* The embedded PDF is the selected file's, no object URL outlives its run, and
\* an error is shown only if that file cannot be had or its own fetch was lost
\* on the way: nothing that becomes of an earlier selection's fetch changes what
\* is on screen (use-file-blob.ts 22-41).
PreviewIsSelected ==
  /\ preview.live \subseteq {preview.run} \ {0}
  /\ preview.url \in preview.live \cup {0}
  /\ preview.isError =>
       \/ ~JobExists(page)
       \/ preview.file \in Tampered \cup wiped
       \/ preview.run \in preview.lost

\* A job that is shown as active and no longer is does not stay so: the next
\* poll is always coming (use-job.ts 17-21, use-jobs.ts 14-19).  The page of a
\* job that is deleted meanwhile is the exception: a 404 leaves its data.
ShownActive(j) ==
  \E i \in DOMAIN shown :
    shown[i].id = j /\ shown[i].status \notin TerminalJob
Behind(j) == /\ ShownActive(j)
             /\ jobs[j].status \notin JobStatus \ TerminalJob
             /\ JobExists(j) \/ hook = "jobs"
PollingCatchesUp ==
  (hook # "history" /\ \E j \in Job : Behind(j)) ~> ~(\E j \in Job : Behind(j))

=============================================================================
