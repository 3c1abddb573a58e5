------------------------------- MODULE Media --------------------------------
(***************************************************************************)
(* The output directory of one job.  Each conversion extracts the images   *)
(* of its document into a folder of its own, <output>_media; the cleaner   *)
(* rewrites the references in the Markdown to media/<name>, and            *)
(* write_cleaned_markdown renames the folder to match (converters/base.py).*)
(* The documents of a job are converted at the same time, one of them      *)
(* perhaps twice, and there is one folder called media.                    *)
(***************************************************************************)
EXTENDS Naturals

CONSTANTS
  Doc,         \* documents of the job
  Name,        \* names of images
  Content,     \* what a document may be
  Run,         \* conversions of these documents
  DocOf,       \* the document of a conversion
  NoFolder     \* a folder that does not exist

\* A folder is the set of its images; an image is its document and its name.
Folder == SUBSET (Doc \X Name)

ASSUME MediaAssumption ==
  /\ Content \subseteq [pymupdf : BOOLEAN, images : SUBSET Name,
                        refs : SUBSET Name]
  /\ DocOf \in [Run -> Doc]
  /\ \A f \in Folder : f # NoFolder

VARIABLES
  docs,      \* per document: the converter of its kind (pymupdf or another),
             \* its images, and the names its Markdown refers to as media/<name>
  pc,        \* per conversion: where it is
  own,       \* per conversion: its folder <output>_media
  media      \* the folder called media

mvars == <<docs, pc, own, media>>

\* "done" returns a result, "failed" raises an error the task records as the
\* failure of the file, "blown" raises an OSError, which it does not handle.
Ended   == {"done", "failed", "blown"}
Running == {"extract", "check", "rename", "discard"}

MInit ==
  /\ docs \in [Doc -> Content]
  /\ pc = [r \in Run |-> "idle"]
  /\ own = [r \in Run |-> NoFolder]
  /\ media = NoFolder

OfDoc(r) == docs[DocOf[r]]
Extracted(d) == {d} \X docs[d].images
GoOn(r, step) == pc' = [pc EXCEPT ![r] = step]

\* Only the PyMuPDF converter makes the folder before there are images.
Begin(r) ==
  /\ pc[r] = "idle"
  /\ GoOn(r, "extract")
  /\ own' = [own EXCEPT ![r] = IF OfDoc(r).pymupdf THEN {} ELSE NoFolder]
  /\ UNCHANGED <<docs, media>>

\* The images are extracted, the Markdown is cleaned and written; there is
\* nothing to rename for a text that names no image.
Extract(r) ==
  /\ pc[r] = "extract"
  /\ own' = [own EXCEPT ![r] =
               IF OfDoc(r).images = {} THEN @ ELSE Extracted(DocOf[r])]
  /\ GoOn(r, IF OfDoc(r).refs = {} THEN "discard" ELSE "check")
  /\ UNCHANGED <<docs, media>>

\* The converter gives up, or its time is up: some images may be there.
ExtractFails(r) ==
  /\ pc[r] = "extract"
  /\ \E some \in {own[r]} \cup SUBSET Extracted(DocOf[r]) :
       own' = [own EXCEPT ![r] = some]
  /\ GoOn(r, "failed")
  /\ UNCHANGED <<docs, media>>

\* Mutated form: the test for media is the wrong way round.
CheckInverted(r) ==
  /\ pc[r] = "check"
  /\ GoOn(r, IF own[r] # NoFolder /\ media # NoFolder
             THEN "rename" ELSE "discard")
  /\ UNCHANGED <<docs, own, media>>

Check(r) ==
  /\ pc[r] = "check"
  /\ GoOn(r, IF own[r] # NoFolder /\ media = NoFolder
             THEN "rename" ELSE "discard")
  /\ UNCHANGED <<docs, own, media>>

\* Mutated form: a folder that is there is replaced.
RenameOver(r) ==
  /\ pc[r] = "rename"
  /\ media' = own[r]
  /\ own' = [own EXCEPT ![r] = NoFolder]
  /\ GoOn(r, "discard")
  /\ UNCHANGED docs

\* rename(2): a folder replaces an empty one; if there is something in it, or
\* nothing to rename, it is an OSError.
Rename(r) ==
  /\ pc[r] = "rename"
  /\ \/ /\ own[r] # NoFolder /\ media \in {NoFolder, {}}
        /\ media' = own[r]
        /\ own' = [own EXCEPT ![r] = NoFolder]
        /\ GoOn(r, "discard")
     \/ /\ own[r] = NoFolder \/ media \notin {NoFolder, {}}
        /\ GoOn(r, "blown")
        /\ UNCHANGED <<own, media>>
  /\ UNCHANGED docs

\* Mutated form: the folder goes, whatever is in it.
DiscardFull(r) ==
  /\ pc[r] = "discard"
  /\ own' = [own EXCEPT ![r] = IF OfDoc(r).pymupdf THEN NoFolder ELSE @]
  /\ GoOn(r, "done")
  /\ UNCHANGED <<docs, media>>

\* The PyMuPDF converter removes its folder if it is empty.
Discard(r) ==
  /\ pc[r] = "discard"
  /\ own' = [own EXCEPT ![r] = IF OfDoc(r).pymupdf /\ @ = {} THEN NoFolder
                                                             ELSE @]
  /\ GoOn(r, "done")
  /\ UNCHANGED <<docs, media>>

\* The soft time limit or the end of the worker, after the extraction.
Stops(r) ==
  /\ pc[r] \in Running \ {"extract"}
  /\ GoOn(r, "failed")
  /\ UNCHANGED <<docs, own, media>>

MNext == \E r \in Run : \/ Begin(r) \/ Extract(r) \/ ExtractFails(r)
                        \/ Check(r) \/ Rename(r) \/ Discard(r) \/ Stops(r)

MSpec == MInit /\ [][MNext]_mvars

(***************************************************************************)
(* Properties                                                              *)
(***************************************************************************)

MTypeOK ==
  /\ docs \in [Doc -> Content]
  /\ pc \in [Run -> {"idle"} \cup Running \cup Ended]
  /\ own \in [Run -> {NoFolder} \cup Folder]
  /\ media \in {NoFolder} \cup Folder

\* The inductive invariant: media is, entire, the folder of one document; a
\* conversion has the images of its own, entire, until they are media; one that
\* goes on without a rename has been beaten to it, or has nothing to rename.
MediaIsOneDocuments ==
  media # NoFolder => \E d \in Doc : docs[d].refs # {} /\ media = Extracted(d)
BeforeRename(r) ==
  /\ pc[r] = "extract" => own[r] \in {NoFolder, {}}
  /\ pc[r] \in {"check", "rename"} =>
       /\ OfDoc(r).refs # {}
       /\ \/ own[r] = Extracted(DocOf[r])
          \/ own[r] = NoFolder /\ OfDoc(r).images = {}
  /\ pc[r] = "rename" => own[r] # NoFolder
AfterRename(r) ==
  /\ pc[r] \in {"discard", "done", "blown"} /\ OfDoc(r).images # {} =>
       /\ Extracted(DocOf[r]) \in {own[r], media}
       /\ OfDoc(r).refs # {} => media # NoFolder
  /\ pc[r] = "blown" => media \notin {NoFolder, {}}
MInv == MTypeOK /\ MediaIsOneDocuments
        /\ \A r \in Run : BeforeRename(r) /\ AfterRename(r)

\* Whatever a conversion that ran to its end has extracted is still there, in
\* its own folder or as media: no other conversion of the job overwrites it.
ImagesAreKept ==
  \A r \in Run : pc[r] \in {"done", "blown"} /\ OfDoc(r).images # {} =>
    Extracted(DocOf[r]) \in {own[r], media}

\* The references of a document to its own images resolve.
Resolve(d) ==
  \A n \in docs[d].refs \cap docs[d].images :
    media # NoFolder /\ <<d, n>> \in media

\* A document whose references resolve stays so: media never changes hands.
ResolvedForGood ==
  [][\A d \in Doc : docs[d].refs \cap docs[d].images # {} /\ Resolve(d) =>
       Resolve(d)']_mvars

\* A converted document is only denied its images by another document of the
\* job that refers to some: by itself, also converted twice at the same time or
\* after a conversion that failed, it always gets them.
ServedUnlessBeaten ==
  \A r \in Run : pc[r] = "done" =>
    \/ Resolve(DocOf[r])
    \/ \E e \in Doc \ {DocOf[r]} : docs[e].refs # {} /\ media = Extracted(e)

\* base.py: "we rename it to the flat media form so the rewritten image
\* references resolve".
ReferencesResolve == \A r \in Run : pc[r] = "done" => Resolve(DocOf[r])

=============================================================================
