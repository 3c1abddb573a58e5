---------------------------- MODULE MediaProofs -----------------------------
(***************************************************************************)
(* What becomes of the images of a job, for any number of documents and of *)
(* conversions of each.                                                    *)
(*                                                                         *)
(* Media changes hands at most once: when it is made, or takes the place   *)
(* of an empty folder.  What a conversion relies on is about its own       *)
(* folder and media, so a step that leaves media alone can only disturb    *)
(* what its own conversion relies on (OthersRely).                         *)
(***************************************************************************)
EXTENDS Media, TLAPS

Rely(r) == BeforeRename(r) /\ AfterRename(r)

\* A document's images make a folder, and one that is there.
LEMMA ExtractedIsFolder ==
  ASSUME MTypeOK, NEW d \in Doc
  PROVE  /\ docs[d] \in [pymupdf : BOOLEAN, images : SUBSET Name,
                         refs : SUBSET Name]
         /\ Extracted(d) \in Folder
         /\ Extracted(d) # NoFolder
         /\ docs[d].images # {} => Extracted(d) # {}
<1>1. docs[d] \in [pymupdf : BOOLEAN, images : SUBSET Name, refs : SUBSET Name]
  BY MediaAssumption DEF MTypeOK
<1>2. Extracted(d) \in Folder
  BY <1>1 DEF Extracted, Folder
<1>3. Extracted(d) # NoFolder
  BY <1>2, MediaAssumption
<1>4. ASSUME docs[d].images # {}
      PROVE  Extracted(d) # {}
  <2>1. PICK n \in docs[d].images : TRUE
    BY <1>4
  <2>2. <<d, n>> \in Extracted(d)
    BY <2>1 DEF Extracted
  <2> QED
    BY <2>2
<1> QED
  BY <1>1, <1>2, <1>3, <1>4

\* A step of another conversion that keeps media, or makes it out of nothing or
\* of an empty folder, disturbs nothing that q relies on.
LEMMA OthersRely ==
  ASSUME MTypeOK, NEW q \in Run, Rely(q),
         UNCHANGED docs, pc'[q] = pc[q], own'[q] = own[q],
         \/ UNCHANGED media
         \/ media \in {NoFolder, {}} /\ media' # NoFolder
  PROVE  Rely(q)'
<1>1. DocOf[q] \in Doc
  BY MediaAssumption
<1>2. CASE UNCHANGED media
  BY <1>2 DEF Rely, BeforeRename, AfterRename, OfDoc, Extracted
<1>3. CASE media \in {NoFolder, {}} /\ media' # NoFolder
  <2>1. BeforeRename(q)'
    BY DEF Rely, BeforeRename, OfDoc, Extracted
  <2>2. pc[q] # "blown"
    BY <1>3 DEF Rely, AfterRename
  <2>3. OfDoc(q).images # {} => Extracted(DocOf[q]) # media
    BY <1>1, <1>3, ExtractedIsFolder DEF OfDoc
  <2>4. AfterRename(q)'
    BY <1>3, <2>2, <2>3 DEF Rely, AfterRename, OfDoc, Extracted
  <2> QED
    BY <2>1, <2>4 DEF Rely
<1> QED
  BY <1>2, <1>3

\* A step of r that leaves media alone keeps the invariant if it keeps the
\* types of what r owns and what r relies on.
LEMMA StepOfOne ==
  ASSUME MInv, NEW r \in Run, NEW step \in {"idle"} \cup Running \cup Ended,
         NEW folder \in {NoFolder} \cup Folder,
         UNCHANGED <<docs, media>>, GoOn(r, step),
         own' = [own EXCEPT ![r] = folder], Rely(r)'
  PROVE  MInv'
<1>1. MTypeOK'
  BY DEF MInv, MTypeOK, GoOn
<1>2. MediaIsOneDocuments'
  BY DEF MInv, MediaIsOneDocuments, Extracted
<1>3. ASSUME NEW q \in Run
      PROVE  Rely(q)'
  <2>1. CASE q = r
    BY <2>1
  <2>2. CASE q # r
    <3>1. pc'[q] = pc[q] /\ own'[q] = own[q]
      BY <2>2 DEF MInv, MTypeOK, GoOn
    <3>2. MTypeOK /\ Rely(q)
      BY DEF MInv, Rely
    <3> QED
      BY <3>1, <3>2, OthersRely
  <2> QED
    BY <2>1, <2>2
<1> QED
  BY <1>1, <1>2, <1>3 DEF MInv, Rely

LEMMA BeginKeeps ==
  ASSUME MInv, NEW r \in Run, Begin(r)
  PROVE  MInv'
<1> DEFINE folder == IF OfDoc(r).pymupdf THEN {} ELSE NoFolder
<1>1. /\ folder \in {NoFolder} \cup Folder
      /\ GoOn(r, "extract") /\ UNCHANGED <<docs, media>>
      /\ own' = [own EXCEPT ![r] = folder]
  BY DEF Begin, Folder
<1>2. pc'[r] = "extract" /\ own'[r] \in {NoFolder, {}}
  BY <1>1 DEF GoOn, MInv, MTypeOK
<1>3. Rely(r)'
  BY <1>2 DEF Rely, BeforeRename, AfterRename
<1>4. "extract" \in {"idle"} \cup Running \cup Ended
  BY DEF Running
<1> HIDE DEF folder
<1> QED
  BY <1>1, <1>3, <1>4, StepOfOne

LEMMA ExtractKeeps ==
  ASSUME MInv, NEW r \in Run, Extract(r)
  PROVE  MInv'
<1> DEFINE d == DocOf[r]
           folder == IF OfDoc(r).images = {} THEN own[r] ELSE Extracted(d)
           step == IF OfDoc(r).refs = {} THEN "discard" ELSE "check"
<1>1. d \in Doc /\ MTypeOK
  BY MediaAssumption DEF MInv
<1>2. folder \in {NoFolder} \cup Folder
  BY <1>1, ExtractedIsFolder DEF MTypeOK
<1>3. step \in {"idle"} \cup Running \cup Ended
  BY DEF Running
<1>4. /\ GoOn(r, step) /\ UNCHANGED <<docs, media>>
      /\ own' = [own EXCEPT ![r] = folder]
  BY DEF Extract
<1>5. pc'[r] = step /\ own'[r] = folder
  BY <1>1, <1>4 DEF GoOn, MTypeOK
<1>6. OfDoc(r)' = OfDoc(r) /\ Extracted(DocOf[r])' = Extracted(d)
  BY <1>4 DEF OfDoc, Extracted
<1>7. OfDoc(r).images = {} => Extracted(d) = {}
  BY DEF Extracted, OfDoc
<1>8. own[r] \in {NoFolder, {}}
  BY DEF MInv, BeforeRename, Extract
<1>9. Rely(r)'
  BY <1>5, <1>6, <1>7, <1>8 DEF Rely, BeforeRename, AfterRename
<1> HIDE DEF folder, step
<1> QED
  BY <1>2, <1>3, <1>4, <1>9, StepOfOne

LEMMA ExtractFailsKeeps ==
  ASSUME MInv, NEW r \in Run, ExtractFails(r)
  PROVE  MInv'
<1>1. MTypeOK /\ DocOf[r] \in Doc
  BY MediaAssumption DEF MInv
<1>2. PICK some \in {own[r]} \cup SUBSET Extracted(DocOf[r]) :
        own' = [own EXCEPT ![r] = some]
  BY DEF ExtractFails
<1>3. some \in {NoFolder} \cup Folder
  BY <1>1, <1>2, ExtractedIsFolder DEF MTypeOK, Folder
<1>4. GoOn(r, "failed") /\ UNCHANGED <<docs, media>>
  BY DEF ExtractFails
<1>5. pc'[r] = "failed"
  BY <1>1, <1>4 DEF GoOn, MTypeOK
<1>6. Rely(r)'
  BY <1>5 DEF Rely, BeforeRename, AfterRename
<1>7. "failed" \in {"idle"} \cup Running \cup Ended
  BY DEF Ended
<1> QED
  BY <1>2, <1>3, <1>4, <1>6, <1>7, StepOfOne

\* Steps that leave the folders alone.
LEMMA OwnStays ==
  ASSUME MInv, NEW r \in Run, UNCHANGED own
  PROVE  /\ own[r] \in {NoFolder} \cup Folder
         /\ own' = [own EXCEPT ![r] = own[r]]
BY DEF MInv, MTypeOK

LEMMA CheckKeeps ==
  ASSUME MInv, NEW r \in Run, Check(r)
  PROVE  MInv'
<1> DEFINE step == IF own[r] # NoFolder /\ media = NoFolder
                   THEN "rename" ELSE "discard"
<1>1. MTypeOK /\ DocOf[r] \in Doc /\ BeforeRename(r) /\ pc[r] = "check"
  BY MediaAssumption DEF MInv, Check
<1>2. GoOn(r, step) /\ UNCHANGED <<docs, media>> /\ UNCHANGED own
  BY DEF Check
<1>3. step \in {"idle"} \cup Running \cup Ended
  BY DEF Running
<1>4. pc'[r] = step
  BY <1>1, <1>2 DEF GoOn, MTypeOK
<1>5. OfDoc(r)' = OfDoc(r) /\ Extracted(DocOf[r])' = Extracted(DocOf[r])
  BY <1>2 DEF OfDoc, Extracted
<1>6. /\ OfDoc(r).refs # {} /\ Extracted(DocOf[r]) # NoFolder
      /\ \/ own[r] = Extracted(DocOf[r])
         \/ own[r] = NoFolder /\ OfDoc(r).images = {}
  BY <1>1, ExtractedIsFolder DEF BeforeRename
<1>7. Rely(r)'
  BY <1>2, <1>4, <1>5, <1>6 DEF Rely, BeforeRename, AfterRename
<1> HIDE DEF step
<1> QED
  BY <1>2, <1>3, <1>7, OwnStays, StepOfOne

LEMMA RenameKeeps ==
  ASSUME MInv, NEW r \in Run, Rename(r)
  PROVE  MInv'
<1>1. /\ MTypeOK /\ DocOf[r] \in Doc /\ BeforeRename(r) /\ pc[r] = "rename"
      /\ UNCHANGED docs
  BY MediaAssumption DEF MInv, Rename
<1>2. /\ OfDoc(r).refs # {} /\ own[r] # NoFolder
      /\ own[r] = Extracted(DocOf[r])
      /\ Extracted(DocOf[r]) \in Folder
  BY <1>1, ExtractedIsFolder DEF BeforeRename
<1>3. OfDoc(r)' = OfDoc(r) /\ Extracted(DocOf[r])' = Extracted(DocOf[r])
  BY <1>1 DEF OfDoc, Extracted
<1>4. CASE /\ media \in {NoFolder, {}} /\ media' = own[r]
           /\ own' = [own EXCEPT ![r] = NoFolder] /\ GoOn(r, "discard")
  <2>1. pc'[r] = "discard" /\ own'[r] = NoFolder
    BY <1>1, <1>4 DEF GoOn, MTypeOK
  <2>2. MTypeOK'
    BY <1>1, <1>2, <1>4 DEF MTypeOK, GoOn, Running
  <2>3. MediaIsOneDocuments'
    BY <1>1, <1>2, <1>3, <1>4 DEF MediaIsOneDocuments, OfDoc
  <2>4. ASSUME NEW q \in Run
        PROVE  Rely(q)'
    <3>1. CASE q = r
      BY <1>2, <1>3, <1>4, <2>1, <3>1 DEF Rely, BeforeRename, AfterRename
    <3>2. CASE q # r
      <4>1. pc'[q] = pc[q] /\ own'[q] = own[q] /\ Rely(q)
        BY <1>1, <1>4, <3>2 DEF GoOn, MTypeOK, MInv, Rely
      <4>2. media \in {NoFolder, {}} /\ media' # NoFolder
        BY <1>2, <1>4
      <4> QED
        BY <1>1, <4>1, <4>2, OthersRely
    <3> QED
      BY <3>1, <3>2
  <2> QED
    BY <2>2, <2>3, <2>4 DEF MInv, Rely
<1>5. CASE /\ media \notin {NoFolder, {}}
           /\ GoOn(r, "blown") /\ UNCHANGED <<own, media>>
  <2>1. pc'[r] = "blown"
    BY <1>1, <1>5 DEF GoOn, MTypeOK
  <2>2. Rely(r)'
    BY <1>2, <1>3, <1>5, <2>1 DEF Rely, BeforeRename, AfterRename
  <2>3. "blown" \in {"idle"} \cup Running \cup Ended
    BY DEF Ended
  <2> QED
    BY <1>1, <1>5, <2>2, <2>3, OwnStays, StepOfOne
<1> QED
  BY <1>2, <1>4, <1>5 DEF Rename

LEMMA DiscardKeeps ==
  ASSUME MInv, NEW r \in Run, Discard(r)
  PROVE  MInv'
<1> DEFINE folder == IF OfDoc(r).pymupdf /\ own[r] = {} THEN NoFolder
                                                        ELSE own[r]
<1>1. MTypeOK /\ DocOf[r] \in Doc /\ AfterRename(r) /\ pc[r] = "discard"
  BY MediaAssumption DEF MInv, Discard
<1>2. /\ GoOn(r, "done") /\ UNCHANGED <<docs, media>>
      /\ own' = [own EXCEPT ![r] = folder]
  BY DEF Discard
<1>3. folder \in {NoFolder} \cup Folder
  BY <1>1 DEF MTypeOK
<1>4. pc'[r] = "done" /\ own'[r] = folder
  BY <1>1, <1>2 DEF GoOn, MTypeOK
<1>5. OfDoc(r)' = OfDoc(r) /\ Extracted(DocOf[r])' = Extracted(DocOf[r])
  BY <1>2 DEF OfDoc, Extracted
<1>6. OfDoc(r).images # {} => Extracted(DocOf[r]) # {}
  BY <1>1, ExtractedIsFolder DEF OfDoc
<1>7. Rely(r)'
  BY <1>1, <1>2, <1>4, <1>5, <1>6 DEF Rely, BeforeRename, AfterRename
<1>8. "done" \in {"idle"} \cup Running \cup Ended
  BY DEF Ended
<1> HIDE DEF folder
<1> QED
  BY <1>2, <1>3, <1>7, <1>8, StepOfOne

LEMMA StopsKeeps ==
  ASSUME MInv, NEW r \in Run, Stops(r)
  PROVE  MInv'
<1>1. GoOn(r, "failed") /\ UNCHANGED <<docs, media>> /\ UNCHANGED own
  BY DEF Stops
<1>2. pc'[r] = "failed"
  BY <1>1 DEF GoOn, MInv, MTypeOK
<1>3. Rely(r)'
  BY <1>2 DEF Rely, BeforeRename, AfterRename
<1>4. "failed" \in {"idle"} \cup Running \cup Ended
  BY DEF Ended
<1> QED
  BY <1>1, <1>3, <1>4, OwnStays, StepOfOne

LEMMA MediaInitially == MInit => MInv
BY DEF MInit, MInv, MTypeOK, MediaIsOneDocuments, BeforeRename, AfterRename

LEMMA MediaStep == MInv /\ [MNext]_mvars => MInv'
<1> SUFFICES ASSUME MInv, [MNext]_mvars PROVE MInv'
  OBVIOUS
<1>1. ASSUME NEW r \in Run,
             \/ Begin(r) \/ Extract(r) \/ ExtractFails(r)
             \/ Check(r) \/ Rename(r) \/ Discard(r) \/ Stops(r)
      PROVE  MInv'
  BY <1>1, BeginKeeps, ExtractKeeps, ExtractFailsKeeps, CheckKeeps,
     RenameKeeps, DiscardKeeps, StopsKeeps
<1>2. CASE UNCHANGED mvars
  BY <1>2 DEF mvars, MInv, MTypeOK, MediaIsOneDocuments, BeforeRename,
              AfterRename, OfDoc, Extracted
<1> QED
  BY <1>1, <1>2 DEF MNext

\* media is, entire, what one conversion extracted from one document, at every
\* step of any conversions.
THEOREM MediaHasOneOwner == MSpec => []MInv
BY MediaInitially, MediaStep, PTL DEF MSpec

\* No conversion loses the images another one has extracted.
THEOREM NoImageIsLost == MSpec => []ImagesAreKept
<1>1. MInv => ImagesAreKept
  BY DEF MInv, AfterRename, ImagesAreKept
<1> QED
  BY <1>1, MediaHasOneOwner, PTL

\* A converted document finds its images unless another one of the job that
\* refers to some was first.
THEOREM FirstComeFirstServed == MSpec => []ServedUnlessBeaten
<1>1. MInv => ServedUnlessBeaten
  <2> SUFFICES ASSUME MInv, NEW r \in Run, pc[r] = "done",
                      ~Resolve(DocOf[r])
               PROVE  \E e \in Doc \ {DocOf[r]} :
                        docs[e].refs # {} /\ media = Extracted(e)
    BY DEF ServedUnlessBeaten
  <2> DEFINE d == DocOf[r]
  <2>1. d \in Doc /\ MTypeOK /\ MediaIsOneDocuments /\ AfterRename(r)
    BY MediaAssumption DEF MInv
  <2>2. PICK n \in docs[d].refs \cap docs[d].images :
               ~(media # NoFolder /\ <<d, n>> \in media)
    BY DEF Resolve
  <2>3. media # NoFolder
    BY <2>1, <2>2 DEF AfterRename, OfDoc
  <2>4. PICK e \in Doc : docs[e].refs # {} /\ media = Extracted(e)
    BY <2>1, <2>3 DEF MediaIsOneDocuments
  <2>5. e # d
    BY <2>2, <2>3, <2>4 DEF Extracted
  <2> QED
    BY <2>4, <2>5
<1> QED
  BY <1>1, MediaHasOneOwner, PTL

\* References that resolve go on doing so.
THEOREM MediaNeverChangesHands == MSpec => ResolvedForGood
<1>1. ASSUME MInv, [MNext]_mvars, NEW d \in Doc,
             docs[d].refs \cap docs[d].images # {}, Resolve(d)
      PROVE  Resolve(d)'
  <2>1. PICK n \in docs[d].refs \cap docs[d].images :
               media # NoFolder /\ <<d, n>> \in media
    BY <1>1 DEF Resolve
  <2>2. media \notin {NoFolder, {}}
    BY <2>1
  <2>3. UNCHANGED <<docs, media>>
    BY <1>1, <2>2 DEF MNext, mvars, Begin, Extract, ExtractFails, Check,
                      Rename, Discard, Stops
  <2> QED
    BY <1>1, <2>3 DEF Resolve
<1>2. MInv /\ [MNext]_mvars =>
        [\A d \in Doc : docs[d].refs \cap docs[d].images # {} /\ Resolve(d) =>
           Resolve(d)']_mvars
  BY <1>1
<1> QED
  BY <1>2, MediaHasOneOwner, PTL DEF MSpec, ResolvedForGood

=============================================================================
