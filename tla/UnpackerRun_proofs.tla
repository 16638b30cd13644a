------------------------- MODULE UnpackerRun_proofs -------------------------
(***************************************************************************)
(* The command implements the abstract publication, for all registries,    *)
(* manifests, flags, crashes and repointed tags.                           *)
(***************************************************************************)
EXTENDS UnpackerRun, TLAPS

Source == <<tmp, manifestFile, cfg>>

\* What the staging directory holds so far.
Laid == IF staging = NoTree THEN {} ELSE staging.items

LaidFrom(positions) == {Unpacked(blobPath(manifestFile[i])) : i \in positions}

\* While a tree is populated, the plan is still what tmp/ and manifest.json
\* say and staging holds the layers that are no longer left; from then on it
\* holds all of what they make.
Staged ==
    /\ DOMAIN mem = DOMAIN FreshMemory
    /\ pc = "populate" =>
          /\ DOMAIN mem.plan = DOMAIN FreshMemory.plan
          /\ mem.plan.route = Route
          /\ mem.plan.layers = manifestFile
          /\ mem.plan.left \subseteq ToExtract
          /\ staging = NoTree \/ staging.whole
          /\ IF Route = "extract"
             THEN /\ Laid = LaidFrom(ToExtract \ mem.plan.left)
                  /\ staging = NoTree => mem.plan.left = ToExtract
             ELSE staging = NoTree
    /\ pc \in {"remove", "rename"} =>
          staging # NoTree /\ staging.whole /\ staging.items = Populated

\* Everything the tree is made from is in three variables.
LEMMA SourceUnchanged ==
    ASSUME UNCHANGED Source
    PROVE  /\ Route' = Route /\ ToExtract' = ToExtract /\ Populated' = Populated
           /\ \A positions : LaidFrom(positions)' = LaidFrom(positions)
<1>1. tmp' = tmp /\ manifestFile' = manifestFile /\ cfg' = cfg
  BY DEF Source
<1>2. ToExtract' = ToExtract
  BY <1>1 DEF ToExtract
<1>3. firstFileIsArchive' = firstFileIsArchive
  BY <1>1 DEF firstFileIsArchive
<1>4. Route' = Route
  BY <1>1, <1>2, <1>3 DEF Route
<1>5. \A l : blobPath(l)' = blobPath(l)
  BY <1>1 DEF blobPath
<1>6. \A positions : LaidFrom(positions)' = LaidFrom(positions)
  BY <1>1, <1>5 DEF LaidFrom
<1>7. Populated' = Populated
  BY <1>1, <1>2, <1>4, <1>5 DEF Populated
<1>q. QED
  BY <1>2, <1>4, <1>6, <1>7

-----------------------------------------------------------------------------
(* The steps that neither look at nor make a tree *)

InUnpack(p) == p \in {"populate", "remove", "rename"}

\* What the stages around Unpack do.
Around ==
    \/ Start \/ StartRefused \/ Network \/ PullLocal \/ ReferrersLocal \/ VerifyLocal
    \/ AfterPull \/ WriteFailure

\* What a download may change besides tmp/ and manifest.json, and only if its
\* title leads there (fetchBlobToFile).
LEMMA PutIsBounded ==
    ASSUME NEW l, NEW content, Put(l, content)
    PROVE  \/ image' = image /\ seen' = seen
           \/ /\ Astray(l, "image") /\ image # NoTree
              /\ image' = [image EXCEPT !.items = image'.items, !.whole = image'.whole]
              /\ seen' = [seen EXCEPT !.strayed = TRUE]
BY DEF Put

LEMMA OrasBlobOverlays ==
    ASSUME OrasBlob
    PROVE  image' = image \/ Overlaid
<1>1. image' = image \/ \E content : Put(Layers[mem.next], content)
  BY DEF OrasBlob, PullFrame
<1>q. QED
  BY <1>1, PutIsBounded DEF OrasBlob, Overlaid

LEMMA AroundIsQuiet ==
    ASSUME Around
    PROVE  /\ ~InUnpack(pc) /\ ~InUnpack(pc') /\ (image' = image \/ Overlaid)
           /\ DOMAIN mem' = DOMAIN mem \/ mem' = FreshMemory
<1>1. CASE Start
  BY <1>1 DEF Start, InUnpack, trees
<1>2. CASE StartRefused
  BY <1>2 DEF StartRefused, InUnpack, trees
<1>3. CASE PullNetwork
  <2>1. CASE OrasResolve
    BY <2>1 DEF OrasResolve, OrasFails, PullFrame, InUnpack
  <2>2. CASE OrasBlob
    <3>1. ~InUnpack(pc) /\ ~InUnpack(pc') /\ DOMAIN mem' = DOMAIN mem
      BY <2>2 DEF OrasBlob, OrasFails, InUnpack
    <3>q. QED
      BY <2>2, <3>1, OrasBlobOverlays
  <2>3. CASE CraneResolve
    BY <2>3 DEF CraneResolve, PullFails, Fail, PullFrame, InUnpack
  <2>4. CASE CraneLayout
    BY <2>4 DEF CraneLayout, PullFails, Fail, PullFrame, InUnpack
  <2>q. QED
    BY <1>3, <2>1, <2>2, <2>3, <2>4 DEF PullNetwork
<1>4. CASE ReferrersNetwork
  <2>1. CASE Query
    BY <2>1 DEF Query, FetchFails, ReferrersFrame, InUnpack
  <2>2. CASE RejectReferrer
    BY <2>2 DEF RejectReferrer, Downloading, ReferrerFails, ReferrersFrame, InUnpack
  <2>3. CASE SkipReferrer
    BY <2>3 DEF SkipReferrer, Downloading, ReferrersFrame, InUnpack
  <2>4. CASE OpenReferrer
    BY <2>4 DEF OpenReferrer, Downloading, ReferrerFails, ReferrersFrame, InUnpack
  <2>5. CASE FetchPayload
    BY <2>5 DEF FetchPayload, PayloadLeft, ReferrerFails, ReferrersFrame, InUnpack
  <2>q. QED
    BY <1>4, <2>1, <2>2, <2>3, <2>4, <2>5 DEF ReferrersNetwork
<1>5. CASE VerifyNetwork
  BY <1>5 DEF VerifyNetwork, VerifyBegin, VerifyFails, VerifyFrame, InUnpack
<1>6. CASE PullLocal
  <2>1. CASE MkdirTmpFails
    BY <2>1 DEF MkdirTmpFails, Fail, PullFrame, InUnpack
  <2>2. CASE OrasManifest
    BY <2>2 DEF OrasManifest, OrasFails, PullFrame, InUnpack
  <2>3. CASE OrasDone
    BY <2>3 DEF OrasDone, PullFrame, InUnpack
  <2>4. CASE CleanTmp
    BY <2>4 DEF CleanTmp, Fail, PullFrame, InUnpack
  <2>5. CASE CraneManifest
    BY <2>5 DEF CraneManifest, PullFails, Fail, PullFrame, InUnpack
  <2>6. CASE CraneCharge
    BY <2>6 DEF CraneCharge, PullFails, Fail, PullFrame, InUnpack
  <2>q. QED
    BY <1>6, <2>1, <2>2, <2>3, <2>4, <2>5, <2>6 DEF PullLocal
<1>7. CASE ReferrersLocal
  BY <1>7 DEF ReferrersLocal, FileReferrer, Downloaded, RecordLanded, WriteListing,
              FetchFails, ReferrersFrame, InUnpack
<1>8. CASE VerifyLocal
  BY <1>8 DEF VerifyLocal, VerifyBundle, BundlesExhausted, WriteVerified, VerifyFails,
              Exits, VerifyFrame, InUnpack
<1>9. CASE AfterPull
  BY <1>9 DEF AfterPull, Exits, trees, InUnpack
<1>10. CASE WriteFailure
  BY <1>10 DEF WriteFailure, Exits, trees, InUnpack
<1>q. QED
  BY <1>1, <1>2, <1>3, <1>4, <1>5, <1>6, <1>7, <1>8, <1>9, <1>10 DEF Around, Network

\* Every other step is one of Unpack, a kill or a repointed tag.
LEMMA NextCases == Next <=> Around \/ UnpackNext \/ Crash \/ TagMoves
BY DEF Next, Around, Local

-----------------------------------------------------------------------------
(* The invariant *)

LEMMA StagedInit == Init => Staged
BY DEF Init, Staged

\* The source stays as it is while a tree is made of it.
LEMMA UnpackKeepsSource == UnpackNext => UNCHANGED Source
BY DEF UnpackNext, UnpackClear, ExtractLayer, ExtractDone, RunUmoci, CopyAll, Discard,
       RemovePart, RemoveImage, Rename, UnpackFrame, download, Source

LEMMA StagedUnpack ==
    ASSUME Staged, UnpackNext
    PROVE  Staged'
<1>1. /\ Route' = Route /\ ToExtract' = ToExtract /\ Populated' = Populated
      /\ \A positions : LaidFrom(positions)' = LaidFrom(positions)
      /\ manifestFile' = manifestFile
  BY UnpackKeepsSource, SourceUnchanged DEF Source
<1>d. DOMAIN mem' = DOMAIN FreshMemory
  BY DEF UnpackNext, UnpackClear, Decide, ExtractLayer, ExtractDone, RunUmoci, CopyAll,
         PopulateFails, Discard, RemovePart, RemoveImage, Rename, Exits, Fail, Staged
<1>2. CASE UnpackClear
  <2>1. CASE staging' = NoTree /\ Decide /\ manifestFile # Garbage
    <3>1. /\ pc' = "populate" /\ mem'.plan.route = Route
          /\ mem'.plan.layers = manifestFile /\ mem'.plan.left = ToExtract
          /\ DOMAIN mem'.plan = DOMAIN FreshMemory.plan
      BY <2>1 DEF Decide, Staged, FreshMemory
    <3>2. LaidFrom(ToExtract \ mem'.plan.left) = {}
      BY <3>1 DEF LaidFrom
    <3>q. QED
      BY <1>1, <1>d, <2>1, <3>1, <3>2 DEF Staged, Laid
  <2>q. QED
    BY <1>2, <1>d, <2>1 DEF UnpackClear, Decide, PopulateFails, Fail, Staged
<1>3. CASE ExtractLayer
  <2>1. PICK i \in mem.plan.left :
          LET b == blobPath(mem.plan.layers[i])
          IN  \/ /\ Lay({Unpacked(b)})
                 /\ mem' = [mem EXCEPT !.plan.left = @ \ {i}]
                 /\ UNCHANGED pc
              \/ \E err : PopulateFails(err)
    BY <1>3 DEF ExtractLayer
  <2>2. CASE \E err : PopulateFails(err)
    BY <1>d, <2>2 DEF PopulateFails, Staged
  <2>3. CASE /\ Lay({Unpacked(blobPath(mem.plan.layers[i]))})
             /\ mem' = [mem EXCEPT !.plan.left = @ \ {i}]
             /\ UNCHANGED pc
    <3>1. pc = "populate" /\ pc' = "populate" /\ Route = "extract"
      BY <1>3, <2>3 DEF ExtractLayer, Staged
    <3>2. /\ mem'.plan.route = mem.plan.route /\ mem'.plan.layers = mem.plan.layers
          /\ mem'.plan.left = mem.plan.left \ {i}
          /\ DOMAIN mem'.plan = DOMAIN FreshMemory.plan
      BY <2>3, <3>1 DEF Staged, FreshMemory
    <3>3. /\ staging'.whole /\ staging' # NoTree
          /\ staging'.items = {Unpacked(blobPath(manifestFile[i]))} \cup Laid
      BY <2>3, <3>1 DEF Lay, Tree, NoTree, Laid, Staged
    <3>4. LaidFrom(ToExtract \ (mem.plan.left \ {i})) =
              {Unpacked(blobPath(manifestFile[i]))} \cup LaidFrom(ToExtract \ mem.plan.left)
      BY <2>1, <3>1 DEF LaidFrom, Staged
    <3>q. QED
      BY <1>1, <1>d, <3>1, <3>2, <3>3, <3>4 DEF Staged, Laid
  <2>q. QED
    BY <2>1, <2>2, <2>3
<1>4. CASE ExtractDone
  <2>1. /\ pc = "populate" /\ pc' = "remove" /\ Route = "extract" /\ mem.plan.left = {}
        /\ staging' = staging
    BY <1>4 DEF ExtractDone, Staged, trees
  <2>2. ToExtract # {}
    BY <2>1 DEF Route
  <2>3. staging # NoTree /\ staging.whole /\ staging.items = LaidFrom(ToExtract)
    BY <2>1, <2>2 DEF Staged, Laid
  <2>4. LaidFrom(ToExtract) = Populated
    BY <2>1, Zenon DEF LaidFrom, Populated
  <2>q. QED
    BY <1>1, <1>d, <2>1, <2>3, <2>4 DEF Staged
<1>5. CASE RunUmoci
  <2>1. pc = "populate" /\ Route = "umoci" /\ staging = NoTree
    BY <1>5 DEF RunUmoci, Staged
  <2>2. CASE Lay({RootFS(tmp.layout)}) /\ pc' = "remove"
    <3>1. staging' # NoTree /\ staging'.whole /\ staging'.items = {RootFS(tmp.layout)}
      BY <2>1, <2>2 DEF Lay, Tree, NoTree
    <3>2. Populated = {RootFS(tmp.layout)}
      BY <2>1, Zenon DEF Populated
    <3>q. QED
      BY <1>1, <1>d, <2>2, <3>1, <3>2 DEF Staged
  <2>q. QED
    BY <1>5, <1>d, <2>2 DEF RunUmoci, PopulateFails, Staged
<1>6. CASE CopyAll
  <2> DEFINE copies == {Copied(n, tmp.files[n]) : n \in Present(tmp)}
  <2>1. pc = "populate" /\ Route = "copy" /\ staging = NoTree
    BY <1>6 DEF CopyAll, Staged
  <2>2. CASE Lay(copies) /\ pc' = "remove"
    <3>1. staging' # NoTree /\ staging'.whole /\ staging'.items = copies
      BY <2>1, <2>2 DEF Lay, Tree, NoTree
    <3>2. Populated = copies
      BY <2>1, Zenon DEF Populated
    <3>q. QED
      BY <1>1, <1>d, <2>2, <3>1, <3>2 DEF Staged
  <2>q. QED
    BY <1>6, <1>d, <2>2 DEF CopyAll, PopulateFails, Staged
<1>7. CASE Discard
  BY <1>7, <1>d DEF Discard, Fail, Staged
<1>8. CASE RemovePart
  BY <1>1, <1>d, <1>8 DEF RemovePart, Staged
<1>9. CASE RemoveImage
  BY <1>1, <1>d, <1>9 DEF RemoveImage, Fail, Staged
<1>10. CASE Rename
  BY <1>10, <1>d DEF Rename, Exits, Fail, Staged
<1>q. QED
  BY <1>2, <1>3, <1>4, <1>5, <1>6, <1>7, <1>8, <1>9, <1>10 DEF UnpackNext

LEMMA StagedStep == Staged /\ [Next]_vars => Staged'
<1> SUFFICES ASSUME Staged, [Next]_vars PROVE Staged'
  OBVIOUS
<1>1. CASE Around
  BY <1>1, AroundIsQuiet DEF InUnpack, Staged
<1>2. CASE UnpackNext
  BY <1>2, StagedUnpack
<1>3. CASE Crash
  BY <1>3 DEF Crash, Staged
<1>4. CASE TagMoves \/ UNCHANGED vars
  <2>1. UNCHANGED Source /\ UNCHANGED <<pc, mem, staging>>
    BY <1>4 DEF TagMoves, vars, Source, download, trees
  <2>q. QED
    BY <2>1, SourceUnchanged DEF Staged, Laid, Source
<1>q. QED
  BY <1>1, <1>2, <1>3, <1>4, NextCases

\* From the clearing of .image.staging to the rename it holds nothing but what
\* the plan made of tmp/ and manifest.json (unpackInto, Unpack).
THEOREM StagingAccounted == Spec => []Staged
BY StagedInit, StagedStep, PTL DEF Spec

-----------------------------------------------------------------------------
(* The refinement *)

ready == IF pc \in {"remove", "rename"} THEN staging ELSE NoTree

LEMMA InitSimulates == Init => Publ!Init
BY DEF Init, Publ!Init

LEMMA StepSimulates ==
    ASSUME Staged, Staged', [Next]_vars
    PROVE  [Publ!Next \/ Overlaid]_(Publ!vars)
<1> DEFINE quiet == ready = NoTree /\ ready' = NoTree /\ image' = image
<1>1. ASSUME quiet PROVE Publ!Next
  BY <1>1 DEF Publ!Next, Publ!Download, ready
<1>2. ASSUME UNCHANGED <<pc, staging, image>>, UNCHANGED Source PROVE UNCHANGED Publ!vars
  BY <1>2, SourceUnchanged DEF Publ!vars
<1>3. CASE Around
  BY <1>1, <1>3, AroundIsQuiet DEF InUnpack, ready
<1>4. CASE Crash
  <2>1. (image' = image \/ Overlaid) /\ ready' = NoTree
    <3>1. \/ image' = image
          \/ pc = "oras blobs" /\ mem.next <= Len(Layers) /\ Put(Layers[mem.next], PartBlob)
      BY <1>4 DEF Crash, TornDownload, TornReferrers, TornRecord
    <3>q. QED
      BY <1>4, <3>1, PutIsBounded DEF Crash, Overlaid, ready
  <2>2. CASE pc \in {"remove", "rename"}
    <3>1. UNCHANGED Source /\ image' = image
      BY <1>4, <2>2 DEF Crash, TornDownload, TornReferrers, TornRecord, Downloading,
                        PayloadLeft, WritingResult, Source, download
    <3>q. QED
      BY <2>1, <3>1, SourceUnchanged DEF Publ!Next, Publ!GiveUp, ready
  <2>q. QED
    BY <1>1, <2>1, <2>2 DEF ready
<1>5. CASE TagMoves \/ UNCHANGED vars
  <2>1. UNCHANGED Source /\ UNCHANGED <<pc, staging, image>>
    BY <1>5 DEF TagMoves, vars, Source, download, trees
  <2>q. QED
    BY <1>2, <2>1
<1>6. CASE UnpackNext
  <2>1. UNCHANGED Source /\ Populated' = Populated
    BY <1>6, UnpackKeepsSource, SourceUnchanged
  <2>2. CASE UnpackClear
    BY <1>1, <2>2 DEF UnpackClear, Decide, PopulateFails, Fail, ready
  <2>3. CASE ExtractLayer
    BY <1>1, <2>3 DEF ExtractLayer, PopulateFails, ready
  <2>4. CASE ExtractDone \/ RunUmoci \/ CopyAll
    <3>1. pc = "populate" /\ pc' \in {"remove", "discard"} /\ image' = image
      BY <2>4 DEF ExtractDone, RunUmoci, CopyAll, PopulateFails, trees
    <3>2. CASE pc' = "remove"
      BY <2>1, <3>1, <3>2 DEF Publ!Next, Publ!Prepare, Staged
    <3>q. QED
      BY <1>1, <3>1, <3>2 DEF ready
  <2>5. CASE Discard
    BY <1>1, <2>5 DEF Discard, Fail, ready
  <2>6. CASE RemovePart
    <3>1. /\ pc = "remove" /\ UNCHANGED <<pc, staging>> /\ image # NoTree
          /\ image' = [image EXCEPT !.whole = FALSE]
      BY <2>6 DEF RemovePart
    <3>q. QED
      BY <2>1, <3>1 DEF Publ!Next, Publ!Withdraw, Staged
  <2>7. CASE RemoveImage
    <3>1. CASE image' = NoTree /\ pc' = "rename"
      <4>1. pc = "remove" /\ staging' = staging
        BY <2>7 DEF RemoveImage
      <4>2. CASE image = NoTree
        BY <2>1, <3>1, <4>1, <4>2 DEF Publ!vars
      <4>3. CASE image # NoTree
        BY <2>1, <3>1, <4>1, <4>3 DEF Publ!Next, Publ!Withdraw, Staged
      <4>q. QED
        BY <4>2, <4>3
    <3>2. CASE pc' = "fail" /\ image' = image
      BY <2>1, <3>2 DEF Publ!Next, Publ!GiveUp
    <3>q. QED
      BY <2>7, <3>1, <3>2 DEF RemoveImage, Fail
  <2>8. CASE Rename
    <3>1. CASE image' = staging /\ pc' = "idle" /\ image = NoTree
      BY <2>1, <2>8, <3>1 DEF Rename, Publ!Next, Publ!Publish, Staged
    <3>2. CASE pc' = "fail" /\ image' = image
      BY <2>1, <3>2 DEF Publ!Next, Publ!GiveUp
    <3>q. QED
      BY <2>8, <3>1, <3>2 DEF Rename, Exits, Fail, trees
  <2>q. QED
    BY <1>6, <2>2, <2>3, <2>4, <2>5, <2>6, <2>7, <2>8 DEF UnpackNext
<1>q. QED
  BY <1>3, <1>4, <1>5, <1>6, NextCases

\* image/ is only ever replaced as a whole by what tmp/ and manifest.json make,
\* whoever was killed or failed before (Unpack); a download alters it only if a
\* title leads there (pullWithOras).
THEOREM CommandPublishes == Spec => ImplementsPublication
<1>1. Spec => []Staged
  BY StagingAccounted
<1>2. Staged /\ Staged' /\ [Next]_vars => [Publ!Next \/ Overlaid]_(Publ!vars)
  BY StepSimulates
<1>q. QED
  BY <1>1, <1>2, InitSimulates, PTL DEF Spec, ImplementsPublication

=============================================================================
