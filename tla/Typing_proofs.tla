---------------------------- MODULE Typing_proofs ----------------------------
(***************************************************************************)
(* The types of the command's state, for all registries, flags and runs,   *)
(* and what every later proof needs to know of the shape of the state.     *)
(***************************************************************************)
EXTENDS UnpackerRun_proofs

ErrorAtom == Atom \cup {ErrFallback}

EnvTyped ==
    /\ DOMAIN registry = {"tag", "private", "transport"}
    /\ registry.tag \in Digest \cup {None}
    /\ cfg \in Configs

MemTyped ==
    /\ DOMAIN mem = DOMAIN FreshMemory
    /\ mem.resolved \in Digest \cup {None}
    /\ mem.serving \in Digest \cup {None}
    /\ mem.next \in Nat \ {0}
    /\ mem.err \subseteq ErrorAtom /\ mem.orasErr \subseteq ErrorAtom
    /\ DOMAIN mem.plan = DOMAIN FreshMemory.plan
    /\ mem.plan.route \in {"none", "extract", "umoci", "copy"}

TmpTyped ==
    /\ DOMAIN tmp = {"files", "layout"}
    /\ tmp.files \in [Name -> Blob \cup {None}]
    /\ tmp.layout \in Layout

\* A tree, and the run that made it.
TreeShape(t) ==
    \/ t = NoTree
    \/ /\ DOMAIN t = {"kind", "items", "by", "whole"}
       /\ t.kind = "tree" /\ t.by \in 1 .. MaxRuns /\ t.whole \in BOOLEAN

TreesTyped == TreeShape(staging) /\ TreeShape(image)

\* The stages in which a client has resolved the reference, and is at it.
ServingStages ==
    {"oras manifest", "oras blobs", "crane budget", "crane layout", "crane manifest"}

StageTyped ==
    /\ pc \in Stages
    /\ pc \in ServingStages => mem.serving \in Digest
    /\ pc \in AfterPullStages => mem.resolved \in Digest
    /\ exit \in 0 .. 5 \cup {NotRun, Running, Killed}
    /\ IF pc = "idle" THEN mem = FreshMemory /\ exit # Running ELSE exit = Running
    /\ DOMAIN seen = {"run", "moves", "before", "fresh", "torn", "started", "strayed"}
    /\ seen.run \in 0 .. MaxRuns
    /\ pc # "idle" => seen.run # 0 /\ seen.started

Typed ==
    /\ EnvTyped /\ MemTyped /\ TmpTyped /\ TreesTyped /\ StageTyped
    /\ DOMAIN referrersDir = ReferrerDirs

LEMMA TypedIsTypeOK == Typed => TypeOK
BY DEF Typed, TypeOK, EnvTyped, MemTyped, TmpTyped, TreesTyped, TreeShape, TreeType,
       StageTyped, ErrorAtom

-----------------------------------------------------------------------------
(* Errors *)

\* A request ends in an error of its client's, of a kind the exit status does
\* not put before all others.
LEMMA RequestErrorsAre ==
    ASSUME NEW client \in {"oras", "crane"}, NEW err \in RequestErrors(client)
    PROVE  err \in {{Unclassified}, {<<client, "401">>}, {<<client, "5xx">>}}
BY DEF RequestErrors

LEMMA ErrorsAreAtoms ==
    /\ {ErrLimit, ErrVerification, ErrNotFound, Unclassified, ErrFallback} \subseteq ErrorAtom
    /\ \A client \in {"oras", "crane"}, s \in Status : <<client, s>> \in ErrorAtom
BY DEF ErrorAtom, Atom, Statuses

LEMMA RequestErrorsTyped ==
    ASSUME NEW client \in {"oras", "crane"}, NEW err \in RequestErrors(client)
    PROVE  err \in SUBSET ErrorAtom
BY RequestErrorsAre, ErrorsAreAtoms DEF Status

LEMMA FetchErrorsTyped ==
    ASSUME NEW err \in RequestErrors("oras") \cup {{ErrNotFound}}
    PROVE  err \in SUBSET ErrorAtom
<1>1. CASE err \in RequestErrors("oras")
  BY <1>1, RequestErrorsTyped
<1>2. CASE err = {ErrNotFound}
  BY <1>2, ErrorsAreAtoms
<1>q. QED
  BY <1>1, <1>2

\* The exit status is one of six.
LEMMA ExitCodeTyped == \A err : ExitCode(err) \in 0 .. 5
BY DEF ExitCode, ExitOK, ExitFailure, ExitNotFound, ExitAuth, ExitVerification, ExitLimit

-----------------------------------------------------------------------------
(* One step at a time *)

LEMMA TypedInit == Init => Typed
<1> SUFFICES ASSUME Init PROVE Typed
  OBVIOUS
<1>1. EnvTyped
  BY RunAssumption DEF Init, EnvTyped
<1>2. MemTyped
  BY DEF Init, MemTyped, FreshMemory, NoError
<1>3. TmpTyped
  BY DEF Init, TmpTyped, EmptyTmp, NoFiles, Layout
<1>4. TreesTyped
  BY DEF Init, TreesTyped, TreeShape
<1>5. StageTyped
  BY RunAssumption DEF Init, StageTyped, Stages, ServingStages, AfterPullStages, NotRun, Running
<1>q. QED
  BY <1>1, <1>2, <1>3, <1>4, <1>5 DEF Init, Typed

\* What a step that keeps the run in hand has to show for its stage.
StageReached ==
    /\ pc \in Stages \ {"idle"}
    /\ pc \in ServingStages => mem.serving \in Digest
    /\ pc \in AfterPullStages => mem.resolved \in Digest

LEMMA StageKept ==
    ASSUME StageTyped, pc # "idle", exit' = exit, StageReached',
           \/ seen' = seen \/ seen' = [seen EXCEPT !.torn = TRUE]
           \/ seen' = [seen EXCEPT !.strayed = TRUE]
    PROVE  StageTyped'
BY DEF StageTyped, StageReached

LEMMA FailTyped ==
    ASSUME MemTyped, NEW stage, NEW err \in SUBSET ErrorAtom, Fail(stage, err)
    PROVE  MemTyped' /\ StageReached'
BY DEF Fail, MemTyped, FreshMemory, StageReached, Stages, NetworkStages, ServingStages, AfterPullStages

LEMMA OrasFailsTyped ==
    ASSUME MemTyped, NEW err \in SUBSET ErrorAtom, OrasFails(err)
    PROVE  MemTyped' /\ StageReached'
BY DEF OrasFails, MemTyped, FreshMemory, StageReached, Stages, NetworkStages, ServingStages, AfterPullStages

LEMMA PullFailsTyped ==
    ASSUME MemTyped, NEW err \in SUBSET ErrorAtom, PullFails(err)
    PROVE  MemTyped' /\ StageReached'
<1>1. PullError(err) \in SUBSET ErrorAtom
  BY DEF PullError, MemTyped
<1>q. QED
  BY <1>1, FailTyped DEF PullFails

\* What a client resolves is a manifest of the registry's, or nothing.
LEMMA TargetTyped ==
    ASSUME EnvTyped
    PROVE  /\ Target \in Digest \cup {None}
           /\ cfg.platform # "malformed" /\ Target # None => Served \in Digest \cup {None}
BY RunAssumption, WorkspaceAssumption DEF EnvTyped, Target, Served

\* A layer has a blob, and a path and a file name for it.
LEMMA LayersTyped ==
    ASSUME NEW d \in Digest
    PROVE  /\ Manifest[d].layers \in Seq(ToSet(Manifest[d].layers))
           /\ \A i \in 1 .. Len(Manifest[d].layers) :
                 LET l == Manifest[d].layers[i]
                 IN  /\ FilePath(l) \in Titles /\ FileName(l) \in Name
                     /\ l.blob \in Blob /\ l.size \in Int64
                     /\ l \in ToSet(Manifest[d].layers)
<1> DEFINE ls == Manifest[d].layers
<1>1. /\ ls \in Seq(ToSet(ls))
      /\ \A l \in ToSet(ls) : /\ FilePath(l) \in Titles /\ FileName(l) \in Name
                             /\ l.blob \in Blob /\ l.size \in Int64
  BY WorkspaceAssumption DEF FilePath, FileName, Titles
<1>2. \A i \in 1 .. Len(ls) : ls[i] \in ToSet(ls)
  BY <1>1
<1> HIDE DEF ls
<1>q. QED
  BY <1>1, <1>2 DEF ls

LEMMA OneIsPositive == 1 \in Nat \ {0}
OBVIOUS

\* What a client remembers once it has resolved the reference.
LEMMA ResolvedTyped ==
    ASSUME MemTyped, Served \in Digest, pc' = "crane budget",
           mem' = [mem EXCEPT !.serving = Served, !.next = 1,
                              !.budget = newDownloadBudget(cfg.lim)]
    PROVE  MemTyped' /\ StageReached'
<1>1. PICK s : s = Served
  OBVIOUS
<1>2. PICK b : b = newDownloadBudget(cfg.lim)
  OBVIOUS
<1>3. mem' = [mem EXCEPT !.serving = s, !.next = 1, !.budget = b]
  BY <1>1, <1>2
<1>4. DOMAIN mem = DOMAIN FreshMemory
  BY DEF MemTyped
<1>5. /\ DOMAIN mem' = DOMAIN mem /\ mem'.next = 1 /\ mem'.serving = s
      /\ mem'.resolved = mem.resolved /\ mem'.plan = mem.plan
      /\ mem'.err = mem.err /\ mem'.orasErr = mem.orasErr
  BY <1>3, <1>4 DEF FreshMemory
<1>6. mem'.serving \in Digest
  BY <1>1, <1>5
<1>7. MemTyped'
  <2>1. mem'.next \in Nat \ {0}
    BY <1>5, OneIsPositive, Zenon
  <2>q. QED
    BY <1>4, <1>5, <1>6, <2>1, Zenon DEF MemTyped
<1>q. QED
  BY <1>6, <1>7 DEF StageReached, Stages, NetworkStages, ServingStages, AfterPullStages

\* Wherever a title leads a download to, what is there keeps its type.
LEMMA PutTyped ==
    ASSUME Typed, NEW l, NEW content \in Blob \cup {None}, Put(l, content)
    PROVE  /\ TmpTyped' /\ TreeShape(image') /\ DOMAIN referrersDir' = ReferrerDirs
           /\ seen' = seen \/ seen' = [seen EXCEPT !.strayed = TRUE]
<1>1. TmpTyped /\ TreeShape(image) /\ DOMAIN referrersDir = ReferrerDirs
  BY DEF Typed, TreesTyped
<1>2. DOMAIN referrersDir' = ReferrerDirs
  BY <1>1 DEF Put
<1>3. tmp' = tmp \/ tmp' = [tmp EXCEPT !.files[FilePath(l)] = content]
  BY DEF Put, download
<1>4. TmpTyped'
  BY <1>1, <1>3 DEF TmpTyped
<1>5. \/ image' = image
      \/ /\ image # NoTree
         /\ \E items, whole : /\ whole \in {image.whole, FALSE}
                             /\ image' = [image EXCEPT !.items = items, !.whole = whole]
  BY DEF Put
<1>6. TreeShape(image')
  BY <1>1, <1>5 DEF TreeShape
<1>q. QED
  BY <1>2, <1>4, <1>6, PutIsBounded

LEMMA PullTyped ==
    ASSUME Typed, PullNetwork \/ PullLocal
    PROVE  Typed'
<1> USE DEF Typed
<1>1. UNCHANGED <<registry, cfg, staging, exit>> /\ pc # "idle"
  BY DEF PullNetwork, PullLocal, OrasResolve, OrasBlob, CraneResolve, CraneLayout,
         MkdirTmpFails, OrasManifest, OrasDone, CleanTmp, CraneCharge, CraneManifest, PullFrame
<1>b. ASSUME OrasBlob
      PROVE  \/ PullFrame /\ UNCHANGED download
             \/ \E content \in Blob \cup {None} : Put(Layers[mem.next], content)
  <2>1. pc \in ServingStages /\ mem.next <= Len(Layers)
    BY <1>b DEF OrasBlob, ServingStages
  <2>2. mem.serving \in Digest /\ mem.next \in Nat \ {0}
    BY <2>1 DEF StageTyped, MemTyped
  <2>3. Layers[mem.next].blob \in Blob
    BY <2>1, <2>2, LayersTyped DEF Layers
  <2>q. QED
    BY <1>b, <2>3 DEF OrasBlob
<1>f. /\ TreeShape(image') /\ DOMAIN referrersDir' = ReferrerDirs
      /\ seen' = seen \/ seen' = [seen EXCEPT !.strayed = TRUE]
  <2>1. ASSUME PullFrame
        PROVE  /\ TreeShape(image') /\ DOMAIN referrersDir' = ReferrerDirs /\ seen' = seen
    BY <2>1 DEF PullFrame, TreesTyped
  <2>2. OrasBlob \/ PullFrame
    BY DEF PullNetwork, PullLocal, OrasResolve, CraneResolve, CraneLayout,
           MkdirTmpFails, OrasManifest, OrasDone, CleanTmp, CraneCharge, CraneManifest
  <2>q. QED
    BY <1>b, <2>1, <2>2, PutTyped
<1>2. EnvTyped' /\ TreesTyped'
  BY <1>1, <1>f DEF EnvTyped, TreesTyped
<1>3. MemTyped' /\ StageReached' /\ TmpTyped'
  <2> USE ErrorsAreAtoms DEF Status
  <2>t. ASSUME tmp' = tmp PROVE TmpTyped'
    BY <2>t DEF TmpTyped
  <2>1. CASE OrasResolve
    <3>1. \/ \E err \in SUBSET ErrorAtom : OrasFails(err)
          \/ /\ Target # None /\ pc' = "oras manifest"
             /\ mem' = [mem EXCEPT !.serving = Target]
      BY <2>1, RequestErrorsTyped DEF OrasResolve
    <3>2. ASSUME Target # None, pc' = "oras manifest", mem' = [mem EXCEPT !.serving = Target]
          PROVE  MemTyped' /\ StageReached'
      BY <3>2, TargetTyped
         DEF MemTyped, FreshMemory, StageReached, Stages, NetworkStages, ServingStages, AfterPullStages
    <3>q. QED
      BY <2>1, <2>t, <3>1, <3>2, OrasFailsTyped DEF OrasResolve, download
  <2>2. CASE OrasBlob
    <3> DEFINE l == Layers[mem.next]
    <3>1. \/ \E err \in SUBSET ErrorAtom : OrasFails(err)
          \/ pc' = pc /\ mem' = [mem EXCEPT !.next = @ + 1, !.budget = charge(@, l.size)]
      BY <2>2, FetchErrorsTyped DEF OrasBlob
    <3>2. MemTyped' /\ StageReached'
      <4>1. ASSUME pc' = pc, mem' = [mem EXCEPT !.next = @ + 1, !.budget = charge(@, l.size)]
            PROVE  MemTyped' /\ StageReached'
        <5>1. MemTyped' /\ mem'.serving = mem.serving
          BY <4>1 DEF MemTyped, FreshMemory
        <5>q. QED
          BY <2>2, <4>1, <5>1 DEF OrasBlob, StageReached, StageTyped, ServingStages, AfterPullStages
      <4>q. QED
        BY <3>1, <4>1, OrasFailsTyped
    <3>4. TmpTyped'
      BY <1>b, <2>2, <2>t, PutTyped DEF download
    <3>q. QED
      BY <3>2, <3>4
  <2>3. CASE CraneResolve
    <3>1. \/ \E err \in SUBSET ErrorAtom : PullFails(err)
          \/ /\ pc' = "crane budget"
             /\ mem' = [mem EXCEPT !.serving = Served, !.next = 1,
                                   !.budget = newDownloadBudget(cfg.lim)]
             /\ cfg.platform # "malformed" /\ Target # None /\ Served # None
      BY <2>3, RequestErrorsTyped DEF CraneResolve
    <3>2. ASSUME pc' = "crane budget",
                 mem' = [mem EXCEPT !.serving = Served, !.next = 1,
                                    !.budget = newDownloadBudget(cfg.lim)],
                 Served \in Digest
          PROVE  MemTyped' /\ StageReached'
      BY <3>2, ResolvedTyped
    <3>q. QED
      BY <2>3, <2>t, <3>1, <3>2, PullFailsTyped, TargetTyped DEF CraneResolve, download
  <2>4. CASE CraneLayout
    <3>1. pc = "crane layout" /\ mem.serving \in Digest
      BY <2>4 DEF CraneLayout, StageTyped, ServingStages
    <3>2. \/ pc' = "crane manifest" /\ mem' = mem
          \/ \E err \in SUBSET ErrorAtom : PullFails(err)
      BY <2>4, RequestErrorsTyped DEF CraneLayout
    <3>3. ASSUME pc' = "crane manifest", mem' = mem PROVE MemTyped' /\ StageReached'
      BY <3>1, <3>3 DEF MemTyped, StageReached, Stages, NetworkStages, ServingStages, AfterPullStages
    <3>4. PICK l \in Layout :
             tmp' = [tmp EXCEPT !.files[LayoutName] = LayoutBlob, !.layout = l]
      BY <2>4, <3>1 DEF CraneLayout, Layout
    <3>5. TmpTyped'
      BY <3>4, WorkspaceAssumption DEF TmpTyped
    <3>q. QED
      BY <3>2, <3>3, <3>5, PullFailsTyped
  <2>5. CASE MkdirTmpFails
    BY <2>5, <2>t, FailTyped DEF MkdirTmpFails, download
  <2>6. CASE OrasManifest
    <3>1. mem.serving \in Digest
      BY <2>6 DEF OrasManifest, StageTyped, ServingStages
    <3>2. ASSUME pc' = "oras blobs",
                 mem' = [mem EXCEPT !.next = 1, !.budget = newDownloadBudget(cfg.lim)]
          PROVE  MemTyped' /\ StageReached'
      <4>1. /\ DOMAIN mem' = DOMAIN mem /\ mem'.next = 1
            /\ \A x \in DOMAIN mem \ {"next", "budget"} : mem'[x] = mem[x]
        BY <3>2 DEF MemTyped, FreshMemory
      <4>2. MemTyped' /\ mem'.serving = mem.serving
        BY <4>1 DEF MemTyped, FreshMemory
      <4>q. QED
        BY <3>1, <3>2, <4>2
           DEF StageReached, Stages, NetworkStages, ServingStages, AfterPullStages
    <3>q. QED
      BY <2>6, <2>t, <3>2, OrasFailsTyped DEF OrasManifest
  <2>7. CASE OrasDone
    <3>1. mem.serving \in Digest /\ pc' = "pulled" /\ mem' = [mem EXCEPT !.resolved = mem.serving]
      BY <2>7 DEF OrasDone, StageTyped, ServingStages
    <3>q. QED
      BY <2>7, <2>t, <3>1 DEF OrasDone, download, MemTyped, FreshMemory, StageReached, Stages,
                              ServingStages, AfterPullStages
  <2>8. CASE CleanTmp
    <3>1. ASSUME pc' = "crane", mem' = mem PROVE MemTyped' /\ StageReached'
      BY <3>1 DEF MemTyped, StageReached, Stages, NetworkStages, ServingStages, AfterPullStages
    <3>2. EmptyTmp.files \in [Name -> Blob \cup {None}] /\ EmptyTmp.layout \in Layout
      BY DEF EmptyTmp, NoFiles, Layout
    <3>3. \/ tmp' = EmptyTmp
          \/ \E kept : tmp' \in
                [files : {[n \in Name |-> IF n \in kept THEN tmp.files[n] ELSE None]},
                 layout : {tmp.layout, None, "broken"}]
      BY <2>8 DEF CleanTmp, CleanedTmp
    <3>4. TmpTyped'
      BY <3>2, <3>3 DEF TmpTyped, EmptyTmp, Layout
    <3>q. QED
      BY <2>8, <3>1, <3>4, FailTyped DEF CleanTmp
  <2>9. CASE CraneManifest
    <3>1. mem.serving \in Digest
      BY <2>9 DEF CraneManifest, StageTyped, ServingStages
    <3>2. ASSUME pc' = "pulled", mem' = [mem EXCEPT !.resolved = mem.serving]
          PROVE  MemTyped' /\ StageReached'
      BY <3>1, <3>2
         DEF MemTyped, FreshMemory, StageReached, Stages, NetworkStages, ServingStages, AfterPullStages
    <3>q. QED
      BY <2>9, <2>t, <3>2, PullFailsTyped DEF CraneManifest
  <2>10. CASE CraneCharge
    <3>1. pc = "crane budget" /\ mem.serving \in Digest
      BY <2>10 DEF CraneCharge, StageTyped, ServingStages
    <3>2. \/ \E err \in SUBSET ErrorAtom : PullFails(err)
          \/ \E size : /\ mem' = [mem EXCEPT !.next = @ + 1, !.budget = charge(@, size)]
                       /\ pc' = pc
          \/ mem' = mem /\ pc' = "crane layout"
      BY <2>10 DEF CraneCharge
    <3>3. ASSUME NEW size, mem' = [mem EXCEPT !.next = @ + 1, !.budget = charge(@, size)]
          PROVE  MemTyped' /\ mem'.serving = mem.serving
      BY <3>3 DEF MemTyped, FreshMemory
    <3>4. ASSUME pc' \in {"crane budget", "crane layout"}, MemTyped', mem'.serving = mem.serving
          PROVE  StageReached'
      BY <3>1, <3>4 DEF StageReached, Stages, NetworkStages, ServingStages, AfterPullStages
    <3>5. MemTyped' /\ StageReached'
      <4>1. ASSUME mem' = mem, pc' = "crane layout" PROVE MemTyped' /\ StageReached'
        BY <3>4, <4>1 DEF MemTyped
      <4>q. QED
        BY <3>1, <3>2, <3>3, <3>4, <4>1, PullFailsTyped
    <3>q. QED
      BY <2>10, <2>t, <3>5 DEF CraneCharge, download
  <2>q. QED
    BY <2>1, <2>2, <2>3, <2>4, <2>5, <2>6, <2>7, <2>8, <2>9, <2>10 DEF PullNetwork, PullLocal
<1>q. QED
  BY <1>1, <1>2, <1>3, <1>f, StageKept

-----------------------------------------------------------------------------
(* After Pull *)

LaterStep == ReferrersNetwork \/ ReferrersLocal \/ VerifyNetwork \/ VerifyLocal
             \/ UnpackNext \/ AfterPull

\* What Pull fetched and how is settled; a stage leads to another, to the
\* failure path or to the end.
PullSettled ==
    /\ DOMAIN mem' = DOMAIN mem
    /\ mem'.resolved = mem.resolved /\ mem'.serving = mem.serving
    /\ mem'.orasErr = mem.orasErr
    /\ pc' \in (AfterPullStages \ {"pulled"}) \cup {"fail"}
    /\ exit' = exit

LEMMA PullIsOver ==
    ASSUME LaterStep, DOMAIN mem = DOMAIN FreshMemory
    PROVE  /\ UNCHANGED <<registry, cfg, tmp, manifestFile>>
           /\ pc \in AfterPullStages
           /\ \/ PullSettled
              \/ pc' = "idle" /\ mem' = FreshMemory /\ exit' \in {ExitOK, ExitFailure}
<1> USE DEF FreshMemory, AfterPullStages, PullSettled, download
<1>1. CASE Query
  BY <1>1 DEF Query, FetchFails, ReferrersFrame
<1>2. CASE RejectReferrer \/ SkipReferrer
  BY <1>2 DEF RejectReferrer, SkipReferrer, Downloading, ReferrerFails, ReferrersFrame
<1>3. CASE OpenReferrer
  BY <1>3 DEF OpenReferrer, Downloading, ReferrerFails, ReferrersFrame
<1>4. CASE FetchPayload
  BY <1>4 DEF FetchPayload, PayloadLeft, ReferrerFails, ReferrersFrame
<1>5. CASE FileReferrer
  BY <1>5 DEF FileReferrer, ReferrersFrame
<1>6. CASE Downloaded \/ RecordLanded \/ WriteListing
  BY <1>6 DEF Downloaded, RecordLanded, WriteListing, FetchFails, ReferrersFrame
<1>7. CASE VerifyBegin
  BY <1>7 DEF VerifyBegin, VerifyFails, VerifyFrame
<1>8. CASE VerifyBundle \/ BundlesExhausted
  BY <1>8 DEF VerifyBundle, BundlesExhausted, VerifyFails, VerifyFrame
<1>9. CASE WriteVerified
  BY <1>9 DEF WriteVerified, Exits, VerifyFrame
<1>10. CASE UnpackClear
  BY <1>10 DEF UnpackClear, Decide, PopulateFails, Fail, UnpackFrame
<1>11. CASE ExtractLayer
  BY <1>11 DEF ExtractLayer, PopulateFails, UnpackFrame
<1>12. CASE ExtractDone \/ RunUmoci \/ CopyAll
  BY <1>12 DEF ExtractDone, RunUmoci, CopyAll, PopulateFails, UnpackFrame
<1>13. CASE Discard \/ RemovePart \/ RemoveImage
  BY <1>13 DEF Discard, RemovePart, RemoveImage, Fail, UnpackFrame
<1>14. CASE Rename
  BY <1>14 DEF Rename, Fail, Exits
<1>15. CASE AfterPull
  BY <1>15 DEF AfterPull, Exits
<1>q. QED
  BY <1>1, <1>2, <1>3, <1>4, <1>5, <1>6, <1>7, <1>8, <1>9, <1>10, <1>11, <1>12, <1>13,
     <1>14, <1>15
     DEF LaterStep, ReferrersNetwork, ReferrersLocal, VerifyNetwork, VerifyLocal, UnpackNext

\* The rest of the process's memory.
RestTyped ==
    /\ mem.next \in Nat \ {0}
    /\ mem.err \in SUBSET ErrorAtom
    /\ DOMAIN mem.plan = DOMAIN FreshMemory.plan
    /\ mem.plan.route \in {"none", "extract", "umoci", "copy"}

LEMMA RestKept ==
    ASSUME MemTyped, DOMAIN mem' = DOMAIN mem, mem'.plan = mem.plan,
           mem'.err = mem.err \/ mem'.err \in SUBSET ErrorAtom,
           mem'.next \in {mem.next, mem.next + 1, 1}
    PROVE  RestTyped'
BY DEF MemTyped, RestTyped

LEMMA SmallErrors ==
    {Unclassified} \in SUBSET ErrorAtom /\ {ErrLimit} \in SUBSET ErrorAtom
    /\ {ErrVerification} \in SUBSET ErrorAtom
BY ErrorsAreAtoms

LEMMA ReferrersTyped ==
    ASSUME Typed, ReferrersNetwork \/ ReferrersLocal
    PROVE  /\ RestTyped' /\ TreesTyped' /\ DOMAIN referrersDir' = ReferrerDirs
           /\ seen' = seen \/ seen' = [seen EXCEPT !.torn = TRUE]
<1>1. TreesTyped'
  BY DEF ReferrersNetwork, ReferrersLocal, Query, RejectReferrer, SkipReferrer, OpenReferrer,
         FetchPayload, FileReferrer, Downloaded, RecordLanded, WriteListing, ReferrersFrame,
         Typed, TreesTyped
<1>2. DOMAIN referrersDir' = ReferrerDirs
  BY DEF ReferrersNetwork, ReferrersLocal, Query, RejectReferrer, SkipReferrer, OpenReferrer,
         FetchPayload, FileReferrer, Downloaded, RecordLanded, WriteListing, Filed, Typed
<1>3. seen' = seen \/ seen' = [seen EXCEPT !.torn = TRUE]
  BY DEF ReferrersNetwork, ReferrersLocal, Query, RejectReferrer, SkipReferrer, OpenReferrer,
         FetchPayload, FileReferrer, Downloaded, RecordLanded, WriteListing, WriteResultFails
<1>4. MemTyped /\ DOMAIN mem = DOMAIN FreshMemory
  BY DEF Typed, MemTyped
<1>f. ASSUME NEW err \in SUBSET ErrorAtom, FetchFails(err) \/ ReferrerFails(err)
      PROVE  RestTyped'
  BY <1>4, <1>f, RestKept DEF FetchFails, ReferrerFails, FreshMemory
<1>5. RestTyped'
  <2>1. CASE Query
    <3>1. \/ \E err \in SUBSET ErrorAtom : FetchFails(err)
          \/ mem' = mem
          \/ \E listing : mem' = [mem EXCEPT !.listing = listing, !.next = 1,
                                             !.budget = newDownloadBudget(cfg.lim)]
      BY <2>1, RequestErrorsTyped, SmallErrors DEF Query
    <3>q. QED
      BY <1>4, <1>f, <3>1, RestKept DEF FreshMemory
  <2>2. CASE RejectReferrer
    <3>1. \E err \in SUBSET ErrorAtom : ReferrerFails(err)
      BY <2>2, FetchErrorsTyped, SmallErrors DEF RejectReferrer
    <3>q. QED
      BY <1>f, <3>1
  <2>3. CASE SkipReferrer
    BY <1>4, <2>3, RestKept DEF SkipReferrer, FreshMemory
  <2>4. CASE OpenReferrer
    BY <1>4, <1>f, <2>4, RestKept, SmallErrors DEF OpenReferrer, FreshMemory
  <2>5. CASE FetchPayload
    <3>1. \/ \E err \in SUBSET ErrorAtom : ReferrerFails(err)
          \/ mem' = [mem EXCEPT !.files = Append(@, FileName(NextPayload)),
                                !.budget = charge(@, NextPayload.size)]
      BY <2>5, FetchErrorsTyped, SmallErrors DEF FetchPayload
    <3>q. QED
      BY <1>4, <1>f, <3>1, RestKept DEF FreshMemory
  <2>6. CASE FileReferrer
    BY <1>4, <2>6, RestKept DEF FileReferrer, FreshMemory
  <2>7. CASE Downloaded
    BY <1>4, <2>7, RestKept DEF Downloaded
  <2>8. CASE RecordLanded
    BY <1>4, <1>f, <2>8 DEF RecordLanded, MemTyped
  <2>9. CASE WriteListing
    BY <1>4, <1>f, <2>9, RestKept, SmallErrors DEF WriteListing
  <2>q. QED
    BY <2>1, <2>2, <2>3, <2>4, <2>5, <2>6, <2>7, <2>8, <2>9 DEF ReferrersNetwork, ReferrersLocal
<1>q. QED
  BY <1>1, <1>2, <1>3, <1>5

LEMMA VerifyTyped ==
    ASSUME Typed, VerifyNetwork \/ VerifyLocal
    PROVE  /\ RestTyped' \/ mem' = FreshMemory
           /\ TreesTyped' /\ DOMAIN referrersDir' = ReferrerDirs
           /\ seen' = seen \/ seen' = [seen EXCEPT !.torn = TRUE]
<1>1. TreesTyped' /\ DOMAIN referrersDir' = ReferrerDirs
  BY DEF VerifyNetwork, VerifyLocal, VerifyBegin, VerifyBundle, BundlesExhausted,
         WriteVerified, VerifyFrame, Typed, TreesTyped
<1>2. seen' = seen \/ seen' = [seen EXCEPT !.torn = TRUE]
  BY DEF VerifyNetwork, VerifyLocal, VerifyBegin, VerifyBundle, BundlesExhausted,
         WriteVerified, WriteResultFails
<1>3. MemTyped /\ DOMAIN mem = DOMAIN FreshMemory
  BY DEF Typed, MemTyped
<1>f. ASSUME NEW err \in SUBSET ErrorAtom, NEW time, VerifyFails(err, time)
      PROVE  RestTyped'
  BY <1>3, <1>f, RestKept DEF VerifyFails, FreshMemory
<1>u. ASSUME NEW v, mem' = [mem EXCEPT !.untried = v] \/ mem' = [mem EXCEPT !.verification = v]
      PROVE  RestTyped'
  BY <1>3, <1>u, RestKept DEF FreshMemory
<1>4. CASE VerifyBegin
  <2>1. \/ \E err \in {{Unclassified}, {ErrVerification}} : VerifyFails(err, {})
        \/ mem' = [mem EXCEPT !.untried = bundlePaths]
    BY <1>4, Zenon DEF VerifyBegin
  <2>q. QED
    BY <1>1, <1>2, <1>f, <1>u, <2>1, SmallErrors
<1>5. CASE VerifyBundle
  <2>1. PICK p \in mem.untried :
          \/ VerifyFails({Unclassified}, {})
          \/ \E T \in VerifiedTimes(BundleAt(p)) :
                mem' = [mem EXCEPT !.verification =
                            [verdict |-> "verified", time |-> observedTimestamp(T)]]
          \/ mem' = [mem EXCEPT !.untried = Untried(p)]
    BY <1>5, Zenon DEF VerifyBundle
  <2>2. RestTyped'
    BY <1>f, <1>u, <2>1, SmallErrors, Zenon
  <2>q. QED
    BY <1>1, <1>2, <2>2
<1>6. CASE BundlesExhausted
  <2>1. RestTyped'
    BY <1>3, <1>6, RestKept, SmallErrors DEF BundlesExhausted, VerifyFails, FreshMemory
  <2>q. QED
    BY <1>1, <1>2, <2>1
<1>7. CASE WriteVerified
  BY <1>1, <1>2, <1>3, <1>7, RestKept DEF WriteVerified, Exits
<1>q. QED
  BY <1>1, <1>2, <1>4, <1>5, <1>6, <1>7 DEF VerifyNetwork, VerifyLocal

LEMMA UnpackTyped ==
    ASSUME Typed, UnpackNext
    PROVE  /\ RestTyped' \/ mem' = FreshMemory
           /\ TreesTyped' /\ DOMAIN referrersDir' = ReferrerDirs
           /\ seen' = seen
<1>1. DOMAIN referrersDir' = ReferrerDirs /\ seen' = seen
  BY DEF UnpackNext, UnpackClear, ExtractLayer, ExtractDone, RunUmoci, CopyAll, Discard,
         RemovePart, RemoveImage, Rename, UnpackFrame, Typed
<1>2. MemTyped /\ DOMAIN mem = DOMAIN FreshMemory
  BY DEF Typed, MemTyped
<1>3. TreeShape(NoTree) /\ TreeShape(staging) /\ TreeShape(image)
  BY DEF TreeShape, Typed, TreesTyped
<1>4. \A items : Lay(items) => TreeShape(staging')
  <2>1. seen.run \in 1 .. MaxRuns
    BY PullIsOver, RunAssumption, <1>2 DEF LaterStep, Typed, StageTyped, AfterPullStages
  <2>q. QED
    BY <2>1 DEF Lay, Tree, TreeShape
<1>f. ASSUME NEW err \in SUBSET ErrorAtom, NEW stage, Fail(stage, err) \/ PopulateFails(err)
      PROVE  RestTyped'
  BY <1>2, <1>f, RestKept DEF Fail, PopulateFails, FreshMemory
<1>5. CASE UnpackClear
  <2>1. CASE Decide /\ manifestFile # Garbage
    <3>1. /\ DOMAIN mem' = DOMAIN mem /\ mem'.next = mem.next /\ mem'.err = mem.err
          /\ DOMAIN mem'.plan = DOMAIN FreshMemory.plan
          /\ mem'.plan.route = Route
      BY <1>2, <2>1 DEF Decide, FreshMemory
    <3>2. RestTyped'
      BY <1>2, <3>1 DEF RestTyped, MemTyped, Route
    <3>q. QED
      BY <1>1, <1>3, <1>5, <3>2 DEF UnpackClear, TreesTyped
  <2>q. QED
    BY <1>1, <1>3, <1>5, <1>f, <2>1, SmallErrors DEF UnpackClear, Decide, TreesTyped
<1>6. CASE ExtractLayer
  <2>1. \/ \E i : mem' = [mem EXCEPT !.plan.left = @ \ {i}]
        \/ \E err \in SUBSET ErrorAtom : PopulateFails(err)
    BY <1>6, SmallErrors DEF ExtractLayer
  <2>2. ASSUME NEW i, mem' = [mem EXCEPT !.plan.left = @ \ {i}]
        PROVE  RestTyped'
    BY <1>2, <2>2 DEF RestTyped, MemTyped, FreshMemory
  <2>3. (\E items : Lay(items)) /\ image' = image
    BY <1>6 DEF ExtractLayer
  <2>q. QED
    BY <1>1, <1>3, <1>4, <1>f, <2>1, <2>2, <2>3 DEF TreesTyped
<1>7. CASE ExtractDone
  BY <1>1, <1>2, <1>3, <1>7, RestKept DEF ExtractDone, TreesTyped, trees
<1>8. CASE RunUmoci
  <2>1. TreeShape(staging') /\ image' = image
    BY <1>3, <1>4, <1>8 DEF RunUmoci
  <2>q. QED
    BY <1>1, <1>2, <1>3, <1>8, <1>f, <2>1, RestKept, SmallErrors DEF RunUmoci, TreesTyped
<1>9. CASE CopyAll
  <2>1. TreeShape(staging') /\ image' = image
    BY <1>4, <1>9 DEF CopyAll
  <2>q. QED
    BY <1>1, <1>2, <1>3, <1>9, <1>f, <2>1, RestKept, SmallErrors DEF CopyAll, TreesTyped
<1>10. CASE Discard
  BY <1>1, <1>2, <1>3, <1>10, <1>f DEF Discard, TreesTyped, MemTyped
<1>11. CASE RemovePart
  <2>1. TreeShape(image')
    BY <1>3, <1>11 DEF RemovePart, TreeShape
  <2>q. QED
    BY <1>1, <1>2, <1>3, <1>11, <2>1, RestKept DEF RemovePart, TreesTyped
<1>12. CASE RemoveImage
  BY <1>1, <1>2, <1>3, <1>12, <1>f, RestKept, SmallErrors DEF RemoveImage, TreesTyped
<1>13. CASE Rename
  BY <1>1, <1>3, <1>13, <1>f, SmallErrors DEF Rename, Exits, TreesTyped, trees
<1>q. QED
  BY <1>5, <1>6, <1>7, <1>8, <1>9, <1>10, <1>11, <1>12, <1>13 DEF UnpackNext

LEMMA LaterTyped ==
    ASSUME Typed, LaterStep
    PROVE  Typed'
<1>1. /\ EnvTyped /\ TmpTyped /\ MemTyped /\ StageTyped /\ TreesTyped
      /\ DOMAIN mem = DOMAIN FreshMemory /\ DOMAIN referrersDir = ReferrerDirs
  BY DEF Typed, MemTyped
<1>2. /\ UNCHANGED <<registry, cfg, tmp, manifestFile>> /\ pc \in AfterPullStages
      /\ \/ PullSettled
         \/ pc' = "idle" /\ mem' = FreshMemory /\ exit' \in {ExitOK, ExitFailure}
  BY <1>1, PullIsOver
<1>3. /\ RestTyped' \/ mem' = FreshMemory
      /\ TreesTyped' /\ DOMAIN referrersDir' = ReferrerDirs
      /\ seen' = seen \/ seen' = [seen EXCEPT !.torn = TRUE]
  <2>1. CASE AfterPull
    <3>1. UNCHANGED trees /\ UNCHANGED referrersDir /\ (mem' = mem \/ mem' = FreshMemory)
      BY <2>1 DEF AfterPull, Exits
    <3>2. seen' = seen \/ seen' = [seen EXCEPT !.torn = TRUE]
      BY <2>1 DEF AfterPull, WriteResultFails
    <3>q. QED
      BY <1>1, <3>1, <3>2, RestKept DEF trees, TreesTyped
  <2>q. QED
    BY <2>1, ReferrersTyped, VerifyTyped, UnpackTyped DEF LaterStep
<1>4. EnvTyped' /\ TmpTyped'
  BY <1>1, <1>2 DEF EnvTyped, TmpTyped
<1>5. CASE PullSettled
  <2>1. RestTyped'
    BY <1>3 DEF RestTyped, FreshMemory, NoError
  <2>2. MemTyped'
    BY <1>1, <1>5, <2>1 DEF MemTyped, RestTyped, PullSettled
  <2>3. StageReached'
    BY <1>1, <1>2, <1>5
       DEF StageTyped, StageReached, PullSettled, Stages, ServingStages, AfterPullStages
  <2>4. StageTyped'
    BY <1>1, <1>2, <1>3, <1>5, <2>3, StageKept DEF PullSettled, AfterPullStages
  <2>q. QED
    BY <1>3, <1>4, <2>2, <2>4 DEF Typed
<1>6. CASE pc' = "idle" /\ mem' = FreshMemory /\ exit' \in {ExitOK, ExitFailure}
  <2>1. MemTyped'
    BY <1>6 DEF MemTyped, FreshMemory, NoError
  <2>2. exit' \in 0 .. 5 /\ exit' # Running
    BY <1>6 DEF ExitOK, ExitFailure, Running
  <2>3. StageTyped'
    BY <1>1, <1>3, <1>6, <2>2 DEF StageTyped, Stages, ServingStages, AfterPullStages
  <2>q. QED
    BY <1>3, <1>4, <2>1, <2>3 DEF Typed
<1>q. QED
  BY <1>2, <1>5, <1>6

LEMMA TypedStep == Typed /\ [Next]_vars => Typed'
<1> SUFFICES ASSUME Typed, [Next]_vars PROVE Typed'
  OBVIOUS
<1>1. CASE Start \/ StartRefused
  <2>1. EnvTyped'
    BY <1>1 DEF Start, StartRefused, Typed, EnvTyped
  <2>2. pc = "idle" /\ mem = FreshMemory /\ seen.run \in 0 .. MaxRuns /\ seen.run < MaxRuns
    BY <1>1 DEF Start, StartRefused, Typed, StageTyped
  <2>3. MemTyped' /\ TmpTyped' /\ TreesTyped' /\ DOMAIN referrersDir' = ReferrerDirs
    BY <1>1 DEF Start, StartRefused, Typed, MemTyped, TmpTyped, TreesTyped, download, trees
  <2>4. /\ DOMAIN seen' = DOMAIN seen /\ seen'.run = seen.run + 1
        /\ pc' # "idle" => seen'.started
    BY <1>1 DEF Start, StartRefused, NewRun, Typed, StageTyped
  <2>5. \/ pc' = "oras" /\ exit' = Running
        \/ pc' = "idle" /\ exit' = ExitFailure /\ mem' = FreshMemory
    BY <1>1, <2>2 DEF Start, StartRefused
  <2>6. ExitFailure \in 0 .. 5 /\ ExitFailure # Running
    BY DEF ExitFailure, Running
  <2>7. seen'.run \in 1 .. MaxRuns
    BY <2>2, <2>4, RunAssumption
  <2>8. DOMAIN seen' = {"run", "moves", "before", "fresh", "torn", "started", "strayed"}
    BY <2>4 DEF Typed, StageTyped
  <2>9. StageTyped'
    <3>1. seen'.run \in 0 .. MaxRuns /\ seen'.run # 0
      BY <2>7, RunAssumption
    <3>2. CASE pc' = "oras" /\ exit' = Running
      BY <2>4, <2>8, <3>1, <3>2
         DEF StageTyped, Stages, NetworkStages, ServingStages, AfterPullStages
    <3>3. CASE pc' = "idle" /\ exit' = ExitFailure /\ mem' = FreshMemory
      BY <2>6, <2>8, <3>1, <3>3 DEF StageTyped, Stages, ServingStages, AfterPullStages
    <3>q. QED
      BY <2>5, <3>2, <3>3
  <2>q. QED
    BY <2>1, <2>3, <2>9 DEF Typed
<1>2. CASE WriteFailure
  <2>1. MemTyped'
    BY <1>2 DEF WriteFailure, Exits, MemTyped, FreshMemory, NoError
  <2>2. exit' \in 0 .. 5 /\ exit' # Running /\ pc' = "idle" /\ mem' = FreshMemory /\ pc = "fail"
    BY <1>2, ExitCodeTyped DEF WriteFailure, Exits, Running
  <2>3. seen' = seen \/ seen' = [seen EXCEPT !.torn = TRUE]
    BY <1>2 DEF WriteFailure, WriteResultFails
  <2>4. StageTyped'
    BY <2>2, <2>3 DEF Typed, StageTyped, Stages, ServingStages, AfterPullStages
  <2>q. QED
    BY <1>2, <2>1, <2>4 DEF WriteFailure, Typed, EnvTyped, TmpTyped, TreesTyped, download, trees
<1>3. CASE Crash
  <2>0. /\ TmpTyped' /\ TreeShape(image') /\ DOMAIN referrersDir' = ReferrerDirs
        /\ seen' = seen \/ seen' = [seen EXCEPT !.strayed = TRUE]
    <3>1. /\ TmpTyped /\ TreeShape(image) /\ DOMAIN referrersDir = ReferrerDirs
          /\ {PartBlob, LayoutBlob} \subseteq Blob
      BY WorkspaceAssumption DEF Typed, TreesTyped
    <3>2. CASE UNCHANGED <<tmp, referrersDir, image, seen>>
      BY <3>1, <3>2 DEF TmpTyped
    <3>3. CASE TornDownload
      <4>1. CASE pc = "oras blobs"
        BY <3>1, <3>3, <4>1, PutTyped DEF TornDownload
      <4>2. CASE pc # "oras blobs"
        <5>1. /\ UNCHANGED <<referrersDir, image, seen>>
              /\ \/ tmp' = tmp
                 \/ tmp' = [tmp EXCEPT !.files[LayoutName] = LayoutBlob, !.layout = "broken"]
          BY <3>3, <4>2 DEF TornDownload
        <5>q. QED
          BY <3>1, <5>1 DEF TmpTyped, Layout
      <4>q. QED
        BY <4>1, <4>2
    <3>4. CASE TornReferrers
      <4>1. UNCHANGED <<tmp, image, seen>> /\ DOMAIN referrersDir' = ReferrerDirs
        BY <3>1, <3>4 DEF TornReferrers, Filed, download
      <4>q. QED
        BY <3>1, <4>1 DEF TmpTyped
    <3>q. QED
      BY <1>3, <3>2, <3>3, <3>4 DEF Crash, TornRecord, download
  <2>1. MemTyped'
    BY <1>3 DEF Crash, MemTyped, FreshMemory, NoError
  <2>2. StageTyped'
    <3>1. /\ pc' = "idle" /\ mem' = FreshMemory /\ exit' = Killed
          /\ seen' = seen \/ seen' = [seen EXCEPT !.strayed = TRUE]
      BY <1>3, <2>0 DEF Crash
    <3>2. Killed # Running
      BY DEF Killed, Running
    <3>q. QED
      BY <3>1, <3>2 DEF Typed, StageTyped, Stages, ServingStages, AfterPullStages
  <2>q. QED
    BY <1>3, <2>0, <2>1, <2>2 DEF Crash, Typed, EnvTyped, TreesTyped
<1>4. CASE TagMoves
  <2>1. EnvTyped'
    BY <1>4 DEF TagMoves, Typed, EnvTyped
  <2>2. StageTyped'
    BY <1>4 DEF TagMoves, Typed, StageTyped
  <2>q. QED
    BY <1>4, <2>1, <2>2 DEF TagMoves, Typed, MemTyped, TmpTyped, TreesTyped, download, trees
<1>5. CASE UNCHANGED vars
  BY <1>5 DEF vars, Typed, EnvTyped, MemTyped, TmpTyped, TreesTyped, StageTyped
<1>q. QED
  BY <1>1, <1>2, <1>3, <1>4, <1>5, PullTyped, LaterTyped DEF Next, Network, Local, LaterStep

LEMMA AlwaysTyped == Spec => []Typed
BY TypedInit, TypedStep, PTL DEF Spec

\* The variables keep their types, and a run starts from a fresh memory (RunE).
THEOREM CommandTyped == Spec => []TypeOK
BY AlwaysTyped, TypedIsTypeOK, PTL

=============================================================================
