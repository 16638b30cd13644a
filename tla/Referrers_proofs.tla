-------------------------- MODULE Referrers_proofs --------------------------
(***************************************************************************)
(* What FetchReferrers files and lists, and what Verify makes of it, for   *)
(* all listings, attachments, flags and trusted roots.                     *)
(***************************************************************************)
EXTENDS Verification_proofs, Outcome_proofs

-----------------------------------------------------------------------------
(* The invariants *)

Stamped ==
    /\ pc \in BeforeListing => mem.verification.verdict # "verified" /\ mem.listing = <<>>
    /\ TimestampObserved

\* A referrer that is filed as it should be, under the digest it is about.
Ascribed(r) == Vouched(r) /\ Attached[r.of].subject = mem.resolved

\* From the write of the listing on, result.json lists what the process has.
Listed ==
    /\ resultFile.kind = "result" => resultFile.run \in 0 .. seen.run
    /\ pc \in {"verified", "fail"} \cup UnpackStages => \A r \in ToSet(mem.referrers) : Ascribed(r)
    /\ pc \in {"verify", "bundles", "verified"} \cup UnpackStages /\ ~seen.torn =>
          resultFile.referrers = mem.referrers /\ resultFile.digest = mem.resolved
    /\ pc = "idle" => ListedIsFiled

\* The entry and all of its payload are among the filed referrers.
FiledFor(e) ==
    \E r \in ToSet(mem.referrers) :
        /\ r.type = ArtifactType(e) /\ r.of = e.of
        /\ IsSeq(r.files)
        /\ \A l \in ToSet(Payload(e)) : FileName(l) \in ToSet(r.files)

\* Every entry about the digest is filed in its turn, every bundle tried.
Walked ==
    /\ pc \in {"download", "payload"} =>
          \A k \in 1 .. mem.next - 1 : AboutUs(mem.listing[k]) => FiledFor(mem.listing[k])
    /\ pc = "payload" =>
          \A k \in 1 .. Len(mem.files) - 1 : FileName(Payload(Current)[k]) \in ToSet(mem.files)
    /\ pc \in {"list", "verify", "bundles"} =>
          /\ IsSeq(mem.referrers) /\ mem.listing \in Listings \cup {<<>>}
          /\ \A e \in ToSet(mem.listing) : AboutUs(e) => FiledFor(e)
    /\ pc = "bundles" => \A p \in bundlePaths \ mem.untried : ~Satisfies(BundleAt(p))
    /\ RefusedOnlyUnsigned

-----------------------------------------------------------------------------
(* The steps around the referrers *)

\* What is asked, what is filed and what is listed stay.
Untouched == SameQuestion /\ mem'.referrers = mem.referrers /\ referrersDir' = referrersDir

ReferrersStep == ReferrersNetwork \/ ReferrersLocal
VerifyStep == VerifyNetwork \/ VerifyLocal

\* Pull asks nothing about referrers; a title may lead it over result.json.
LEMMA PullQuiet ==
    ASSUME Typed, PullStep
    PROVE  /\ pc \in BeforeListing /\ pc' \in BeforeListing \cup {"fail"}
           /\ pc # "idle" /\ pc' # "idle"
           /\ mem'.listing = mem.listing /\ mem'.referrers = mem.referrers
           /\ mem'.verification = mem.verification /\ cfg' = cfg
           /\ resultFile' \in {resultFile, NoResult, TornResult}
           /\ seen' \in {seen, [seen EXCEPT !.strayed = TRUE]}
<1> USE DEF BeforeListing
<1>d. DOMAIN mem = DOMAIN FreshMemory
  BY DEF Typed, MemTyped
<1>1. CASE OrasResolve
  BY <1>1, <1>d DEF OrasResolve, OrasFails, PullFrame, FreshMemory
<1>2. CASE OrasBlob
  <2>1. PullFrame \/ \E content : Put(Layers[mem.next], content)
    BY <1>2 DEF OrasBlob
  <2>2. /\ resultFile' \in {resultFile, NoResult, TornResult}
        /\ seen' \in {seen, [seen EXCEPT !.strayed = TRUE]}
    BY <2>1 DEF PullFrame, Put
  <2>3. /\ pc = "oras blobs" /\ pc' \in {"oras blobs", "clean"} /\ cfg' = cfg
        /\ mem'.listing = mem.listing /\ mem'.referrers = mem.referrers
        /\ mem'.verification = mem.verification
    BY <1>2, <1>d DEF OrasBlob, OrasFails, PullFrame, FreshMemory
  <2>q. QED
    BY <2>2, <2>3
<1>3. CASE CraneResolve
  BY <1>3, <1>d DEF CraneResolve, PullFails, Fail, PullFrame, FreshMemory
<1>4. CASE CraneLayout
  BY <1>4, <1>d DEF CraneLayout, PullFails, Fail, PullFrame, FreshMemory
<1>5. CASE MkdirTmpFails
  BY <1>5, <1>d DEF MkdirTmpFails, Fail, PullFrame, FreshMemory
<1>6. CASE OrasManifest
  BY <1>6, <1>d DEF OrasManifest, OrasFails, PullFrame, FreshMemory
<1>7. CASE OrasDone
  BY <1>7, <1>d DEF OrasDone, PullFrame, FreshMemory
<1>8. CASE CleanTmp
  BY <1>8, <1>d DEF CleanTmp, Fail, PullFrame, FreshMemory
<1>9. CASE CraneManifest
  BY <1>9, <1>d DEF CraneManifest, PullFails, Fail, PullFrame, FreshMemory
<1>10. CASE CraneCharge
  BY <1>10, <1>d DEF CraneCharge, PullFails, Fail, PullFrame, FreshMemory
<1>q. QED
  BY <1>1, <1>2, <1>3, <1>4, <1>5, <1>6, <1>7, <1>8, <1>9, <1>10
     DEF PullStep, PullNetwork, PullLocal

\* Unpack asks and files nothing.
LEMMA UnpackQuiet ==
    ASSUME Typed, UnpackNext
    PROVE  /\ pc \in UnpackStages
           /\ \/ pc' = "idle" /\ mem' = FreshMemory
              \/ /\ pc' \in UnpackStages \cup {"fail"}
                 /\ SameQuestion /\ mem'.referrers = mem.referrers
                 /\ mem'.verification = mem.verification
           /\ UNCHANGED <<cfg, referrersDir, resultFile, seen>>
<1> USE DEF UnpackStages, SameQuestion
<1>d. DOMAIN mem = DOMAIN FreshMemory
  BY DEF Typed, MemTyped
<1>1. CASE UnpackClear
  BY <1>1, <1>d DEF UnpackClear, Decide, PopulateFails, Fail, UnpackFrame, FreshMemory
<1>2. CASE ExtractLayer
  BY <1>2, <1>d DEF ExtractLayer, PopulateFails, UnpackFrame, FreshMemory
<1>3. CASE ExtractDone
  BY <1>3 DEF ExtractDone, UnpackFrame
<1>4. CASE RunUmoci
  BY <1>4, <1>d DEF RunUmoci, PopulateFails, UnpackFrame, FreshMemory
<1>5. CASE CopyAll
  BY <1>5, <1>d DEF CopyAll, PopulateFails, UnpackFrame, FreshMemory
<1>6. CASE Discard
  BY <1>6, <1>d DEF Discard, Fail, UnpackFrame, FreshMemory
<1>7. CASE RemovePart
  BY <1>7 DEF RemovePart, UnpackFrame
<1>8. CASE RemoveImage
  BY <1>8, <1>d DEF RemoveImage, Fail, UnpackFrame, FreshMemory
<1>9. CASE Rename
  BY <1>9, <1>d DEF Rename, Exits, Fail, FreshMemory
<1>q. QED
  BY <1>1, <1>2, <1>3, <1>4, <1>5, <1>6, <1>7, <1>8, <1>9 DEF UnpackNext

\* Verify reads the files and the list.
LEMMA VerifyQuiet ==
    ASSUME Typed, VerifyStep
    PROVE  /\ pc \in {"verify", "bundles", "verified"}
           /\ UNCHANGED <<cfg, referrersDir>>
           /\ \/ pc' = "idle" /\ mem' = FreshMemory
              \/ pc' \in {"bundles", "verified", "clear", "fail"} /\ Untouched
<1> USE DEF SameQuestion, Untouched
<1>d. DOMAIN mem = DOMAIN FreshMemory
  BY DEF Typed, MemTyped
<1>1. CASE VerifyBegin
  BY <1>1, <1>d DEF VerifyBegin, VerifyFails, VerifyFrame, FreshMemory
<1>2. CASE VerifyBundle
  BY <1>2, <1>d DEF VerifyBundle, VerifyFails, VerifyFrame, FreshMemory
<1>3. CASE BundlesExhausted
  BY <1>3, <1>d DEF BundlesExhausted, VerifyFails, VerifyFrame, FreshMemory
<1>4. CASE WriteVerified
  BY <1>4, <1>d DEF WriteVerified, Exits, VerifyFrame, FreshMemory
<1>q. QED
  BY <1>1, <1>2, <1>3, <1>4 DEF VerifyStep, VerifyNetwork, VerifyLocal

\* Every step is a part's or the environment's.
LEMMA Parts ==
    [Next]_vars =>
        \/ PullStep \/ ReferrersStep \/ VerifyStep \/ UnpackNext \/ AfterPull
        \/ WriteFailure \/ Start \/ StartRefused \/ Crash \/ TagMoves \/ UNCHANGED vars
BY DEF Next, Network, Local, PullStep, ReferrersStep, VerifyStep

\* A run ends, or one starts: nothing of the last is in memory.
LEMMA Afresh ==
    ASSUME Typed, WriteFailure \/ Start \/ StartRefused \/ Crash
    PROVE  mem' = FreshMemory /\ pc' \in {"idle", "oras"}
BY DEF WriteFailure, Start, StartRefused, Crash, Exits, Typed, StageTyped

LEMMA Standstill ==
    ASSUME TagMoves \/ UNCHANGED vars
    PROVE  UNCHANGED <<pc, cfg, mem, referrersDir, resultFile, exit>> /\ Untouched
BY DEF TagMoves, vars, Untouched, SameQuestion

-----------------------------------------------------------------------------
(* The time of a signature *)

LEMMA TimesObserved ==
    ASSUME NEW b, NEW T \in VerifiedTimes(b)
    PROVE  observedTimestamp(T) \subseteq {"none", "none-bare-key", "none-rekor-v2"} \cup ProvenTimes(b)
<1>1. T \subseteq ProvenTimes(b) \cup {"now"} /\ (PlannedTime = "tsa" => "tsa" \in T)
  BY DEF VerifiedTimes
<1>2. PlannedTime \in {"none-bare-key", "tsa", "rekor"}
  BY DEF PlannedTime
<1>q. QED
  BY <1>1, <1>2 DEF observedTimestamp

LEMMA StampedStep ==
    ASSUME Typed, Gate, Stamped, [Next]_vars
    PROVE  Stamped'
<1> USE DEF BeforeListing
<1>d. DOMAIN mem = DOMAIN FreshMemory
  BY DEF Typed, MemTyped
<1>u. ASSUME mem'.verification.verdict # "verified", pc' \notin BeforeListing PROVE Stamped'
  BY <1>u DEF Stamped, TimestampObserved
<1>k. ASSUME SameQuestion, mem'.verification = mem.verification, pc' \notin BeforeListing
      PROVE  Stamped'
  BY <1>k DEF Stamped, TimestampObserved, SameQuestion, MayBeBundle, AboutUs, Good, Signed
<1>f. ASSUME mem' = FreshMemory PROVE Stamped'
  BY <1>f DEF Stamped, TimestampObserved, FreshMemory
<1>1. CASE PullStep
  BY <1>1, PullQuiet DEF Stamped, TimestampObserved
<1>2. CASE ReferrersStep
  <2>1. CASE Query
    <3>1. mem.verification.verdict # "verified" /\ mem'.verification = mem.verification
      BY <1>d, <2>1 DEF Query, FetchFails, FreshMemory, Stamped
    <3>2. pc' \notin BeforeListing
      BY <2>1 DEF Query, FetchFails
    <3>q. QED
      BY <1>u, <3>1, <3>2
  <2>2. CASE RejectReferrer \/ SkipReferrer \/ OpenReferrer
    BY <1>d, <1>k, <2>2 DEF RejectReferrer, SkipReferrer, OpenReferrer, Downloading,
       ReferrerFails, ReferrersFrame, SameQuestion, FreshMemory
  <2>3. CASE FetchPayload
    BY <1>d, <1>k, <2>3 DEF FetchPayload, PayloadLeft, ReferrerFails, ReferrersFrame,
       SameQuestion, FreshMemory
  <2>4. CASE FileReferrer \/ Downloaded
    BY <1>d, <1>k, <2>4 DEF FileReferrer, Downloaded, ReferrersFrame, SameQuestion, FreshMemory
  <2>5. CASE RecordLanded \/ WriteListing
    BY <1>d, <1>k, <2>5 DEF RecordLanded, WriteListing, FetchFails, ReferrersFrame,
       SameQuestion, FreshMemory
  <2>q. QED
    BY <1>2, <2>1, <2>2, <2>3, <2>4, <2>5 DEF ReferrersStep, ReferrersNetwork, ReferrersLocal
<1>3. CASE VerifyStep
  <2>1. ASSUME NEW err, NEW time, VerifyFails(err, time) PROVE Stamped'
    BY <1>d, <1>u, <2>1 DEF VerifyFails, FreshMemory
  <2>2. CASE VerifyBegin
    BY <1>d, <1>k, <2>1, <2>2 DEF VerifyBegin, VerifyFrame, SameQuestion, FreshMemory
  <2>3. CASE VerifyBundle
    <3>1. pc = "bundles" /\ cfg' = cfg
      BY <2>3 DEF VerifyBundle, VerifyFrame
    <3>2. PICK p \in mem.untried :
              \/ VerifyFails({Unclassified}, {})
              \/ /\ Satisfies(BundleAt(p))
                 /\ \E T \in VerifiedTimes(BundleAt(p)) :
                       mem' = [mem EXCEPT !.verification =
                                   [verdict |-> "verified", time |-> observedTimestamp(T)]]
                 /\ pc' = "verified"
              \/ mem' = [mem EXCEPT !.untried = Untried(p)] /\ pc' = pc
      BY <2>3, Zenon DEF VerifyBundle
    <3>3. CASE /\ Satisfies(BundleAt(p))
               /\ \E T \in VerifiedTimes(BundleAt(p)) :
                     mem' = [mem EXCEPT !.verification =
                                 [verdict |-> "verified", time |-> observedTimestamp(T)]]
               /\ pc' = "verified"
      <4>1. PICK b : b = BundleAt(p)
        OBVIOUS
      <4>2. PICK T \in VerifiedTimes(b) :
                mem' = [mem EXCEPT !.verification =
                            [verdict |-> "verified", time |-> observedTimestamp(T)]]
        BY <3>3, <4>1
      <4>3. SameQuestion /\ mem'.verification.time = observedTimestamp(T)
        BY <1>d, <3>1, <4>2 DEF SameQuestion, FreshMemory
      <4>4. PICK e \in ToSet(mem.listing) : MayBeBundle(e) /\ b \in Carried(e)
        BY <3>1, <4>1, OpenedBundle
      <4>5. Good(b)
        BY <3>3, <4>1, SatisfiesIsGood
      <4>6. mem'.verification.time
                \subseteq {"none", "none-bare-key", "none-rekor-v2"} \cup ProvenTimes(b)
        BY <4>2, <4>3, TimesObserved
      <4>7. Good(b)' /\ MayBeBundle(e)' /\ e \in ToSet(mem'.listing)
        BY <4>3, <4>4, <4>5 DEF SameQuestion, Good, MayBeBundle, AboutUs
      <4>q. QED
        BY <3>3, <4>4, <4>6, <4>7 DEF Stamped, TimestampObserved
    <3>4. CASE mem' = [mem EXCEPT !.untried = Untried(p)] /\ pc' = pc
      BY <1>d, <1>k, <3>1, <3>4 DEF SameQuestion, FreshMemory
    <3>q. QED
      BY <2>1, <3>2, <3>3, <3>4
  <2>4. CASE BundlesExhausted
    BY <2>1, <2>4 DEF BundlesExhausted
  <2>5. CASE WriteVerified
    BY <1>f, <1>k, <2>5 DEF WriteVerified, Exits, VerifyFrame, SameQuestion
  <2>q. QED
    BY <1>3, <2>2, <2>3, <2>4, <2>5 DEF VerifyStep, VerifyNetwork, VerifyLocal
<1>4. CASE UnpackNext
  BY <1>4, <1>f, <1>k, UnpackQuiet DEF UnpackStages
<1>5. CASE AfterPull
  <2>1. pc = "pulled" /\ cfg' = cfg /\ (mem' = mem \/ mem' = FreshMemory)
    BY <1>5 DEF AfterPull, Exits
  <2>q. QED
    BY <1>f, <2>1 DEF Stamped, TimestampObserved
<1>6. CASE WriteFailure \/ Start \/ StartRefused \/ Crash
  BY <1>6, <1>f, Afresh
<1>7. CASE TagMoves \/ UNCHANGED vars
  BY <1>7, Standstill DEF Stamped, TimestampObserved, MayBeBundle, AboutUs, Good
<1>q. QED
  BY <1>1, <1>2, <1>3, <1>4, <1>5, <1>6, <1>7, Parts

LEMMA GateAlways == Spec => []Gate
<1>1. Typed /\ Gate /\ [Next]_vars => Gate'
  BY GateStep DEF Typed, MemTyped
<1>q. QED
  BY <1>1, AlwaysTyped, GateInit, PTL DEF Spec

\* The time in result.json is one that a good bundle on the resolved digest
\* proves, or none: never the clock's, never a planned one (observedTimestamp).
THEOREM TimesAreProven == Spec => []TimestampObserved
<1>1. Init => Stamped
  BY DEF Init, Stamped, TimestampObserved, FreshMemory
<1>2. Stamped => TimestampObserved
  BY DEF Stamped
<1>q. QED
  BY <1>1, <1>2, AlwaysTyped, GateAlways, StampedStep, PTL DEF Spec

-----------------------------------------------------------------------------
(* The list in result.json *)

\* The subject of what is about a digest is that digest: nothing else is None.
LEMMA FiledIsAscribed ==
    ASSUME Typed, Gate, pc \in Filing
    PROVE  \A r \in ToSet(mem.referrers) : Ascribed(r)
<1>1. mem.resolved \in Digest /\ mem.resolved # None
  BY WorkspaceAssumption DEF Typed, StageTyped, AfterPullStages, Filing
<1>2. \A r \in ToSet(mem.referrers) : Vouched(r)
  BY DEF Gate
<1>q. QED
  BY <1>1, <1>2 DEF Ascribed, Vouched, AboutUs, Subject

LEMMA AscribedKept ==
    ASSUME Untouched, NEW r, Ascribed(r)
    PROVE  Ascribed(r)'
BY VouchedKept DEF Ascribed, Untouched, SameQuestion

\* What the list has to show when a run ends: it is the process's own, and
\* nothing in it has changed on disk.
LEMMA ListEnds ==
    ASSUME resultFile'.referrers = mem.referrers, resultFile'.digest = mem.resolved,
           referrersDir' = referrersDir, \A r \in ToSet(mem.referrers) : Ascribed(r)
    PROVE  ListedIsFiled'
BY DEF ListedIsFiled, Ascribed, Vouched

\* Runs are counted upwards, and whoever writes result.json puts its own in.
LEMMA RunsAscend ==
    ASSUME Typed, [Next]_vars
    PROVE  /\ seen'.run \in {seen.run, seen.run + 1} /\ seen.run \in Nat
           /\ \/ resultFile' \in {resultFile, TornResult, NoResult}
              \/ (\E stage : resultFile' = Result(stage)) /\ seen'.run = seen.run
<1>s. seen.run \in Nat /\ DOMAIN seen = {"run", "moves", "before", "fresh", "torn", "started", "strayed"}
  BY RunAssumption DEF Typed, StageTyped
<1> USE DEF WriteResultFails
<1>1. CASE PullStep
  BY <1>1, <1>s, PullQuiet
<1>2. CASE ReferrersStep
  BY <1>2, <1>s DEF ReferrersStep, ReferrersNetwork, ReferrersLocal, Query, RejectReferrer,
     SkipReferrer, OpenReferrer, FetchPayload, FileReferrer, Downloaded, RecordLanded, WriteListing
<1>3. CASE VerifyStep
  BY <1>3, <1>s DEF VerifyStep, VerifyNetwork, VerifyLocal, VerifyBegin, VerifyBundle,
     BundlesExhausted, WriteVerified
<1>4. CASE UnpackNext
  BY <1>4, <1>s, UnpackQuiet
<1>5. CASE AfterPull
  BY <1>5, <1>s DEF AfterPull
<1>6. CASE WriteFailure
  BY <1>6, <1>s DEF WriteFailure, FailureRecord
<1>7. CASE Start \/ StartRefused
  BY <1>7, <1>s DEF Start, StartRefused, NewRun
<1>8. CASE Crash
  BY <1>8, <1>s DEF Crash, TornDownload, TornReferrers, TornRecord, Put
<1>9. CASE TagMoves \/ UNCHANGED vars
  BY <1>9, <1>s DEF TagMoves, vars
<1>q. QED
  BY <1>1, <1>2, <1>3, <1>4, <1>5, <1>6, <1>7, <1>8, <1>9, Parts

LEMMA ListedStep ==
    ASSUME Typed, Gate, Listed, [Next]_vars
    PROVE  Listed'
<1> USE DEF UnpackStages, Filing, BeforeListing
<1>d. /\ DOMAIN mem = DOMAIN FreshMemory
      /\ DOMAIN seen = {"run", "moves", "before", "fresh", "torn", "started", "strayed"}
  BY DEF Typed, MemTyped, StageTyped
<1>r. resultFile'.kind = "result" => resultFile'.run \in 0 .. seen'.run
  BY RunsAscend DEF Listed, Result, TornResult, NoResult
<1>p. ASSUME pc' \notin {"idle", "verify", "bundles", "verified", "fail"} \cup UnpackStages
      PROVE  Listed'
  BY <1>p, <1>r DEF Listed
<1>f. ASSUME pc' = "fail", mem'.referrers = <<>> PROVE Listed'
  BY <1>f, <1>r, EmptyList DEF Listed
<1>t. ASSUME seen'.torn, pc' = "idle" PROVE Listed'
  BY <1>r, <1>t DEF Listed, ListedIsFiled
\* The list stays, or it is written as it is.
<1>k. ASSUME pc' \in {"verify", "bundles", "verified", "fail"} \cup UnpackStages, Untouched,
             \A r \in ToSet(mem.referrers) : Ascribed(r),
             pc' # "fail" /\ ~seen'.torn =>
                 resultFile'.referrers = mem.referrers /\ resultFile'.digest = mem.resolved
      PROVE  Listed'
  BY <1>k, <1>r, AscribedKept DEF Listed, Untouched, SameQuestion
<1>w. ASSUME NEW stage, resultFile' = Result(stage)
      PROVE  resultFile'.referrers = mem.referrers /\ resultFile'.digest = mem.resolved
  BY <1>w DEF Result
<1>1. CASE PullStep
  <2>1. pc' \in BeforeListing \cup {"fail"} /\ pc' # "idle" /\ mem'.referrers = <<>>
    BY <1>1, PullQuiet DEF Gate
  <2>q. QED
    BY <2>1, <1>p, <1>f
<1>2. CASE ReferrersStep
  <2>1. CASE Query \/ RecordLanded
    <3>1. pc' \in {"list", "download"} \/ \E err : FetchFails(err)
      BY <2>1 DEF Query, RecordLanded
    <3>2. pc' \in {"list", "download"} \/ (pc' = "fail" /\ mem'.referrers = <<>>)
      BY <1>d, <3>1 DEF FetchFails, FreshMemory
    <3>q. QED
      BY <1>p, <1>f, <3>2
  <2>2. CASE RejectReferrer \/ SkipReferrer \/ OpenReferrer \/ FetchPayload \/ FileReferrer \/ Downloaded
    BY <2>2, <1>p DEF RejectReferrer, SkipReferrer, OpenReferrer, FetchPayload, FileReferrer,
       Downloaded, Downloading, PayloadLeft, ReferrerFails
  <2>3. CASE WriteListing
    <3>1. pc = "list" /\ cfg' = cfg /\ referrersDir' = referrersDir
      BY <2>3 DEF WriteListing, ReferrersFrame
    <3>2. CASE /\ resultFile' = Result("none") /\ mem' = mem
               /\ pc' = IF VerifyRequested THEN "verify" ELSE "clear"
      BY <1>k, <1>w, <3>1, <3>2, FiledIsAscribed DEF Untouched, SameQuestion
    <3>3. CASE FetchFails({Unclassified})
      BY <1>d, <1>f, <3>3 DEF FetchFails, FreshMemory
    <3>q. QED
      BY <2>3, <3>2, <3>3 DEF WriteListing
  <2>q. QED
    BY <1>2, <2>1, <2>2, <2>3 DEF ReferrersStep, ReferrersNetwork, ReferrersLocal
<1>3. CASE VerifyStep
  <2>1. \A r \in ToSet(mem.referrers) : Ascribed(r)
    BY <1>3, VerifyQuiet, FiledIsAscribed DEF Listed
  <2>2. pc \in {"verify", "bundles", "verified"}
    BY <1>3, VerifyQuiet
  <2>3. \/ seen' = seen /\ resultFile' = resultFile
        \/ pc' = "clear" /\ resultFile' = Result("none")
        \/ seen' = [seen EXCEPT !.torn = TRUE]
    BY <1>3 DEF VerifyStep, VerifyNetwork, VerifyLocal, VerifyBegin, VerifyBundle,
       BundlesExhausted, WriteVerified, WriteResultFails
  <2>4. CASE pc' = "idle"
    <3>1. seen' = [seen EXCEPT !.torn = TRUE]
      BY <1>3, <2>2, <2>4 DEF VerifyStep, VerifyNetwork, VerifyLocal, VerifyBegin, VerifyBundle,
         BundlesExhausted, WriteVerified, WriteResultFails, VerifyFails
    <3>q. QED
      BY <1>d, <1>t, <2>4, <3>1
  <2>5. CASE pc' # "idle"
    <3>1. pc' \in {"bundles", "verified", "clear", "fail"} /\ Untouched
      BY <1>3, <2>5, VerifyQuiet
    <3>2. ~seen'.torn => resultFile'.referrers = mem.referrers /\ resultFile'.digest = mem.resolved
      BY <1>d, <1>w, <2>2, <2>3 DEF Listed
    <3>q. QED
      BY <1>k, <2>1, <3>1, <3>2
  <2>q. QED
    BY <2>4, <2>5
<1>4. CASE UnpackNext
  <2>1. /\ pc \in UnpackStages /\ UNCHANGED <<cfg, referrersDir, resultFile, seen>>
        /\ \A r \in ToSet(mem.referrers) : Ascribed(r)
        /\ ~seen.torn => resultFile.referrers = mem.referrers /\ resultFile.digest = mem.resolved
    BY <1>4, UnpackQuiet DEF Listed
  <2>2. CASE pc' = "idle"
    <3>1. ~seen.torn => ListedIsFiled'
      BY <2>1, ListEnds
    <3>2. seen.torn => ListedIsFiled'
      BY <2>1 DEF ListedIsFiled
    <3>q. QED
      BY <1>r, <2>2, <3>1, <3>2 DEF Listed
  <2>3. CASE pc' # "idle"
    <3>1. pc' \in UnpackStages \cup {"fail"} /\ Untouched
      BY <1>4, <2>1, <2>3, UnpackQuiet DEF Untouched
    <3>q. QED
      BY <1>k, <2>1, <3>1
  <2>q. QED
    BY <2>2, <2>3
<1>5. CASE AfterPull
  <2>1. pc = "pulled" /\ mem.referrers = <<>> /\ cfg' = cfg /\ referrersDir' = referrersDir
    BY <1>5 DEF AfterPull, Gate
  <2>2. CASE pc' = "query"
    BY <1>p, <2>2
  <2>3. CASE pc' \in {"verify", "clear"} /\ resultFile' = Result("none") /\ mem' = mem
    BY <1>k, <1>w, <2>1, <2>3, EmptyList DEF Untouched, SameQuestion
  <2>4. CASE pc' = "idle" /\ WriteResultFails
    BY <1>d, <1>t, <2>4 DEF WriteResultFails
  <2>q. QED
    BY <1>5, <2>2, <2>3, <2>4 DEF AfterPull, Exits
<1>6. CASE WriteFailure
  <2>1. /\ pc = "fail" /\ pc' = "idle" /\ referrersDir' = referrersDir
        /\ resultFile' = Result(mem.stage) \/ WriteResultFails
    BY <1>6 DEF WriteFailure, Exits, FailureRecord
  <2>2. CASE resultFile' = Result(mem.stage)
    <3>1. ListedIsFiled'
      BY <1>w, <2>1, <2>2, ListEnds DEF Listed
    <3>q. QED
      BY <1>r, <2>1, <3>1 DEF Listed
  <2>3. CASE WriteResultFails
    BY <1>d, <1>t, <2>1, <2>3 DEF WriteResultFails
  <2>q. QED
    BY <2>1, <2>2, <2>3
<1>7. CASE Start
  BY <1>7, <1>p DEF Start
<1>8. CASE StartRefused
  <2>1. /\ pc = "idle" /\ pc' = "idle" /\ resultFile' = resultFile /\ seen' = NewRun
    BY <1>8 DEF StartRefused
  <2>2. seen'.run = seen.run + 1 /\ seen.run \in Nat
    BY <1>d, <2>1, RunsAscend DEF NewRun
  <2>3. ~(resultFile'.kind = "result" /\ resultFile'.run = seen'.run)
    BY <2>1, <2>2 DEF Listed
  <2>q. QED
    BY <1>r, <2>1, <2>3 DEF Listed, ListedIsFiled
<1>9. CASE Crash
  <2>1. pc' = "idle" /\ exit' \notin 0 .. 5
    BY <1>9 DEF Crash, Killed
  <2>q. QED
    BY <1>r, <2>1 DEF Listed, ListedIsFiled, Ended
<1>10. CASE TagMoves \/ UNCHANGED vars
  <2>1. /\ UNCHANGED <<pc, mem, resultFile, referrersDir, exit>> /\ Untouched
        /\ seen'.torn = seen.torn /\ seen'.run = seen.run
    BY <1>10, <1>d DEF TagMoves, vars, Untouched, SameQuestion
  <2>2. ListedIsFiled => ListedIsFiled'
    BY <2>1 DEF ListedIsFiled, Ended
  <2>q. QED
    BY <1>r, <2>1, <2>2, AscribedKept DEF Listed
<1>q. QED
  BY <1>1, <1>2, <1>3, <1>4, <1>5, <1>6, <1>7, <1>8, <1>9, <1>10, Parts

\* Every referrer result.json lists is whole on disk, with every file as the
\* registry has it, and about the digest it is listed under (FetchReferrers,
\* WriteResult).
THEOREM ListingIsTrue == Spec => []ListedIsFiled
<1>1. Init => Listed
  BY DEF Init, Listed, ListedIsFiled, NoResult, UnpackStages
<1>2. Typed /\ Gate /\ Listed /\ [Next]_vars => Listed'
  BY ListedStep
<1>3. Typed /\ Listed => ListedIsFiled
  BY DEF Listed, ListedIsFiled, Ended
<1>q. QED
  BY <1>1, <1>2, <1>3, AlwaysTyped, GateAlways, PTL DEF Spec

-----------------------------------------------------------------------------
(* The loop over the bundles *)

LEMMA GoodSatisfies ==
    ASSUME NEW b, Good(b)
    PROVE  Satisfies(b)
BY DEF Satisfies, Good, Signer, Observers, KeyMode

\* Every blob of a filed bundle is one the loop opens: its name is its own.
LEMMA BundleIsTried ==
    ASSUME Gate, pc \in {"verify", "bundles"}, IsSeq(mem.referrers),
           NEW e \in ToSet(mem.listing), FiledFor(e), Attached[e.of].type = "bundle",
           NamesDiffer(Payload(e)), IsSeq(Payload(e)),
           \A l \in ToSet(Payload(e)) : FileName(l) # ManifestName,
           NEW b \in Carried(e)
    PROVE  \E p \in bundlePaths : BundleAt(p) = b
<1>1. PICK l \in ToSet(Payload(e)) : l.blob = b
  BY DEF Carried
<1>2. PICK r \in ToSet(mem.referrers) :
          /\ r.type = ArtifactType(e) /\ r.of = e.of /\ IsSeq(r.files)
          /\ \A k \in ToSet(Payload(e)) : FileName(k) \in ToSet(r.files)
  BY DEF FiledFor
<1>3. r.type = "bundle"
  BY <1>2, WorkspaceAssumption DEF ArtifactType
<1>4. PICK i \in DOMAIN mem.referrers : mem.referrers[i] = r
  BY <1>2 DEF ToSet
<1>5. PICK j \in DOMAIN r.files : r.files[j] = FileName(l)
  BY <1>1, <1>2 DEF ToSet
<1>6. <<i, j>> \in bundlePaths
  BY <1>1, <1>3, <1>4, <1>5 DEF bundlePaths
<1>7. BundleAt(<<i, j>>) = referrersDir[<<r.type, r.of>>][FileName(l)]
  BY <1>4, <1>5 DEF BundleAt
<1>8. referrersDir[<<r.type, r.of>>][FileName(l)] \in FileContents(r, FileName(l))
  BY <1>1, <1>2 DEF Gate, Filing, Vouched
<1>9. \A k \in ToSet(Payload(e)) : FileName(k) = FileName(l) => k = l
  BY <1>1 DEF NamesDiffer, IsInjective, ToSet
<1>10. FileContents(r, FileName(l)) = {b}
  BY <1>1, <1>2, <1>9 DEF FileContents, Payload
<1>q. QED
  BY <1>6, <1>7, <1>8, <1>10

\* What the registry lists is of its referrers, and so a sequence of layers.
LEMMA PayloadsAre ==
    ASSUME NEW listing \in Listings
    PROVE  IsSeq(listing) /\ \A e \in ToSet(listing) : e.of \in Referrer /\ IsSeq(Payload(e))
BY WorkspaceAssumption, EmptyList DEF IsSeq, Payload

\* A refusal after every filed bundle was tried in vain is a right one.
LEMMA RefusalIsRight ==
    ASSUME Gate, pc \in {"verify", "bundles"}, IsSeq(mem.referrers), mem.listing \in Listings \cup {<<>>},
           \A e \in ToSet(mem.listing) : AboutUs(e) => FiledFor(e),
           \A p \in bundlePaths : ~Satisfies(BundleAt(p)),
           SameQuestion
    PROVE  RefusedOnlyUnsigned'
<1> SUFFICES ASSUME NEW e \in ToSet(mem.listing), AboutUs(e), Attached[e.of].type = "bundle",
                    NamesDiffer(Payload(e)),
                    \A l \in ToSet(Payload(e)) : FileName(l) # ManifestName,
                    NEW b \in Carried(e), Good(b)
             PROVE  FALSE
  BY DEF RefusedOnlyUnsigned, SameQuestion, AboutUs, Good
<1>1. IsSeq(Payload(e))
  BY PayloadsAre, EmptyList
<1>2. PICK p \in bundlePaths : BundleAt(p) = b
  BY <1>1, BundleIsTried
<1>q. QED
  BY <1>2, GoodSatisfies

\* What is filed stays filed, and more of it comes.
LEMMA FiledForKept ==
    ASSUME NEW e, FiledFor(e),
           \/ mem'.referrers = mem.referrers
           \/ IsSeq(mem.referrers) /\ mem'.referrers = Append(mem.referrers, Opened)
    PROVE  FiledFor(e)'
<1>1. CASE mem'.referrers = mem.referrers
  BY <1>1 DEF FiledFor
<1>2. CASE IsSeq(mem.referrers) /\ mem'.referrers = Append(mem.referrers, Opened)
  <2>1. PICK s, x : s = mem.referrers /\ x = Opened
    OBVIOUS
  <2>2. ToSet(mem'.referrers) = ToSet(s) \cup {x}
    BY <1>2, <2>1, AppendToSet
  <2>q. QED
    BY <2>1, <2>2 DEF FiledFor
<1>q. QED
  BY <1>1, <1>2

\* Only Verify ends a run in a refusal.
LEMMA OthersDoNotRefuse ==
    ASSUME Typed, Recorded', PullStep \/ ReferrersStep \/ UnpackNext
    PROVE  RefusedOnlyUnsigned'
<1>1. pc' = "fail" => mem'.stage # "verify"
  BY PullOutcome, ReferrersOutcome, UnpackOutcome
     DEF ReferrersStep, OrasStages, FallbackStages
<1>q. QED
  BY <1>1 DEF Recorded, RefusedOnlyUnsigned

LEMMA WalkedStep ==
    ASSUME Typed, Gate, Stamped, Recorded', Walked, [Next]_vars
    PROVE  Walked'
<1> USE DEF UnpackStages
<1>d. DOMAIN mem = DOMAIN FreshMemory
  BY DEF Typed, MemTyped
\* Outside the walk only a refusal is to be shown right.
<1>o. ASSUME pc' \notin {"download", "payload", "list", "verify", "bundles"}, RefusedOnlyUnsigned'
      PROVE  Walked'
  BY <1>o DEF Walked
<1>n. ASSUME pc' \notin {"download", "payload", "list", "verify", "bundles", "fail"} PROVE Walked'
  BY <1>n, <1>o DEF RefusedOnlyUnsigned
<1>k. ASSUME Untouched
      PROVE  \A e : (AboutUs(e) <=> AboutUs(e)') /\ (FiledFor(e) => FiledFor(e)')
  BY <1>k, FiledForKept DEF Untouched, SameQuestion, AboutUs
<1>c. ASSUME pc \in {"download", "payload"}
      PROVE  /\ mem.listing \in Listings /\ mem.next \in Nat \ {0} /\ IsSeq(mem.referrers)
             /\ IsSeq(mem.listing)
             /\ pc = "payload" => mem.next <= Len(mem.listing) /\ IsSeq(mem.files)
             /\ mem.resolved \in Digest /\ mem.resolved # None
  BY <1>c, PayloadsAre, WorkspaceAssumption DEF Gate, Typed, StageTyped, AfterPullStages
<1>1. CASE PullStep
  <2>1. pc' \notin {"download", "payload", "list", "verify", "bundles"}
    BY <1>1, PullQuiet DEF BeforeListing
  <2>q. QED
    BY <1>1, <1>o, <2>1, OthersDoNotRefuse
<1>2. CASE ReferrersStep
  <2>f. ASSUME pc' \in {"fail", "record"} PROVE Walked'
    BY <1>2, <1>o, <2>f, OthersDoNotRefuse
  <2>u. pc' \in {"download", "payload", "list", "verify", "bundles"} => RefusedOnlyUnsigned'
    BY DEF RefusedOnlyUnsigned
  <2>1. CASE Query
    <3>1. CASE pc' = "list" /\ mem' = mem
      <4>1. pc = "query" /\ mem.listing = <<>> /\ mem.referrers = <<>>
        BY <2>1 DEF Query, Stamped, Gate, BeforeListing
      <4>q. QED
        BY <2>u, <3>1, <4>1, EmptyList DEF Walked
    <3>2. CASE pc' = "download" /\ mem'.next = 1
      BY <2>u, <3>2 DEF Walked
    <3>q. QED
      BY <1>d, <2>1, <2>f, <3>1, <3>2 DEF Query, FetchFails, FreshMemory
  <2>2. CASE RejectReferrer
    BY <2>2, <2>f DEF RejectReferrer, ReferrerFails
  <2>3. CASE SkipReferrer
    <3>1. /\ pc = "download" /\ pc' = "download" /\ Untouched /\ mem'.next = mem.next + 1
          /\ Subject(Current) = None
      BY <1>d, <2>3 DEF SkipReferrer, Downloading, ReferrersFrame, Untouched, SameQuestion, FreshMemory
    <3>2. ~AboutUs(mem.listing[mem.next])
      BY <1>c, <3>1 DEF AboutUs, Current
    <3>3. ASSUME NEW k \in 1 .. mem'.next - 1, AboutUs(mem.listing[k]) PROVE FiledFor(mem.listing[k])
      <4>1. k \in 1 .. mem.next - 1 \/ k = mem.next
        BY <1>c, <3>1, <3>3
      <4>q. QED
        BY <3>1, <3>2, <3>3, <4>1 DEF Walked
    <3>q. QED
      BY <1>k, <2>u, <3>1, <3>3 DEF Walked, Untouched, SameQuestion
  <2>4. CASE OpenReferrer
    <3>1. CASE pc' = "payload" /\ mem'.files = <<ManifestName>>
      <4>1. pc = "download" /\ SameQuestion /\ mem'.referrers = mem.referrers /\ mem'.next = mem.next
        BY <1>d, <2>4, <3>1 DEF OpenReferrer, ReferrerFails, Downloading, ReferrersFrame,
           SameQuestion, FreshMemory
      <4>2. \A e : (AboutUs(e) <=> AboutUs(e)') /\ (FiledFor(e) => FiledFor(e)')
        BY <4>1, FiledForKept DEF SameQuestion, AboutUs
      <4>q. QED
        BY <2>u, <3>1, <4>1, <4>2 DEF Walked, SameQuestion
    <3>q. QED
      BY <1>d, <2>4, <2>f, <3>1 DEF OpenReferrer, ReferrerFails, FreshMemory
  <2>5. CASE FetchPayload
    <3>1. CASE pc' = "record"
      BY <2>f, <3>1
    <3>2. CASE pc' = pc /\ mem' = [mem EXCEPT !.files = Append(@, FileName(NextPayload)),
                                              !.budget = charge(@, NextPayload.size)]
      <4>1. /\ pc = "payload" /\ SameQuestion /\ mem'.referrers = mem.referrers
            /\ mem'.next = mem.next /\ mem'.files = Append(mem.files, FileName(NextPayload))
            /\ Current' = Current
        BY <1>d, <2>5, <3>2 DEF FetchPayload, PayloadLeft, ReferrersFrame, SameQuestion,
           FreshMemory, Current
      <4>2. \A e : (AboutUs(e) <=> AboutUs(e)') /\ (FiledFor(e) => FiledFor(e)')
        BY <4>1, FiledForKept DEF SameQuestion, AboutUs
      <4>3. IsSeq(mem.files) /\ Len(mem.files) \in Nat /\ Len(mem'.files) = Len(mem.files) + 1
        BY <1>c, <4>1 DEF IsSeq
      <4>4. PICK s, x : s = mem.files /\ x = FileName(NextPayload)
        OBVIOUS
      <4>5. ToSet(mem'.files) = ToSet(s) \cup {x}
        BY <4>1, <4>3, <4>4, AppendToSet
      <4>6. x = FileName(Payload(Current)[Len(mem.files)])
        BY <4>4 DEF NextPayload
      <4>7. ASSUME NEW k \in 1 .. Len(mem'.files) - 1
            PROVE  FileName(Payload(Current)[k]) \in ToSet(mem'.files)
        <5>1. k \in 1 .. Len(mem.files) - 1 \/ k = Len(mem.files)
          BY <4>3, <4>7
        <5>2. CASE k \in 1 .. Len(mem.files) - 1
          BY <4>1, <4>4, <4>5, <5>2 DEF Walked
        <5>q. QED
          BY <4>5, <4>6, <5>1, <5>2
      <4>q. QED
        BY <2>u, <3>2, <4>1, <4>2, <4>7 DEF Walked, SameQuestion
    <3>q. QED
      BY <2>5, <3>1, <3>2 DEF FetchPayload, ReferrerFails
  <2>6. CASE FileReferrer
    <3>1. /\ pc = "payload" /\ pc' = "download" /\ SameQuestion
          /\ mem'.next = mem.next + 1 /\ mem'.referrers = Append(mem.referrers, Opened)
      BY <1>d, <2>6 DEF FileReferrer, ReferrersFrame, SameQuestion, FreshMemory
    <3>2. \A e : (AboutUs(e) <=> AboutUs(e)') /\ (FiledFor(e) => FiledFor(e)')
      BY <1>c, <3>1, FiledForKept DEF SameQuestion, AboutUs
    <3>e. PICK e : e = Current
      OBVIOUS
    <3>3. FiledFor(e)'
      <4>1. \A l \in ToSet(Payload(Current)) : FileName(l) \in ToSet(mem.files)
        <5>1. Current.of \in Referrer /\ IsSeq(Payload(Current)) /\ Len(mem.files) \in Nat
          <6>1. Current \in ToSet(mem.listing)
            BY <1>c, <3>1 DEF Current, IsSeq, ToSet
          <6>q. QED
            BY <1>c, <3>1, <6>1, PayloadsAre DEF IsSeq
        <5>2. SUFFICES ASSUME NEW l \in ToSet(Payload(Current))
                       PROVE  FileName(l) \in ToSet(mem.files)
          OBVIOUS
        <5>3. PICK k \in 1 .. Len(Payload(Current)) : Payload(Current)[k] = l
          BY <5>1 DEF IsSeq, ToSet
        <5>4. k \in 1 .. Len(mem.files) - 1
          BY <2>6, <5>1, <5>3 DEF FileReferrer, IsSeq
        <5>q. QED
          BY <3>1, <5>3, <5>4 DEF Walked
      <4>2. PICK s, x : s = mem.referrers /\ x = Opened
        OBVIOUS
      <4>3. x \in ToSet(mem'.referrers)
        BY <1>c, <3>1, <4>2, AppendToSet
      <4>4. x.type = ArtifactType(Current) /\ x.of = Current.of /\ x.files = mem.files
        BY <4>2 DEF Opened
      <4>q. QED
        BY <1>c, <3>1, <3>e, <4>1, <4>3, <4>4 DEF FiledFor
    <3>4. ASSUME NEW k \in 1 .. mem'.next - 1, AboutUs(mem.listing[k])
          PROVE  FiledFor(mem.listing[k])'
      <4>1. CASE k \in 1 .. mem.next - 1
        <5>1. FiledFor(mem.listing[k])
          BY <3>1, <3>4, <4>1 DEF Walked
        <5>2. PICK x : x = mem.listing[k] /\ x = mem'.listing[k]
          BY <3>1 DEF SameQuestion
        <5>3. FiledFor(x)'
          BY <3>2, <5>1, <5>2
        <5>q. QED
          BY <5>2, <5>3
      <4>2. CASE k = mem.next
        BY <3>1, <3>e, <3>3, <4>2 DEF Current, SameQuestion
      <4>q. QED
        BY <1>c, <3>1, <3>4, <4>1, <4>2
    <3>q. QED
      BY <2>u, <3>1, <3>2, <3>4 DEF Walked, SameQuestion
  <2>7. CASE Downloaded
    <3>1. /\ pc = "download" /\ pc' = "list" /\ mem.next > Len(mem.listing)
          /\ Untouched /\ UNCHANGED mem
      BY <2>7 DEF Downloaded, ReferrersFrame, Untouched, SameQuestion
    <3>2. ASSUME NEW e \in ToSet(mem.listing), AboutUs(e) PROVE FiledFor(e)
      <4>l. DOMAIN mem.listing = 1 .. Len(mem.listing)
        BY <1>c, <3>1 DEF IsSeq
      <4>1. PICK k \in 1 .. Len(mem.listing) : mem.listing[k] = e
        BY <3>2, <4>l, Zenon DEF ToSet
      <4>2. k \in 1 .. mem.next - 1
        BY <1>c, <3>1, <4>1 DEF IsSeq
      <4>q. QED
        BY <3>1, <3>2, <4>1, <4>2 DEF Walked
    <3>q. QED
      BY <1>c, <1>k, <2>u, <3>1, <3>2 DEF Walked
  <2>8. CASE RecordLanded
    BY <2>8, <2>f DEF RecordLanded, FetchFails
  <2>9. CASE WriteListing
    <3>1. CASE pc' \in {"verify", "clear"} /\ mem' = mem
      <4>1. pc = "list" /\ Untouched
        BY <2>9, <3>1 DEF WriteListing, ReferrersFrame, Untouched, SameQuestion
      <4>q. QED
        BY <1>k, <1>n, <2>u, <3>1, <4>1 DEF Walked
    <3>q. QED
      BY <2>9, <2>f, <3>1 DEF WriteListing, FetchFails
  <2>q. QED
    BY <1>2, <2>1, <2>2, <2>3, <2>4, <2>5, <2>6, <2>7, <2>8, <2>9
       DEF ReferrersStep, ReferrersNetwork, ReferrersLocal
<1>3. CASE VerifyStep
  <2>v. pc \in {"verify", "bundles", "verified"}
    BY <1>3, VerifyQuiet
  <2>w. ASSUME pc \in {"verify", "bundles"}
        PROVE  /\ IsSeq(mem.referrers) /\ mem.listing \in Listings \cup {<<>>}
               /\ \A e \in ToSet(mem.listing) : AboutUs(e) => FiledFor(e)
    BY <2>w DEF Walked
  <2>x. ErrVerification # Unclassified
    BY ErrorsDiffer
  <2>e. ASSUME NEW time, VerifyFails({Unclassified}, time) PROVE Walked'
    BY <1>d, <1>o, <2>e, <2>x DEF VerifyFails, FreshMemory, RefusedOnlyUnsigned
  <2>r. ASSUME NEW time, VerifyFails({ErrVerification}, time), pc \in {"verify", "bundles"},
               \A p \in bundlePaths : ~Satisfies(BundleAt(p))
        PROVE  Walked'
    <3>1. pc' = "fail" /\ Untouched
      BY <1>3, <2>r, VerifyQuiet DEF VerifyFails
    <3>q. QED
      BY <1>o, <2>r, <2>w, <3>1, RefusalIsRight DEF Untouched
  <2>1. CASE VerifyBegin
    <3>1. CASE pc' = "bundles" /\ mem'.untried = bundlePaths
      <4>1. pc = "verify" /\ Untouched /\ bundlePaths' = bundlePaths
        BY <1>3, <2>1, <3>1, VerifyQuiet DEF VerifyBegin, Untouched, bundlePaths
      <4>2. RefusedOnlyUnsigned'
        BY <3>1 DEF RefusedOnlyUnsigned
      <4>q. QED
        BY <1>k, <2>w, <3>1, <4>1, <4>2 DEF Walked, Untouched, SameQuestion
    <3>2. CASE VerifyFails({ErrVerification}, {}) /\ bundlePaths = {} /\ pc = "verify"
      BY <2>r, <3>2
    <3>q. QED
      BY <1>d, <2>1, <2>e, <3>1, <3>2 DEF VerifyBegin, FreshMemory
  <2>2. CASE VerifyBundle
    <3>1. pc = "bundles"
      BY <2>2 DEF VerifyBundle
    <3>2. PICK p \in mem.untried :
              \/ VerifyFails({Unclassified}, {})
              \/ pc' = "verified"
              \/ /\ ~Satisfies(BundleAt(p)) /\ mem' = [mem EXCEPT !.untried = Untried(p)] /\ pc' = pc
      BY <2>2, Zenon DEF VerifyBundle
    <3>3. CASE ~Satisfies(BundleAt(p)) /\ mem' = [mem EXCEPT !.untried = Untried(p)] /\ pc' = pc
      <4>1. Untouched /\ mem'.untried = mem.untried \ {p}
        BY <1>3, <1>d, <3>1, <3>3, VerifyQuiet DEF FreshMemory, Untried
      <4>2. bundlePaths' = bundlePaths /\ \A q : Satisfies(BundleAt(q))' = Satisfies(BundleAt(q))
        BY <4>1 DEF Untouched, SameQuestion, bundlePaths, BundleAt, Satisfies, Signer, Observers, KeyMode
      <4>3. RefusedOnlyUnsigned'
        BY <3>1, <3>3 DEF RefusedOnlyUnsigned
      <4>q. QED
        BY <1>k, <2>w, <3>1, <3>3, <4>1, <4>2, <4>3 DEF Walked, Untouched, SameQuestion
    <3>q. QED
      BY <1>n, <2>e, <3>2, <3>3
  <2>3. CASE BundlesExhausted
    <3>1. pc = "bundles" /\ mem.untried = {} /\ VerifyFails({ErrVerification}, {PlannedTime})
      BY <2>3 DEF BundlesExhausted
    <3>2. \A p \in bundlePaths : ~Satisfies(BundleAt(p))
      BY <3>1 DEF Walked
    <3>3. PICK time : time = {PlannedTime}
      OBVIOUS
    <3>q. QED
      BY <2>r, <3>1, <3>2, <3>3
  <2>4. CASE WriteVerified
    BY <2>4, <1>n DEF WriteVerified, Exits
  <2>q. QED
    BY <1>3, <2>1, <2>2, <2>3, <2>4 DEF VerifyStep, VerifyNetwork, VerifyLocal
<1>4. CASE UnpackNext
  <2>1. pc' \notin {"download", "payload", "list", "verify", "bundles"}
    BY <1>4, UnpackQuiet
  <2>q. QED
    BY <1>4, <1>o, <2>1, OthersDoNotRefuse
<1>5. CASE AfterPull
  <2>1. pc' \in {"query", "clear", "idle"}
    BY <1>5 DEF AfterPull, NeedsReferrers, Exits
  <2>q. QED
    BY <1>n, <2>1
<1>6. CASE WriteFailure \/ Start \/ StartRefused \/ Crash
  BY <1>6, <1>n, Afresh
<1>7. CASE TagMoves \/ UNCHANGED vars
  <2>1. UNCHANGED <<pc, cfg, mem, referrersDir>> /\ Untouched
    BY <1>7, Standstill
  <2>2. RefusedOnlyUnsigned'
    BY <2>1 DEF RefusedOnlyUnsigned, Walked, AboutUs, Good
  <2>3. bundlePaths' = bundlePaths /\ \A q : Satisfies(BundleAt(q))' = Satisfies(BundleAt(q))
    BY <2>1 DEF bundlePaths, BundleAt, Satisfies, Signer, Observers, KeyMode
  <2>4. Current' = Current
    BY <2>1 DEF Current
  <2>q. QED
    BY <1>k, <2>1, <2>2, <2>3, <2>4 DEF Walked
<1>q. QED
  BY <1>1, <1>2, <1>3, <1>4, <1>5, <1>6, <1>7, Parts

LEMMA StampedAlways == Spec => []Stamped
<1>1. Init => Stamped
  BY DEF Init, Stamped, TimestampObserved, FreshMemory
<1>q. QED
  BY <1>1, AlwaysTyped, GateAlways, StampedStep, PTL DEF Spec

\* A run is refused only when no bundle on the resolved digest is good: neither
\* a bad one before it, nor the listing's order, nor an earlier run's file
\* hides a good one (Verify, FetchReferrers).
THEOREM RefusalsAreRight == Spec => []RefusedOnlyUnsigned
<1>1. Init => Walked
  BY DEF Init, Walked, RefusedOnlyUnsigned
<1>2. Walked => RefusedOnlyUnsigned
  BY DEF Walked
<1>q. QED
  BY <1>1, <1>2, AlwaysTyped, GateAlways, StampedAlways, RecordedAlways, WalkedStep, PTL DEF Spec

=============================================================================
