----------------------------- MODULE Pull_proofs -----------------------------
(***************************************************************************)
(* What Pull leaves and reports, for all registries, manifests, flags,     *)
(* limits, crashes and repointed tags.                                     *)
(***************************************************************************)
EXTENDS Typing_proofs

PullStep == PullNetwork \/ PullLocal

OrasStages == {"oras", "oras manifest", "oras blobs"}
FallbackStages == {"clean", "crane", "crane budget", "crane layout", "crane manifest"}

-----------------------------------------------------------------------------
(* The steps that are not Pull's *)

LEMMA NotPulling ==
    ASSUME Typed, [Next]_vars, ~PullStep
    PROVE  \/ pc' \in {"oras", "idle"} /\ mem' = FreshMemory
           \/ /\ pc \in AfterPullStages /\ PullSettled
              /\ UNCHANGED <<cfg, tmp, manifestFile>>
           \/ UNCHANGED <<pc, mem, cfg, tmp, manifestFile>>
<1>1. CASE Start \/ StartRefused
  BY <1>1 DEF Start, StartRefused, Typed, StageTyped
<1>2. CASE LaterStep
  BY <1>2, PullIsOver DEF Typed, MemTyped
<1>3. CASE WriteFailure \/ Crash
  BY <1>3 DEF WriteFailure, Crash, Exits
<1>4. CASE TagMoves \/ UNCHANGED vars
  BY <1>4 DEF TagMoves, vars, download
<1>q. QED
  BY <1>1, <1>2, <1>3, <1>4 DEF Next, Network, Local, LaterStep, PullStep

-----------------------------------------------------------------------------
(* Why the fallback runs *)

\* oras has not failed, or has: on purpose and for nothing else, or for a
\* reason that no signature is part of.
Cause ==
    /\ pc \in OrasStages => mem.orasErr = NoError
    /\ pc \in FallbackStages => mem.orasErr # NoError
    /\ mem.orasErr = {ErrFallback} \/ mem.orasErr \cap {ErrFallback, ErrVerification} = {}

LEMMA ErrorsDiffer ==
    /\ ErrFallback \notin {ErrLimit, ErrNotFound, Unclassified, ErrVerification}
    /\ ErrVerification \notin {ErrLimit, ErrNotFound, Unclassified}
    /\ \A client \in {"oras", "crane"}, s \in Status :
          <<client, s>> \notin {ErrFallback, ErrVerification, ErrLimit}
BY DEF ErrFallback, ErrLimit, ErrNotFound, Unclassified, ErrVerification, Status

\* A cause of failure that a request, a limit or the disk can be.
Causes == {err \in SUBSET ErrorAtom : err # {} /\ err \cap {ErrFallback, ErrVerification} = {}}

LEMMA CausesAre ==
    /\ {Unclassified} \in Causes /\ {ErrLimit} \in Causes /\ {ErrNotFound} \in Causes
    /\ {<<"crane", "404">>} \in Causes
    /\ \A client \in {"oras", "crane"} : RequestErrors(client) \subseteq Causes
<1>1. \A client \in {"oras", "crane"}, s \in Status : {<<client, s>>} \in Causes
  BY ErrorsAreAtoms, ErrorsDiffer DEF Causes
<1>2. {Unclassified} \in Causes /\ {ErrLimit} \in Causes /\ {ErrNotFound} \in Causes
  BY ErrorsAreAtoms, ErrorsDiffer DEF Causes
<1>3. ASSUME NEW client \in {"oras", "crane"}, NEW err \in RequestErrors(client)
      PROVE  err \in Causes
  BY <1>1, <1>2, <1>3, RequestErrorsAre DEF Status
<1>q. QED
  BY <1>1, <1>2, <1>3 DEF Status

LEMMA CauseStep ==
    ASSUME Typed, Cause, [Next]_vars
    PROVE  Cause'
<1> USE DEF OrasStages, FallbackStages
<1>d. DOMAIN mem = DOMAIN FreshMemory
  BY DEF Typed, MemTyped
<1>n. CASE ~PullStep
  <2>1. CASE pc' \in {"oras", "idle"} /\ mem' = FreshMemory
    BY <2>1 DEF Cause, FreshMemory, NoError
  <2>2. CASE pc \in AfterPullStages /\ PullSettled
    BY <2>2 DEF Cause, PullSettled, AfterPullStages
  <2>3. CASE UNCHANGED <<pc, mem>>
    BY <2>3 DEF Cause
  <2>q. QED
    BY <1>n, <2>1, <2>2, <2>3, NotPulling
<1>o. ASSUME NEW err \in Causes \cup {{ErrFallback}}, OrasFails(err)
      PROVE  Cause'
  BY <1>d, <1>o DEF OrasFails, FreshMemory, Cause, Causes, NoError
<1>k. ASSUME pc' # "clean", mem'.orasErr = mem.orasErr,
             pc' \in OrasStages => pc \in OrasStages,
             pc' \in FallbackStages => pc \in FallbackStages
      PROVE  Cause'
  BY <1>k DEF Cause
<1>f. ASSUME NEW stage, NEW err, Fail(stage, err) PROVE Cause'
  BY <1>d, <1>f, <1>k DEF Fail, FreshMemory
<1>p. ASSUME NEW err, PullFails(err) PROVE Cause'
  BY <1>d, <1>p, <1>k DEF PullFails, Fail, FreshMemory
<1>1. CASE OrasResolve
  BY <1>1, <1>d, <1>k, <1>o, CausesAre DEF OrasResolve, FreshMemory
<1>2. CASE OrasBlob
  BY <1>2, <1>d, <1>k, <1>o, CausesAre DEF OrasBlob, FreshMemory
<1>3. CASE CraneResolve
  BY <1>3, <1>d, <1>k, <1>p DEF CraneResolve, FreshMemory
<1>4. CASE CraneLayout
  BY <1>4, <1>d, <1>k, <1>p DEF CraneLayout
<1>5. CASE MkdirTmpFails
  BY <1>5, <1>f DEF MkdirTmpFails
<1>6. CASE OrasManifest
  BY <1>6, <1>d, <1>k, <1>o, CausesAre DEF OrasManifest, FreshMemory
<1>7. CASE OrasDone
  BY <1>7, <1>d, <1>k DEF OrasDone, FreshMemory
<1>8. CASE CleanTmp
  BY <1>8, <1>k, <1>f DEF CleanTmp
<1>9. CASE CraneManifest
  BY <1>9, <1>d, <1>k, <1>p DEF CraneManifest, FreshMemory
<1>10. CASE CraneCharge
  BY <1>10, <1>d, <1>k, <1>p DEF CraneCharge, FreshMemory
<1>q. QED
  BY <1>n, <1>1, <1>2, <1>3, <1>4, <1>5, <1>6, <1>7, <1>8, <1>9, <1>10
     DEF PullStep, PullNetwork, PullLocal

LEMMA CauseAlways == Spec => []Cause
<1>1. Init => Cause
  BY DEF Init, Cause, FreshMemory, NoError, OrasStages, FallbackStages
<1>q. QED
  BY <1>1, AlwaysTyped, CauseStep, PTL DEF Spec

Fallback == {"crane", "crane budget", "crane layout", "crane manifest"}

\* A step from the fallback to the failure path joins the two clients' errors.
LEMMA FallbackFails ==
    ASSUME Typed, [Next]_vars, pc \in Fallback, pc' = "fail"
    PROVE  \E err \in Causes : mem'.err = PullError(err)
<1> USE DEF Fallback
<1>1. \E err \in Causes : PullFails(err)
  <2>1. PullStep
    BY NotPulling DEF AfterPullStages
  <2>2. CASE CraneResolve
    BY <2>2, CausesAre DEF CraneResolve
  <2>3. CASE CraneLayout
    BY <2>3, CausesAre DEF CraneLayout
  <2>4. CASE CraneManifest
    BY <2>4, CausesAre DEF CraneManifest
  <2>5. CASE CraneCharge
    BY <2>5, CausesAre DEF CraneCharge
  <2>q. QED
    BY <2>1, <2>2, <2>3, <2>4, <2>5
       DEF PullStep, PullNetwork, PullLocal, OrasResolve, OrasBlob, MkdirTmpFails, OrasManifest,
           OrasDone, CleanTmp
<1>q. QED
  BY <1>1 DEF PullFails, Fail, Typed, MemTyped, FreshMemory

LEMMA LimitNamed ==
    ASSUME NEW err, ErrLimit \in err, ErrVerification \notin err
    PROVE  ExitCode(err) = ExitLimit
BY DEF ExitCode, NoError

\* However the fallback fails, a limit that stopped oras names the exit status
\* (Pull's joined error, ExitCode).
THEOREM LimitIsNamed == Spec => FirstFailureNamed
<1> USE DEF Fallback
<1> DEFINE step == (pc \in Fallback /\ pc' = "fail"
                       /\ ErrLimit \in mem.orasErr)
                   => (ExitCode(mem.err') = ExitLimit)
<1>1. ASSUME Typed, Cause, [Next]_vars PROVE step
  <2> SUFFICES ASSUME pc \in Fallback, pc' = "fail",
                      ErrLimit \in mem.orasErr
               PROVE  ExitCode(mem.err') = ExitLimit
    OBVIOUS
  <2>1. PICK err \in Causes : mem'.err = PullError(err)
    BY <1>1, FallbackFails
  <2>2. mem.orasErr \cap {ErrFallback, ErrVerification} = {}
    BY <1>1, ErrorsDiffer DEF Cause
  <2>3. ErrLimit \in mem'.err /\ ErrVerification \notin mem'.err
    BY <2>1, <2>2 DEF PullError, Causes
  <2>q. QED
    BY <2>3, LimitNamed
<1>2. ASSUME Typed, Cause, [Next]_vars PROVE [step]_vars
  BY <1>1, <1>2
<1>q. QED
  BY <1>2, AlwaysTyped, CauseAlways, PTL DEF Spec, FirstFailureNamed

-----------------------------------------------------------------------------
(* What is in tmp/ and manifest.json *)

\* The first n layers whose path is in tmp/ are there, but where a later one
\* took the name.
FetchedUpTo(layers, n) ==
    \A i \in 1 .. n : FilePath(layers[i]) \in Name =>
        \/ \E j \in i + 1 .. n : FilePath(layers[j]) = FilePath(layers[i])
        \/ tmp.files[FilePath(layers[i])] = layers[i].blob

\* manifest.json is the manifest, unless a title leads there.
ManifestOf(layers) == (\E l \in ToSet(layers) : Astray(l, "manifest")) \/ manifestFile = layers

LaidOut(d) == [files |-> [NoFiles EXCEPT ![LayoutName] = LayoutBlob], layout |-> d]

\* What oras has fetched so far.
PartFetched ==
    /\ ManifestOf(Layers)
    /\ mem.next <= Len(Layers) + 1
    /\ \E n \in Nat : n + 1 = mem.next /\ FetchedUpTo(Layers, n)

Fetched ==
    /\ pc = "oras blobs" => PartFetched
    /\ pc \in {"crane", "crane budget", "crane layout"} => tmp = EmptyTmp
    /\ pc = "crane manifest" => tmp = LaidOut(mem.serving)
    /\ PulledComplete

\* What a download does to tmp/ and manifest.json.
LEMMA PutFetches ==
    ASSUME NEW l, NEW content, Put(l, content)
    PROVE  /\ IF FilePath(l) \in Name
              THEN tmp' = [tmp EXCEPT !.files[FilePath(l)] = content]
              ELSE tmp' = tmp
           /\ Astray(l, "manifest") \/ manifestFile' = manifestFile
<1>1. FilePath(l) \in Stray => FilePath(l) \notin Name
  BY WorkspaceAssumption
<1>q. QED
  BY <1>1 DEF Put, Astray, download

\* One more layer is fetched, over whatever had its name.
LEMMA FetchOne ==
    ASSUME NEW layers, NEW n \in Nat, n + 1 <= Len(layers), layers \in Seq(ToSet(layers)),
           TmpTyped, FetchedUpTo(layers, n),
           IF FilePath(layers[n + 1]) \in Name
           THEN tmp' = [tmp EXCEPT !.files[FilePath(layers[n + 1])] = layers[n + 1].blob]
           ELSE tmp' = tmp
    PROVE  FetchedUpTo(layers, n + 1)'
<1> DEFINE f == FilePath(layers[n + 1])
<1>1. /\ f \in Name => tmp'.files[f] = layers[n + 1].blob
      /\ \A m \in Name : m # f => tmp'.files[m] = tmp.files[m]
  BY DEF TmpTyped
<1>2. ASSUME NEW i \in 1 .. n + 1, FilePath(layers[i]) \in Name
      PROVE  \/ \E j \in i + 1 .. n + 1 : FilePath(layers[j]) = FilePath(layers[i])
             \/ tmp'.files[FilePath(layers[i])] = layers[i].blob
  <2>1. CASE i = n + 1
    BY <1>1, <1>2, <2>1
  <2>2. CASE i # n + 1 /\ FilePath(layers[i]) = f
    BY <2>2
  <2>3. CASE i # n + 1 /\ FilePath(layers[i]) # f
    <3>1. i \in 1 .. n /\ tmp'.files[FilePath(layers[i])] = tmp.files[FilePath(layers[i])]
      BY <1>1, <1>2, <2>3
    <3>2. \/ \E j \in i + 1 .. n : FilePath(layers[j]) = FilePath(layers[i])
          \/ tmp.files[FilePath(layers[i])] = layers[i].blob
      BY <1>2, <3>1 DEF FetchedUpTo
    <3>3. \A j \in i + 1 .. n : j \in i + 1 .. n + 1
      OBVIOUS
    <3>q. QED
      BY <3>1, <3>2, <3>3
  <2>q. QED
    BY <2>1, <2>2, <2>3
<1>q. QED
  BY <1>2 DEF FetchedUpTo

LEMMA FetchedStep ==
    ASSUME Typed, Cause, Fetched, [Next]_vars
    PROVE  Fetched'
<1>d. DOMAIN mem = DOMAIN FreshMemory
  BY DEF Typed, MemTyped
<1>n. CASE ~PullStep
  <2>1. CASE pc' \in {"oras", "idle"}
    BY <2>1 DEF Fetched, PulledComplete, AfterPullStages
  <2>2. CASE pc \in AfterPullStages /\ PullSettled /\ UNCHANGED <<tmp, manifestFile>>
    BY <2>2 DEF Fetched, PulledComplete, PullSettled, AfterPullStages
  <2>3. CASE UNCHANGED <<pc, mem, tmp, manifestFile>>
    BY <2>3 DEF Fetched, PartFetched, ManifestOf, FetchedUpTo, Layers, PulledComplete
  <2>q. QED
    BY <1>n, <2>1, <2>2, <2>3, NotPulling
<1>f. ASSUME pc' \in {"fail", "clean", "oras manifest"} PROVE Fetched'
  BY <1>f DEF Fetched, PulledComplete, AfterPullStages
<1>1. CASE OrasResolve
  BY <1>1, <1>f DEF OrasResolve, OrasFails
<1>2. CASE OrasManifest
  <2>1. CASE /\ manifestFile' = Manifest[mem.serving].layers
             /\ mem' = [mem EXCEPT !.next = 1, !.budget = newDownloadBudget(cfg.lim)]
             /\ pc' = "oras blobs"
    <3>1. mem'.serving = mem.serving /\ mem'.next = 1
      BY <1>d, <2>1 DEF FreshMemory
    <3>2. mem.serving \in Digest
      BY <1>2 DEF OrasManifest, Typed, StageTyped, ServingStages
    <3>3. Len(Layers) \in Nat
      BY <3>2, LayersTyped DEF Layers
    <3>4. Layers' = Layers /\ manifestFile' = Layers
      BY <2>1, <3>1 DEF Layers
    <3>5. FetchedUpTo(Layers, 0)'
      BY DEF FetchedUpTo
    <3>6. PartFetched'
      BY <3>1, <3>3, <3>4, <3>5 DEF PartFetched, ManifestOf
    <3>q. QED
      BY <2>1, <3>6 DEF Fetched, PulledComplete, AfterPullStages
  <2>q. QED
    BY <1>2, <1>f, <2>1 DEF OrasManifest, OrasFails
<1>3. CASE OrasBlob
  <2> DEFINE l == Layers[mem.next]
  <2>1. CASE pc' = "clean"
    BY <1>f, <2>1
  <2>2. CASE /\ Put(l, l.blob)
             /\ mem' = [mem EXCEPT !.next = @ + 1, !.budget = charge(@, l.size)]
             /\ UNCHANGED pc
    <3>1. /\ pc = "oras blobs" /\ mem.next <= Len(Layers)
          /\ mem.serving \in Digest /\ mem.next \in Nat \ {0}
      BY <1>3 DEF OrasBlob, Typed, MemTyped, StageTyped, ServingStages
    <3>2. mem'.serving = mem.serving /\ mem'.next = mem.next + 1
      BY <1>d, <2>2 DEF FreshMemory
    <3>3. Layers' = Layers
      BY <3>2 DEF Layers
    <3>4. Layers \in Seq(ToSet(Layers)) /\ Len(Layers) \in Nat
      <4>1. Layers \in Seq(ToSet(Layers))
        BY <3>1, LayersTyped DEF Layers
      <4>q. QED
        BY <4>1
    <3>5. PICK n \in Nat : n + 1 = mem.next /\ FetchedUpTo(Layers, n)
      BY <3>1, Zenon DEF Fetched, PartFetched
    <3>n. n + 1 = mem.next
      BY <3>5, Zenon
    <3>6. FetchedUpTo(Layers, n + 1)'
      <4>1. n + 1 <= Len(Layers)
        BY <3>1, <3>n
      <4>2. Put(Layers[n + 1], Layers[n + 1].blob)
        BY <2>2, <3>n
      <4>3. PICK layers : layers = Layers
        OBVIOUS
      <4>4. IF FilePath(layers[n + 1]) \in Name
            THEN tmp' = [tmp EXCEPT !.files[FilePath(layers[n + 1])] = layers[n + 1].blob]
            ELSE tmp' = tmp
        BY <4>2, <4>3, PutFetches
      <4>5. FetchedUpTo(layers, n + 1)'
        BY <3>4, <3>5, <4>1, <4>3, <4>4, FetchOne DEF Typed
      <4>q. QED
        BY <3>3, <4>3, <4>5
    <3>7. ManifestOf(Layers)'
      <4>1. l \in ToSet(Layers)
        <5>1. mem.next \in 1 .. Len(Layers)
          <6>1. mem.next \in Nat /\ mem.next # 0 /\ mem.next <= Len(Layers)
            BY <3>1
          <6>q. QED
            BY <3>4, <6>1
        <5>q. QED
          BY <3>4, <5>1 DEF ToSet
      <4>2. Astray(l, "manifest") \/ manifestFile' = manifestFile
        BY <2>2, PutFetches
      <4>3. ManifestOf(Layers)
        BY <3>1 DEF Fetched, PartFetched
      <4>q. QED
        BY <3>3, <4>1, <4>2, <4>3 DEF ManifestOf
    <3>8. mem'.next <= Len(Layers') + 1 /\ n + 1 \in Nat /\ (n + 1) + 1 = mem'.next
      <4>1. mem.next \in Nat /\ mem.next <= Len(Layers) /\ mem'.next = mem.next + 1
        BY <3>1, <3>2
      <4>q. QED
        BY <3>3, <3>4, <3>n, <4>1
    <3>9. PartFetched'
      BY <3>6, <3>7, <3>8 DEF PartFetched
    <3>q. QED
      BY <2>2, <3>1, <3>9 DEF Fetched, PulledComplete, AfterPullStages
  <2>q. QED
    BY <1>3, <2>1, <2>2 DEF OrasBlob, OrasFails
<1>4. CASE OrasDone
  <2>1. /\ pc = "oras blobs" /\ mem.next > Len(Layers) /\ pc' = "pulled"
        /\ UNCHANGED <<tmp, manifestFile>>
        /\ mem.serving \in Digest /\ mem.next \in Nat \ {0}
    BY <1>4 DEF OrasDone, download, Typed, MemTyped, StageTyped, ServingStages
  <2>2. mem'.resolved = mem.serving /\ mem'.orasErr = mem.orasErr /\ mem.orasErr = NoError
    BY <1>4, <1>d, <2>1 DEF OrasDone, FreshMemory, Cause, OrasStages
  <2>3. ManifestOf(Layers) /\ Layers = Manifest[mem'.resolved].layers
    <3>1. ManifestOf(Layers)
      BY <2>1 DEF Fetched, PartFetched
    <3>q. QED
      BY <2>2, <3>1 DEF Layers
  <2>4. Len(Layers) \in Nat /\ DOMAIN Layers = 1 .. Len(Layers)
    <3>1. Layers \in Seq(ToSet(Layers))
      BY <2>1, LayersTyped DEF Layers
    <3>q. QED
      BY <3>1
  <2>5. FetchedUpTo(Layers, Len(Layers))
    <3>1. PICK n \in Nat : n + 1 = mem.next /\ FetchedUpTo(Layers, n)
      BY <2>1, Zenon DEF Fetched, PartFetched
    <3>2. mem.next <= Len(Layers) + 1
      BY <2>1, Zenon DEF Fetched, PartFetched
    <3>3. n + 1 = mem.next
      BY <3>1, Zenon
    <3>4. mem.next \in Nat /\ mem.next > Len(Layers) /\ Len(Layers) \in Nat
      BY <2>1, <2>4
    <3>5. n = Len(Layers)
      BY <3>2, <3>3, <3>4
    <3>q. QED
      BY <3>1, <3>5
  <2>6. PulledComplete'
    BY <2>1, <2>2, <2>3, <2>4, <2>5 DEF PulledComplete, FetchedUpTo, ManifestOf
  <2>q. QED
    BY <2>1, <2>6 DEF Fetched
<1>5. CASE CleanTmp
  BY <1>5, <1>f DEF CleanTmp, CleanedTmp, Fail, Fetched, PulledComplete, AfterPullStages
<1>6. CASE CraneResolve
  <2>1. pc' = "fail" \/ (pc = "crane" /\ pc' = "crane budget" /\ tmp' = tmp)
    BY <1>6 DEF CraneResolve, PullFails, Fail, download
  <2>q. QED
    BY <1>f, <2>1 DEF Fetched, PulledComplete, AfterPullStages
<1>7. CASE CraneLayout
  <2>1. pc = "crane layout" /\ tmp = EmptyTmp
    BY <1>7 DEF CraneLayout, Fetched
  <2>2. CASE /\ tmp' = [tmp EXCEPT !.files[LayoutName] = LayoutBlob, !.layout = mem.serving]
             /\ pc' = "crane manifest" /\ mem' = mem
    <3>1. tmp' = LaidOut(mem'.serving)
      BY <2>1, <2>2 DEF EmptyTmp, LaidOut
    <3>q. QED
      BY <2>2, <3>1 DEF Fetched, PulledComplete, AfterPullStages
  <2>q. QED
    BY <1>7, <1>f, <2>2 DEF CraneLayout, PullFails, Fail
<1>8. CASE CraneManifest
  <2>1. CASE /\ manifestFile' = Relabelled(Layers) /\ pc' = "pulled"
             /\ mem' = [mem EXCEPT !.resolved = mem.serving]
    <3>1. pc = "crane manifest" /\ tmp' = tmp /\ tmp = LaidOut(mem.serving)
      BY <1>8 DEF CraneManifest, Fetched
    <3>2. mem'.resolved = mem.serving /\ mem'.orasErr = mem.orasErr /\ mem.orasErr # NoError
      BY <1>d, <2>1, <3>1 DEF FreshMemory, Cause, FallbackStages
    <3>q. QED
      BY <2>1, <3>1, <3>2 DEF Fetched, PulledComplete, LaidOut, Layers
  <2>q. QED
    BY <1>8, <1>f, <2>1 DEF CraneManifest, PullFails, Fail
<1>9. CASE MkdirTmpFails
  BY <1>9, <1>f DEF MkdirTmpFails, Fail
<1>10. CASE CraneCharge
  <2>1. /\ pc = "crane budget" /\ tmp' = tmp
        /\ pc' \in {"fail", "crane budget", "crane layout"}
    BY <1>10 DEF CraneCharge, PullFails, Fail, download
  <2>q. QED
    BY <1>f, <2>1 DEF Fetched, PulledComplete, AfterPullStages
<1>q. QED
  BY <1>n, <1>1, <1>2, <1>3, <1>4, <1>5, <1>6, <1>7, <1>8, <1>9, <1>10
     DEF PullStep, PullNetwork, PullLocal

\* After Pull, whatever failed on the way and however the tag moved: crane's
\* tmp/ and manifest.json are whole and of the resolved digest, whatever its
\* titles are; oras's manifest.json is, unless a title leads a blob there, and
\* so is every file of tmp/ that a title names (pullWithOras, pullWithCrane).
THEOREM PullIsComplete == Spec => []PulledComplete
<1>1. Init => Fetched
  BY DEF Init, Fetched, PulledComplete, AfterPullStages
<1>2. Typed /\ Cause /\ Fetched /\ [Next]_vars => Fetched'
  BY FetchedStep
<1>3. Fetched => PulledComplete
  BY DEF Fetched
<1>q. QED
  BY <1>1, <1>2, <1>3, AlwaysTyped, CauseAlways, PTL DEF Spec

-----------------------------------------------------------------------------
(* Sums of sizes, and the download budget *)

\* "sum" adds up the first n of the sizes, from sum[0] on, within the limit.
Sums(sum, sizes, n, limit) ==
    /\ sum \in [0 .. n -> 0 .. limit]
    /\ \A i \in 1 .. n : sum[i] = sum[i - 1] + sizes[i]

OneMore(sum, size, n) == [i \in 0 .. n + 1 |-> IF i = n + 1 THEN sum[n] + size ELSE sum[i]]

\* A sum goes on by one more size as long as the limit allows.
LEMMA SumOneMore ==
    ASSUME NEW sum, NEW sizes, NEW n \in Nat, NEW limit \in Nat, Sums(sum, sizes, n, limit),
           NEW size \in Nat, sizes[n + 1] = size, sum[n] + size <= limit
    PROVE  /\ Sums(OneMore(sum, size, n), sizes, n + 1, limit)
           /\ OneMore(sum, size, n)[0] = sum[0] /\ OneMore(sum, size, n)[n + 1] = sum[n] + size
<1> DEFINE total == sum[n] + size
           more == [i \in 0 .. n + 1 |-> IF i = n + 1 THEN total ELSE sum[i]]
<1>m. more = OneMore(sum, size, n)
  BY DEF OneMore
<1>0. /\ \A i \in 0 .. n : sum[i] \in 0 .. limit
      /\ \A i \in 1 .. n : sum[i] = sum[i - 1] + sizes[i]
  BY DEF Sums
<1>1. total \in 0 .. limit
  <2>1. sum[n] \in 0 .. limit
    BY <1>0
  <2>q. QED
    BY <2>1
<1>t. total = sum[n] + size /\ sizes[n + 1] = size
  OBVIOUS
<1> HIDE DEF total
<1>2. n + 1 \in 0 .. n + 1 /\ more[n + 1] = total
  OBVIOUS
<1>3. \A i \in 0 .. n : i \in 0 .. n + 1 /\ i # n + 1 /\ more[i] = sum[i]
  OBVIOUS
<1>4. more \in [0 .. n + 1 -> 0 .. limit]
  <2>1. \A i \in 0 .. n + 1 : more[i] \in 0 .. limit
    <3>1. \A i \in 0 .. n + 1 : i # n + 1 => i \in 0 .. n
      OBVIOUS
    <3>q. QED
      BY <1>0, <1>1, <1>2, <1>3, <3>1
  <2>q. QED
    BY <2>1
<1> HIDE DEF more
<1>5. ASSUME NEW i \in 1 .. n + 1 PROVE more[i] = more[i - 1] + sizes[i]
  <2>1. CASE i = n + 1
    <3>1. more[i - 1] = sum[n]
      BY <1>3, <2>1
    <3>q. QED
      BY <1>2, <1>t, <2>1, <3>1
  <2>2. CASE i # n + 1
    <3>1. i \in 1 .. n /\ i \in 0 .. n /\ i - 1 \in 0 .. n
      BY <2>2
    <3>q. QED
      BY <1>0, <1>3, <3>1
  <2>q. QED
    BY <2>1, <2>2
<1>6. more[0] = sum[0]
  BY <1>3
<1>7. Sums(more, sizes, n + 1, limit)
  BY <1>4, <1>5 DEF Sums
<1>q. QED
  BY <1>2, <1>6, <1>7, <1>m, <1>t

\* A limit is a positive int64, whatever the flag says.
LEMMA LimitsPositive ==
    ASSUME EnvTyped
    PROVE  /\ withDefaults(cfg.lim).total \in 1 .. MaxInt
           /\ withDefaults(cfg.lim).file \in 1 .. MaxInt
<1>1. {cfg.lim.total, cfg.lim.file} \subseteq Int64
  BY RunAssumption DEF EnvTyped
<1>2. /\ DefaultMaxTotalBytes \in 1 .. MaxInt - 1 /\ DefaultMaxFileBytes \in 1 .. MaxInt - 1
      /\ MaxInt \in Nat
  BY LimitsAssumption
<1>3. \A v \in Int64, d \in 1 .. MaxInt - 1 : OrDefault(v, d) \in 1 .. MaxInt
  BY <1>2 DEF OrDefault, Int64
<1>q. QED
  BY <1>1, <1>2, <1>3 DEF withDefaults

\* What the budget is once so much of it is spent.
Spent(n) == mem.budget.remaining = withDefaults(cfg.lim).total - n

\* The file limit is never spent.
Capped == \E left : mem.budget = [maxFile |-> withDefaults(cfg.lim).file, remaining |-> left]

\* Taking a natural number off what is left of a limit does not wrap.
LEMMA Charged ==
    ASSUME EnvTyped, NEW n \in Nat, NEW size \in Nat, Spent(n), Affordable(mem.budget, size)
    PROVE  /\ n + size <= withDefaults(cfg.lim).total
           /\ Wrap(mem.budget.remaining - size) = withDefaults(cfg.lim).total - (n + size)
<1>1. PICK total \in 1 .. MaxInt : total = withDefaults(cfg.lim).total
  BY LimitsPositive
<1>2. MaxInt \in Nat
  BY LimitsAssumption
<1>3. mem.budget.remaining = total - n /\ size <= total - n
  BY <1>1 DEF Spent, Affordable
<1>4. total - n - size = total - (n + size) /\ total - (n + size) \in 0 .. MaxInt
  BY <1>1, <1>2, <1>3
<1>5. Wrap(total - n - size) = total - n - size
  BY <1>2, <1>4 DEF Wrap
<1>q. QED
  BY <1>1, <1>3, <1>4, <1>5

-----------------------------------------------------------------------------
(* What Pull accepts *)

\* All the sizes before the next one were charged: none is over the file limit,
\* and the budget has what they leave, if none of the sizes is negative.
PaidFor(sizes) ==
    \E n \in 0 .. Len(sizes) :
        /\ n + 1 = mem.next
        /\ \A i \in 1 .. n : sizes[i] <= withDefaults(cfg.lim).file
        /\ NoneNegative(sizes) =>
              \E sum : Sums(sum, sizes, n, withDefaults(cfg.lim).total) /\ Spent(sum[n])

LEMMA PaidFirst ==
    ASSUME EnvTyped, NEW sizes, sizes \in Seq(Int), cfg' = cfg,
           mem'.next = 1, mem'.budget = newDownloadBudget(cfg.lim)
    PROVE  PaidFor(sizes)' /\ Capped'
<1> DEFINE total == withDefaults(cfg.lim).total
           sum == [i \in 0 .. 0 |-> 0]
<1>1. total \in Nat
  BY LimitsPositive
<1>2. /\ mem'.budget.remaining = total
      /\ mem'.budget = [maxFile |-> withDefaults(cfg.lim).file, remaining |-> total]
  BY DEF newDownloadBudget
<1>3. Sums(sum, sizes, 0, total) /\ sum[0] = 0 /\ 0 \in 0 .. Len(sizes)
  BY <1>1 DEF Sums
<1>4. Spent(sum[0])'
  BY <1>1, <1>2, <1>3 DEF Spent
<1>5. Capped'
  BY <1>2 DEF Capped
<1>q. QED
  BY <1>3, <1>4, <1>5 DEF PaidFor

LEMMA PaidOneMore ==
    ASSUME EnvTyped, NEW sizes, sizes \in Seq(Int), cfg' = cfg, Capped, PaidFor(sizes),
           mem.next <= Len(sizes), Affordable(mem.budget, sizes[mem.next]),
           mem'.next = mem.next + 1, mem'.budget = charge(mem.budget, sizes[mem.next])
    PROVE  PaidFor(sizes)' /\ Capped'
<1> DEFINE total == withDefaults(cfg.lim).total
           file == withDefaults(cfg.lim).file
           size == sizes[mem.next]
<1>1. PICK left : mem.budget = [maxFile |-> file, remaining |-> left]
  BY DEF Capped
<1>2. /\ mem'.budget = [maxFile |-> file, remaining |-> Wrap(mem.budget.remaining - size)]
      /\ size <= file
  BY <1>1 DEF charge, Affordable
<1>3. Capped'
  BY <1>2 DEF Capped
<1>4. PICK n \in 0 .. Len(sizes) :
          /\ n + 1 = mem.next
          /\ \A i \in 1 .. n : sizes[i] <= file
          /\ NoneNegative(sizes) =>
                \E sum : Sums(sum, sizes, n, total) /\ Spent(sum[n])
  BY Zenon DEF PaidFor
<1>n. n \in Nat /\ n + 1 \in 0 .. Len(sizes) /\ n + 1 \in 1 .. Len(sizes) /\ (n + 1) + 1 = mem'.next
  <2>1. n + 1 = mem.next
    BY <1>4, Zenon
  <2>2. Len(sizes) \in Nat
    OBVIOUS
  <2>q. QED
    BY <2>1, <2>2
<1>5. \A i \in 1 .. n + 1 : sizes[i] <= file
  BY <1>2, <1>4, <1>n
<1>6. ASSUME NoneNegative(sizes)
      PROVE  \E sum : Sums(sum, sizes, n + 1, total) /\ Spent(sum[n + 1])'
  <2>1. PICK sum : Sums(sum, sizes, n, total) /\ Spent(sum[n])
    BY <1>4, <1>6, Zenon
  <2>2. total \in Nat
    BY LimitsPositive
  <2>3. sum[n] \in Nat /\ sizes[n + 1] \in Nat /\ size = sizes[n + 1]
    <3>1. sizes[n + 1] \in Int /\ n + 1 \in DOMAIN sizes
      BY <1>n
    <3>2. sizes[n + 1] >= 0
      BY <1>6, <3>1 DEF NoneNegative
    <3>3. sum[n] \in 0 .. total
      BY <1>n, <2>1 DEF Sums
    <3>4. size = sizes[n + 1]
      BY <1>4, Zenon
    <3>q. QED
      BY <2>2, <3>1, <3>2, <3>3, <3>4
  <2>4. /\ sum[n] + size <= total
        /\ mem'.budget.remaining = total - (sum[n] + size)
    BY <1>2, <2>1, <2>3, Charged
  <2>5. PICK s, limit : s = size /\ limit = total
    OBVIOUS
  <2>6. /\ Sums(sum, sizes, n, limit) /\ limit \in Nat
        /\ s \in Nat /\ sizes[n + 1] = s /\ sum[n] + s <= limit
    BY <2>1, <2>2, <2>3, <2>4, <2>5
  <2>7. Sums(OneMore(sum, s, n), sizes, n + 1, limit)
    BY <1>n, <2>6, SumOneMore, Zenon
  <2>e. OneMore(sum, s, n)[n + 1] = sum[n] + s
    BY <1>n DEF OneMore
  <2>8. PICK more : Sums(more, sizes, n + 1, total) /\ more[n + 1] = sum[n] + size
    BY <2>5, <2>7, <2>e
  <2>9. Spent(more[n + 1])'
    BY <2>3, <2>4, <2>8 DEF Spent
  <2>q. QED
    BY <2>8, <2>9
<1>7. /\ n + 1 \in 0 .. Len(sizes) /\ (n + 1) + 1 = mem'.next
      /\ \A i \in 1 .. n + 1 : sizes[i] <= withDefaults(cfg'.lim).file
      /\ NoneNegative(sizes) =>
            \E sum : Sums(sum, sizes, n + 1, withDefaults(cfg'.lim).total) /\ Spent(sum[n + 1])'
  BY <1>n, <1>5, <1>6
<1>q. QED
  BY <1>3, <1>7, Zenon DEF PaidFor

LEMMA PaidAll ==
    ASSUME NEW sizes, sizes \in Seq(Int), PaidFor(sizes), mem.next > Len(sizes)
    PROVE  /\ \A i \in DOMAIN sizes : sizes[i] <= withDefaults(cfg.lim).file
           /\ NoneNegative(sizes) => RunningTotals(sizes, withDefaults(cfg.lim).total) # {}
<1> DEFINE total == withDefaults(cfg.lim).total
           file == withDefaults(cfg.lim).file
<1>1. PICK n \in 0 .. Len(sizes) :
          /\ n + 1 = mem.next
          /\ \A i \in 1 .. n : sizes[i] <= file
          /\ NoneNegative(sizes) =>
                \E sum : Sums(sum, sizes, n, total) /\ Spent(sum[n])
  BY Zenon DEF PaidFor
<1>2. n = Len(sizes)
  <2>1. n + 1 = mem.next
    BY <1>1, Zenon
  <2>2. Len(sizes) \in Nat
    OBVIOUS
  <2>q. QED
    BY <2>1, <2>2
<1>3. \A i \in DOMAIN sizes : sizes[i] <= file
  <2>1. \A i \in 1 .. n : sizes[i] <= file
    BY <1>1, Zenon
  <2>q. QED
    BY <1>2, <2>1
<1>4. ASSUME NoneNegative(sizes) PROVE RunningTotals(sizes, total) # {}
  <2>1. PICK sum : Sums(sum, sizes, n, total)
    BY <1>1, <1>4, Zenon
  <2>q. QED
    BY <1>2, <2>1 DEF Sums, RunningTotals
<1>q. QED
  BY <1>3, <1>4

Fits(d) ==
    LET sizes == Sizes(Manifest[d].layers)
    IN  /\ \A i \in DOMAIN sizes : sizes[i] <= withDefaults(cfg.lim).file
        /\ NoneNegative(ImageSizes(d)) =>
               RunningTotals(sizes, withDefaults(cfg.lim).total) # {}

Paid ==
    /\ pc = "oras blobs" => Capped /\ PaidFor(Sizes(Layers))
    /\ pc = "crane budget" => Capped /\ PaidFor(ImageSizes(mem.serving))
    /\ pc \in {"crane layout", "crane manifest"} => Fits(mem.serving)
    /\ pc \in AfterPullStages => Fits(mem.resolved)

\* Sizes of layers, one by one; an image's are behind its config's.
LEMMA SizesAre ==
    ASSUME NEW d \in Digest
    PROVE  LET sizes == Sizes(Manifest[d].layers)
               all == ImageSizes(d)
           IN  /\ sizes \in Seq(Int) /\ Len(sizes) = Len(Manifest[d].layers)
               /\ Len(sizes) \in Nat /\ DOMAIN sizes = 1 .. Len(sizes)
               /\ \A i \in 1 .. Len(sizes) : sizes[i] = Manifest[d].layers[i].size
               /\ all \in Seq(Int) /\ Len(all) = Len(sizes) + 1
               /\ \A i \in 1 .. Len(sizes) : all[i + 1] = sizes[i]
<1> DEFINE ls == Manifest[d].layers
           sizes == Sizes(ls)
           all == <<Manifest[d].config>> \o sizes
<1>0. \A x \in Int64 : x \in Int
  BY LimitsAssumption DEF Int64
<1>1. /\ ls \in Seq(ToSet(ls)) /\ \A i \in 1 .. Len(ls) : ls[i].size \in Int
      /\ Manifest[d].config \in Int
  BY <1>0, LayersTyped, WorkspaceAssumption
<1> HIDE DEF ls
<1>2. DOMAIN ls = 1 .. Len(ls) /\ Len(ls) \in Nat
  BY <1>1
<1>3. [i \in 1 .. Len(ls) |-> ls[i].size] \in Seq(Int)
  BY <1>1, <1>2
<1>4. /\ sizes \in Seq(Int) /\ Len(sizes) = Len(ls)
      /\ \A i \in 1 .. Len(ls) : sizes[i] = ls[i].size
  BY <1>2, <1>3 DEF Sizes
<1> HIDE DEF sizes
<1>5. Len(sizes) \in Nat /\ DOMAIN sizes = 1 .. Len(sizes)
  BY <1>4
<1>6. all \in Seq(Int) /\ Len(all) = Len(sizes) + 1
  BY <1>1, <1>4
<1>7. \A i \in 1 .. Len(sizes) : all[i + 1] = sizes[i]
  BY <1>1, <1>4, <1>5
<1>q. QED
  BY <1>4, <1>5, <1>6, <1>7 DEF ls, sizes, ImageSizes

\* The layers behind an affordable config fit too.
LEMMA ImageFits ==
    ASSUME EnvTyped, NEW d \in Digest,
           \A i \in DOMAIN ImageSizes(d) : ImageSizes(d)[i] <= withDefaults(cfg.lim).file,
           NoneNegative(ImageSizes(d)) =>
               RunningTotals(ImageSizes(d), withDefaults(cfg.lim).total) # {}
    PROVE  Fits(d)
<1> DEFINE sizes == Sizes(Manifest[d].layers)
           file == withDefaults(cfg.lim).file
           total == withDefaults(cfg.lim).total
           n == Len(sizes)
           all == ImageSizes(d)
<1>1. /\ sizes \in Seq(Int) /\ n \in Nat /\ DOMAIN sizes = 1 .. n
      /\ all \in Seq(Int) /\ Len(all) = n + 1 /\ \A i \in 1 .. n : all[i + 1] = sizes[i]
  BY SizesAre
<1>a. \A i \in DOMAIN all : all[i] <= file
  OBVIOUS
<1>b. NoneNegative(all) => RunningTotals(all, total) # {}
  OBVIOUS
<1> HIDE DEF sizes, all, file, total
<1>2. \A i \in DOMAIN sizes : sizes[i] <= file
  <2>1. ASSUME NEW i \in 1 .. n PROVE sizes[i] <= file
    <3>1. i + 1 \in DOMAIN all
      BY <1>1
    <3>q. QED
      BY <1>1, <1>a, <3>1
  <2>q. QED
    BY <1>1, <2>1
<1>3. ASSUME NoneNegative(all) PROVE RunningTotals(sizes, total) # {}
  <2>1. PICK sum \in [0 .. n + 1 -> 0 .. total] :
            \A i \in 1 .. n + 1 : sum[i] = sum[i - 1] + all[i]
    BY <1>1, <1>3, <1>b DEF RunningTotals
  <2> DEFINE rest == [i \in 0 .. n |-> sum[i + 1]]
  <2>2. rest \in [0 .. n -> 0 .. total]
    <3>1. ASSUME NEW i \in 0 .. n PROVE sum[i + 1] \in 0 .. total
      <4>1. i + 1 \in 0 .. n + 1
        BY <1>1
      <4>q. QED
        BY <2>1, <4>1
    <3>q. QED
      BY <3>1
  <2>3. ASSUME NEW i \in 1 .. n PROVE rest[i] = rest[i - 1] + sizes[i]
    <3>1. /\ i \in 0 .. n /\ i - 1 \in 0 .. n /\ i + 1 \in 1 .. n + 1
          /\ (i - 1) + 1 = i /\ (i + 1) - 1 = i
      BY <1>1
    <3>2. rest[i] = sum[i + 1] /\ rest[i - 1] = sum[i]
      BY <3>1
    <3>3. sum[i + 1] = sum[i] + all[i + 1]
      BY <2>1, <3>1
    <3>q. QED
      BY <1>1, <3>2, <3>3
  <2> HIDE DEF rest
  <2>q. QED
    BY <2>2, <2>3 DEF RunningTotals
<1>q. QED
  BY <1>2, <1>3 DEF Fits, sizes, all, file, total

\* The same of an artifact, whose config is not charged.
LEMMA ArtifactFits ==
    ASSUME EnvTyped, NEW d \in Digest,
           LET sizes == Sizes(Manifest[d].layers)
           IN  /\ \A i \in DOMAIN sizes : sizes[i] <= withDefaults(cfg.lim).file
               /\ NoneNegative(sizes) => RunningTotals(sizes, withDefaults(cfg.lim).total) # {}
    PROVE  Fits(d)
<1> DEFINE sizes == Sizes(Manifest[d].layers)
           all == ImageSizes(d)
<1>1. /\ DOMAIN sizes = 1 .. Len(sizes) /\ Len(sizes) \in Nat
      /\ all \in Seq(Int) /\ Len(all) = Len(sizes) + 1
      /\ \A i \in 1 .. Len(sizes) : all[i + 1] = sizes[i]
  BY SizesAre
<1>2. NoneNegative(all) => NoneNegative(sizes)
  <2> HIDE DEF sizes, all
  <2>1. \A i \in 1 .. Len(sizes) : i + 1 \in DOMAIN all
    BY <1>1
  <2>q. QED
    BY <1>1, <2>1 DEF NoneNegative
<1>q. QED
  BY <1>2 DEF Fits

LEMMA PaidStep ==
    ASSUME Typed, Paid, [Next]_vars
    PROVE  Paid'
<1>d. DOMAIN mem = DOMAIN FreshMemory /\ EnvTyped
  BY DEF Typed, MemTyped
<1>n. CASE ~PullStep
  <2>1. CASE pc' \in {"oras", "idle"}
    BY <2>1 DEF Paid, AfterPullStages
  <2>2. CASE pc \in AfterPullStages /\ PullSettled /\ cfg' = cfg
    BY <2>2 DEF Paid, Fits, PullSettled, AfterPullStages
  <2>3. CASE UNCHANGED <<pc, mem, cfg>>
    BY <2>3 DEF Paid, Fits, Layers, PaidFor, Capped, Spent
  <2>q. QED
    BY <1>n, <2>1, <2>2, <2>3, NotPulling
<1>f. ASSUME pc' \in {"fail", "clean", "oras manifest", "crane"} PROVE Paid'
  BY <1>f DEF Paid, AfterPullStages
<1>c. PullStep => cfg' = cfg
  BY DEF PullStep, PullNetwork, PullLocal, OrasResolve, OrasBlob, CraneResolve, CraneLayout,
         MkdirTmpFails, OrasManifest, OrasDone, CleanTmp, CraneCharge, CraneManifest, PullFrame
<1>s. ASSUME mem.serving \in Digest
      PROVE  Sizes(Layers) \in Seq(Int) /\ ImageSizes(mem.serving) \in Seq(Int)
  BY <1>s, SizesAre DEF Layers
<1>1. CASE OrasResolve
  BY <1>1, <1>f DEF OrasResolve, OrasFails
<1>2. CASE OrasManifest
  <2>1. CASE mem' = [mem EXCEPT !.next = 1, !.budget = newDownloadBudget(cfg.lim)]
             /\ pc' = "oras blobs"
    <3>1. mem'.serving = mem.serving /\ mem'.next = 1 /\ mem'.budget = newDownloadBudget(cfg.lim)
      BY <1>d, <2>1 DEF FreshMemory
    <3>2. mem.serving \in Digest /\ cfg' = cfg
      BY <1>2, <1>c DEF OrasManifest, Typed, StageTyped, ServingStages, PullStep, PullLocal
    <3>3. PICK sizes : sizes = Sizes(Layers)
      OBVIOUS
    <3>4. sizes = Sizes(Layers)'
      BY <3>1, <3>3 DEF Layers
    <3>5. PaidFor(sizes)' /\ Capped'
      BY <1>d, <1>s, <3>1, <3>2, <3>3, PaidFirst
    <3>q. QED
      BY <2>1, <3>4, <3>5 DEF Paid, AfterPullStages
  <2>q. QED
    BY <1>2, <1>f, <2>1 DEF OrasManifest, OrasFails
<1>3. CASE OrasBlob
  <2> DEFINE l == Layers[mem.next]
  <2>1. CASE pc' = "clean"
    BY <1>f, <2>1
  <2>2. CASE /\ Affordable(mem.budget, l.size)
             /\ mem' = [mem EXCEPT !.next = @ + 1, !.budget = charge(@, l.size)]
             /\ UNCHANGED pc
    <3>1. /\ pc = "oras blobs" /\ mem.next <= Len(Layers) /\ cfg' = cfg
          /\ mem.serving \in Digest /\ mem.next \in Nat \ {0}
      BY <1>3, <1>c DEF OrasBlob, Typed, MemTyped, StageTyped, ServingStages, PullStep, PullNetwork
    <3>2. /\ mem'.serving = mem.serving /\ mem'.next = mem.next + 1
          /\ mem'.budget = charge(mem.budget, l.size)
      BY <1>d, <2>2 DEF FreshMemory
    <3>3. PICK sizes : sizes = Sizes(Layers)
      OBVIOUS
    <3>4. sizes = Sizes(Layers)'
      BY <3>2, <3>3 DEF Layers
    <3>5. /\ sizes \in Seq(Int) /\ mem.next <= Len(sizes)
          /\ sizes[mem.next] = l.size
      <4>1. /\ Len(Sizes(Layers)) = Len(Layers) /\ Len(Sizes(Layers)) \in Nat
            /\ \A i \in 1 .. Len(Sizes(Layers)) : Sizes(Layers)[i] = Layers[i].size
        BY <3>1, SizesAre DEF Layers
      <4>2. mem.next \in 1 .. Len(Sizes(Layers))
        <5>1. mem.next \in Nat /\ mem.next # 0 /\ mem.next <= Len(Sizes(Layers))
          BY <3>1, <4>1
        <5>q. QED
          BY <4>1, <5>1
      <4>q. QED
        BY <1>s, <3>1, <3>3, <4>1, <4>2
    <3>6. Capped /\ PaidFor(sizes)
      BY <3>1, <3>3 DEF Paid
    <3>7. PaidFor(sizes)' /\ Capped'
      BY <1>d, <2>2, <3>1, <3>2, <3>5, <3>6, PaidOneMore
    <3>q. QED
      BY <2>2, <3>1, <3>4, <3>7 DEF Paid, AfterPullStages
  <2>q. QED
    BY <1>3, <2>1, <2>2 DEF OrasBlob, OrasFails
<1>4. CASE OrasDone
  <2>1. /\ pc = "oras blobs" /\ mem.next > Len(Layers) /\ pc' = "pulled" /\ cfg' = cfg
        /\ mem.serving \in Digest
    BY <1>4, <1>c DEF OrasDone, Typed, StageTyped, ServingStages, PullStep, PullLocal
  <2>2. mem'.resolved = mem.serving
    BY <1>4, <1>d DEF OrasDone, FreshMemory
  <2>3. Sizes(Layers) \in Seq(Int) /\ mem.next > Len(Sizes(Layers)) /\ PaidFor(Sizes(Layers))
    BY <1>s, <2>1, SizesAre DEF Layers, Paid
  <2>4. Fits(mem.serving)
    <3>1. PICK sizes : sizes = Sizes(Layers)
      OBVIOUS
    <3>2. /\ \A i \in DOMAIN sizes : sizes[i] <= withDefaults(cfg.lim).file
          /\ NoneNegative(sizes) => RunningTotals(sizes, withDefaults(cfg.lim).total) # {}
      BY <2>3, <3>1, PaidAll
    <3>q. QED
      BY <1>d, <2>1, <3>1, <3>2, ArtifactFits DEF Layers
  <2>q. QED
    BY <2>1, <2>2, <2>4 DEF Paid, Fits
<1>5. CASE CleanTmp
  BY <1>5, <1>f DEF CleanTmp, Fail
<1>6. CASE CraneResolve
  <2>1. CASE /\ mem' = [mem EXCEPT !.serving = Served, !.next = 1,
                                   !.budget = newDownloadBudget(cfg.lim)]
             /\ Target # None /\ cfg.platform # "malformed" /\ Served # None
             /\ pc' = "crane budget"
    <3>1. PICK d, b : d = Served /\ b = newDownloadBudget(cfg.lim)
      OBVIOUS
    <3>2. mem' = [mem EXCEPT !.serving = d, !.next = 1, !.budget = b]
      BY <2>1, <3>1
    <3>3. mem'.serving = d /\ mem'.next = 1 /\ mem'.budget = b
      BY <1>d, <3>2 DEF FreshMemory
    <3>4. d \in Digest /\ cfg' = cfg
      BY <1>6, <1>c, <1>d, <2>1, <3>1, TargetTyped DEF PullStep, PullNetwork
    <3>5. PICK sizes : sizes = ImageSizes(d)
      OBVIOUS
    <3>6. sizes \in Seq(Int)
      BY <3>4, <3>5, SizesAre
    <3>7. PaidFor(sizes)' /\ Capped'
      BY <1>d, <3>1, <3>3, <3>4, <3>6, PaidFirst
    <3>q. QED
      BY <2>1, <3>3, <3>5, <3>7 DEF Paid, AfterPullStages
  <2>q. QED
    BY <1>6, <1>f, <2>1 DEF CraneResolve, PullFails, Fail
<1>10. CASE CraneCharge
  <2> DEFINE all == ImageSizes(mem.serving)
  <2>0. /\ pc = "crane budget" /\ mem.serving \in Digest /\ cfg' = cfg
        /\ Capped /\ PaidFor(all) /\ all \in Seq(Int)
    BY <1>10, <1>c, <1>s
       DEF CraneCharge, Typed, StageTyped, ServingStages, PullStep, PullLocal, Paid
  <2>1. CASE /\ mem.next <= Len(all) /\ Affordable(mem.budget, all[mem.next])
             /\ mem' = [mem EXCEPT !.next = @ + 1, !.budget = charge(@, all[mem.next])]
             /\ UNCHANGED pc
    <3>1. PICK sizes : sizes = all
      OBVIOUS
    <3>2. /\ mem'.serving = mem.serving /\ mem'.next = mem.next + 1
          /\ mem'.budget = charge(mem.budget, sizes[mem.next])
      BY <1>d, <2>1, <3>1 DEF FreshMemory
    <3>3. PaidFor(sizes)' /\ Capped'
      BY <1>d, <2>0, <2>1, <3>1, <3>2, PaidOneMore
    <3>q. QED
      BY <2>0, <2>1, <3>1, <3>2, <3>3 DEF Paid, AfterPullStages
  <2>2. CASE mem.next > Len(all) /\ pc' = "crane layout" /\ mem' = mem
    <3>1. PICK sizes : sizes = all
      OBVIOUS
    <3>2. /\ \A i \in DOMAIN sizes : sizes[i] <= withDefaults(cfg.lim).file
          /\ NoneNegative(sizes) => RunningTotals(sizes, withDefaults(cfg.lim).total) # {}
      BY <2>0, <2>2, <3>1, PaidAll
    <3>3. Fits(mem.serving)
      BY <1>d, <2>0, <3>1, <3>2, ImageFits
    <3>q. QED
      BY <2>0, <2>2, <3>3 DEF Paid, Fits, AfterPullStages
  <2>q. QED
    BY <1>10, <1>f, <2>1, <2>2 DEF CraneCharge, PullFails, Fail
<1>7. CASE CraneLayout
  <2>1. CASE pc = "crane layout" /\ pc' = "crane manifest" /\ mem' = mem
    BY <1>7, <1>c, <2>1 DEF Paid, Fits, AfterPullStages, PullStep, PullNetwork
  <2>q. QED
    BY <1>7, <1>f, <2>1 DEF CraneLayout, PullFails, Fail
<1>8. CASE CraneManifest
  <2>1. CASE pc = "crane manifest" /\ pc' = "pulled" /\ mem' = [mem EXCEPT !.resolved = mem.serving]
    <3>1. mem'.resolved = mem.serving /\ cfg' = cfg
      BY <1>8, <1>c, <1>d, <2>1 DEF FreshMemory, PullStep, PullLocal
    <3>q. QED
      BY <2>1, <3>1 DEF Paid, Fits
  <2>q. QED
    BY <1>8, <1>f, <2>1 DEF CraneManifest, PullFails, Fail
<1>9. CASE MkdirTmpFails
  BY <1>9, <1>f DEF MkdirTmpFails, Fail
<1>q. QED
  BY <1>n, <1>1, <1>2, <1>3, <1>4, <1>5, <1>6, <1>7, <1>8, <1>9, <1>10
     DEF PullStep, PullNetwork, PullLocal

\* Whichever client fetched it, no layer of what a run goes on with is over
\* --max-file, and all of them are within --max-total as long as the manifest
\* declares no negative size, which charge would give back to the budget
\* (downloadBudget, ociImage).
THEOREM DownloadsAreLimited == Spec => []DownloadWithinLimits
<1>1. Init => Paid
  BY DEF Init, Paid, AfterPullStages
<1>2. Typed /\ Paid /\ [Next]_vars => Paid'
  BY PaidStep
<1>3. Paid => DownloadWithinLimits
  BY DEF Paid, Fits, DownloadWithinLimits
<1>q. QED
  BY <1>1, <1>2, <1>3, AlwaysTyped, PTL DEF Spec

=============================================================================
