------------------------- MODULE Verification_proofs ------------------------
(***************************************************************************)
(* A run that was asked to verify starts to unpack only when the digest it *)
(* resolved is signed, for all registries, listings, attachments, flags    *)
(* and trusted roots.                                                      *)
(***************************************************************************)
EXTENDS UnpackerRun_proofs

IsSeq(s) == s \in Seq(ToSet(s))

LEMMA EmptyList == IsSeq(<<>>) /\ ToSet(<<>>) = {}
BY DEF IsSeq, ToSet

LEMMA AppendToSet ==
    ASSUME NEW s, IsSeq(s), NEW x
    PROVE  IsSeq(Append(s, x)) /\ ToSet(Append(s, x)) = ToSet(s) \cup {x}
<1> DEFINE S == ToSet(s) \cup {x}
<1>1. s \in Seq(S)
  BY DEF IsSeq
<1>2. Append(s, x) \in Seq(S)
  BY <1>1
<1>3. /\ DOMAIN Append(s, x) = 1 .. Len(s) + 1
      /\ \A i \in 1 .. Len(s) : Append(s, x)[i] = s[i]
      /\ Append(s, x)[Len(s) + 1] = x
      /\ DOMAIN s = 1 .. Len(s) /\ Len(s) \in Nat
  BY <1>1
<1>4. ToSet(Append(s, x)) = S
  BY <1>3 DEF ToSet
<1>q. QED
  BY <1>2, <1>4 DEF IsSeq

-----------------------------------------------------------------------------
(* The invariant *)

\* The referrer is one of the listing's, about the resolved digest, and its
\* files hold what the registry has for them.
Vouched(r) ==
    /\ \E e \in ToSet(mem.listing) :
          AboutUs(e) /\ r.type = ArtifactType(e) /\ r.of = e.of
    /\ \A n \in ToSet(r.files) :
          /\ n \in DOMAIN referrersDir[<<r.type, r.of>>]
          /\ referrersDir[<<r.type, r.of>>][n] \in FileContents(r, n)

BeforeListing ==
    {"idle", "oras", "oras manifest", "oras blobs", "clean", "crane", "crane layout",
     "crane budget", "crane manifest", "pulled", "query"}

Filing == {"download", "payload", "list", "verify", "bundles"}

Gate ==
    /\ DOMAIN referrersDir = ReferrerDirs
    /\ pc \in BeforeListing => mem.referrers = <<>>
    /\ pc \in {"download", "payload"} =>
          mem.listing \in Listings /\ mem.next \in Nat \ {0} /\ IsSeq(mem.referrers)
    /\ pc = "payload" =>
          /\ mem.next <= Len(mem.listing)
          /\ IsSeq(mem.files) /\ mem.files # <<>>
          /\ Vouched(Opened)
    /\ pc \in Filing => \A r \in ToSet(mem.referrers) : Vouched(r)
    /\ pc = "bundles" => mem.untried \subseteq bundlePaths
    /\ pc = "verified" => Signed
    /\ pc \in UnpackStages /\ VerifyRequested => Signed

LEMMA GateInit == Init => Gate
BY DEF Init, Gate, FreshMemory, BeforeListing, Filing, UnpackStages

-----------------------------------------------------------------------------
(* What stays true while the digest, the listing and the flags stay *)

SameQuestion == mem'.listing = mem.listing /\ mem'.resolved = mem.resolved /\ cfg' = cfg

LEMMA SignedKept ==
    ASSUME SameQuestion
    PROVE  Signed' = Signed /\ VerifyRequested' = VerifyRequested
BY DEF SameQuestion, Signed, MayBeBundle, AboutUs, Good, VerifyRequested

LEMMA VouchedKept ==
    ASSUME SameQuestion, UNCHANGED referrersDir, NEW r, Vouched(r)
    PROVE  Vouched(r)'
BY DEF SameQuestion, Vouched, AboutUs

\* Filing a right content under a name harms no file that is there: two
\* entries share a directory only if they are one artifact.
LEMMA FiledKeeps ==
    ASSUME SameQuestion, DOMAIN referrersDir = ReferrerDirs,
           mem.listing \in Listings, NEW e \in ToSet(mem.listing),
           NEW name, NEW content \in FileContents(e, name),
           referrersDir' = Filed(e, name, content)
    PROVE  /\ name \in DOMAIN referrersDir'[ReferrerDir(e)]
           /\ referrersDir'[ReferrerDir(e)][name] = content
           /\ DOMAIN referrersDir' = ReferrerDirs
           /\ \A r : Vouched(r) => Vouched(r)'
<1> DEFINE dir == referrersDir[ReferrerDir(e)]
           filed == WithFile(dir, name, content)
<1>1. ReferrerDir(e) \in DOMAIN referrersDir
  BY DEF ReferrerDirs
<1>2. /\ referrersDir'[ReferrerDir(e)] = filed
      /\ \A d \in ReferrerDirs : d # ReferrerDir(e) => referrersDir'[d] = referrersDir[d]
      /\ DOMAIN referrersDir' = DOMAIN referrersDir
  BY <1>1 DEF Filed
<1>3. /\ name \in DOMAIN filed /\ filed[name] = content
      /\ \A n \in DOMAIN dir : n \in DOMAIN filed /\ (n = name \/ filed[n] = dir[n])
  BY DEF WithFile
<1> HIDE DEF filed
<1>4. ASSUME NEW r, Vouched(r)
      PROVE  Vouched(r)'
  <2> DEFINE d == <<r.type, r.of>>
  <2>1. \E x \in ToSet(mem'.listing) :
           AboutUs(x)' /\ r.type = ArtifactType(x) /\ r.of = x.of
    BY <1>4 DEF Vouched, AboutUs, SameQuestion
  <2>d. d \in ReferrerDirs
    BY <1>4 DEF Vouched, ReferrerDir, ReferrerDirs
  <2>2. ASSUME NEW n \in ToSet(r.files)
        PROVE  n \in DOMAIN referrersDir'[d] /\ referrersDir'[d][n] \in FileContents(r, n)
    <3>1. n \in DOMAIN referrersDir[d] /\ referrersDir[d][n] \in FileContents(r, n)
      BY <1>4, <2>2 DEF Vouched
    <3>2. CASE d = ReferrerDir(e)
      <4>1. FileContents(r, name) = FileContents(e, name)
        BY <3>2 DEF ReferrerDir, FileContents, Payload
      <4>2. n \in DOMAIN filed /\ filed[n] \in FileContents(r, n)
        BY <1>3, <3>1, <3>2, <4>1
      <4>q. QED
        BY <1>2, <3>2, <4>2
    <3>q. QED
      BY <1>2, <2>d, <3>1, <3>2
  <2>q. QED
    BY <2>1, <2>2 DEF Vouched
<1>q. QED
  BY <1>2, <1>3, <1>4

-----------------------------------------------------------------------------
(* One step at a time *)

\* A download adds no directory to referrers/, wherever its title leads.
LEMMA PutKeepsDirs ==
    ASSUME NEW l, NEW content, Put(l, content)
    PROVE  DOMAIN referrersDir' = DOMAIN referrersDir
BY DEF Put

\* Pull knows nothing of referrers.
LEMMA PullKeepsGate ==
    ASSUME PullNetwork \/ PullLocal, DOMAIN mem = DOMAIN FreshMemory, Gate
    PROVE  Gate'
<1>1. /\ pc \in BeforeListing /\ pc' \in BeforeListing \cup {"fail"}
      /\ mem'.referrers = mem.referrers /\ DOMAIN referrersDir' = DOMAIN referrersDir
  <2>1. CASE OrasResolve
    BY <2>1 DEF OrasResolve, OrasFails, PullFrame, BeforeListing, FreshMemory
  <2>2. CASE OrasBlob
    <3>1. /\ pc = "oras blobs" /\ pc' \in {"oras blobs", "clean"}
          /\ mem'.referrers = mem.referrers
      BY <2>2 DEF OrasBlob, OrasFails, FreshMemory
    <3>2. PullFrame \/ \E content : Put(Layers[mem.next], content)
      BY <2>2 DEF OrasBlob
    <3>3. DOMAIN referrersDir' = DOMAIN referrersDir
      BY <3>2, PutKeepsDirs DEF PullFrame
    <3>q. QED
      BY <3>1, <3>3 DEF BeforeListing
  <2>3. CASE CraneResolve
    BY <2>3 DEF CraneResolve, PullFails, Fail, PullFrame, BeforeListing, FreshMemory
  <2>4. CASE CraneLayout
    BY <2>4 DEF CraneLayout, PullFails, Fail, PullFrame, BeforeListing, FreshMemory
  <2>5. CASE MkdirTmpFails
    BY <2>5 DEF MkdirTmpFails, Fail, PullFrame, BeforeListing, FreshMemory
  <2>6. CASE OrasManifest
    BY <2>6 DEF OrasManifest, OrasFails, PullFrame, BeforeListing, FreshMemory
  <2>7. CASE OrasDone
    BY <2>7 DEF OrasDone, PullFrame, BeforeListing, FreshMemory
  <2>8. CASE CleanTmp
    BY <2>8 DEF CleanTmp, Fail, PullFrame, BeforeListing, FreshMemory
  <2>9. CASE CraneManifest
    BY <2>9 DEF CraneManifest, PullFails, Fail, PullFrame, BeforeListing, FreshMemory
  <2>10. CASE CraneCharge
    BY <2>10 DEF CraneCharge, PullFails, Fail, PullFrame, BeforeListing, FreshMemory
  <2>q. QED
    BY <2>1, <2>2, <2>3, <2>4, <2>5, <2>6, <2>7, <2>8, <2>9, <2>10 DEF PullNetwork, PullLocal
<1>q. QED
  BY <1>1 DEF Gate, BeforeListing, Filing, UnpackStages

\* What asks nothing, files nothing and leaves the stage as it is.
LEMMA QuietKeepsGate ==
    ASSUME UNCHANGED <<pc, cfg, mem, referrersDir>>, Gate
    PROVE  Gate'
<1>1. SameQuestion
  BY DEF SameQuestion
<1>2. \A r : Vouched(r) => Vouched(r)'
  BY <1>1, VouchedKept
<1>3. Opened' = Opened /\ bundlePaths' = bundlePaths
  BY DEF Opened, Current, bundlePaths
<1>q. QED
  BY <1>1, <1>2, <1>3, SignedKept DEF Gate

LEMMA ReferrersKeepGate ==
    ASSUME ReferrersNetwork \/ ReferrersLocal, DOMAIN mem = DOMAIN FreshMemory, Gate
    PROVE  Gate'
<1> USE DEF BeforeListing, Filing, UnpackStages
<1>d. DOMAIN referrersDir = ReferrerDirs
  BY DEF Gate
<1>f. ASSUME pc' \in {"fail", "record"}, DOMAIN referrersDir' = ReferrerDirs
      PROVE  Gate'
  BY <1>f DEF Gate
<1>c. ASSUME Downloading \/ pc = "payload"
      PROVE  /\ Current \in ToSet(mem.listing)
             /\ mem.listing \in Listings /\ IsSeq(mem.listing)
             /\ mem.next \in 1 .. Len(mem.listing)
             /\ IsSeq(Payload(Current))
  <2>1. mem.listing \in Listings /\ mem.next \in Nat \ {0} /\ mem.next <= Len(mem.listing)
    BY <1>c DEF Gate, Downloading
  <2>2. IsSeq(mem.listing)
    BY <2>1, WorkspaceAssumption DEF IsSeq
  <2>3. mem.next \in 1 .. Len(mem.listing) /\ Current \in ToSet(mem.listing)
    BY <2>1, <2>2 DEF IsSeq, ToSet, Current
  <2>4. Current.of \in Referrer
    BY <2>1, <2>3, WorkspaceAssumption
  <2>5. IsSeq(Payload(Current))
    BY <2>4, WorkspaceAssumption, EmptyList DEF IsSeq, Payload
  <2>q. QED
    BY <2>1, <2>2, <2>3, <2>5
<1>1. CASE Query
  <2>1. CASE pc' = "fail"
    BY <1>1, <1>d, <1>f, <2>1 DEF Query
  <2>2. CASE pc' = "list"
    BY <1>1, <2>2 DEF Query, FetchFails, ReferrersFrame, Gate, ToSet
  <2>3. CASE pc' = "download"
    <3>0. mem'.listing \in Listings /\ mem'.next = 1 /\ mem'.referrers = <<>>
      BY <1>1, <2>3 DEF Query, FetchFails, Gate, FreshMemory
    <3>1. mem'.listing \in Listings /\ mem'.next \in Nat \ {0}
      BY <3>0
    <3>2. IsSeq(mem'.referrers) /\ \A r \in ToSet(mem'.referrers) : Vouched(r)'
      BY <3>0, EmptyList
    <3>3. DOMAIN referrersDir' = ReferrerDirs
      BY <1>1, <1>d DEF Query
    <3>q. QED
      BY <2>3, <3>1, <3>2, <3>3 DEF Gate
  <2>q. QED
    BY <1>1, <2>1, <2>2, <2>3 DEF Query, FetchFails
<1>2. CASE RejectReferrer
  BY <1>2, <1>d, <1>f DEF RejectReferrer, ReferrerFails
<1>3. CASE SkipReferrer
  <2>1. SameQuestion /\ mem'.referrers = mem.referrers /\ mem'.next = mem.next + 1
    BY <1>3 DEF SkipReferrer, ReferrersFrame, SameQuestion, FreshMemory
  <2>2. \A r : Vouched(r) => Vouched(r)'
    BY <1>3, <2>1, VouchedKept DEF SkipReferrer
  <2>3. pc = "download" /\ pc' = "download" /\ referrersDir' = referrersDir
    BY <1>3 DEF SkipReferrer, Downloading
  <2>q. QED
    BY <2>1, <2>2, <2>3 DEF Gate, SameQuestion
<1>4. CASE OpenReferrer
  <2>1. CASE pc' = "record"
    BY <1>4, <1>d, <1>f, <2>1 DEF OpenReferrer, Filed
  <2>2. CASE /\ referrersDir' = Filed(Current, ManifestName, ManifestContent)
             /\ mem' = [mem EXCEPT !.files = <<ManifestName>>,
                                   !.budget = charge(@, Attached[Current.of].size)]
             /\ pc' = "payload"
    <3>1. /\ SameQuestion /\ mem'.referrers = mem.referrers /\ mem'.next = mem.next
          /\ mem'.files = <<ManifestName>> /\ Current' = Current
      BY <1>4, <2>2 DEF OpenReferrer, ReferrersFrame, SameQuestion, FreshMemory, Current
    <3>2. ManifestContent \in FileContents(Current, ManifestName)
      BY DEF FileContents
    <3>3. /\ ManifestName \in DOMAIN referrersDir'[ReferrerDir(Current)]
          /\ referrersDir'[ReferrerDir(Current)][ManifestName] = ManifestContent
          /\ DOMAIN referrersDir' = ReferrerDirs
          /\ \A r : Vouched(r) => Vouched(r)'
      BY <1>4, <1>c, <1>d, <2>2, <3>1, <3>2, FiledKeeps DEF OpenReferrer
    <3>4. IsSeq(<<ManifestName>>) /\ ToSet(<<ManifestName>>) = {ManifestName}
      BY DEF IsSeq, ToSet
    <3>5. /\ Opened'.type = ArtifactType(Current) /\ Opened'.of = Current.of
          /\ Opened'.files = <<ManifestName>>
      BY <3>1 DEF Opened
    <3>6. AboutUs(Current)' /\ Current \in ToSet(mem'.listing)
      BY <1>4, <1>c, <3>1 DEF OpenReferrer, Fileable, AboutUs, SameQuestion
    <3>7. FileContents(Opened', ManifestName) = FileContents(Current, ManifestName)
      BY <3>5 DEF FileContents, Payload
    <3>8. Vouched(Opened)'
      <4>1. Vouched(Opened)' <=>
               /\ \E e \in ToSet(mem'.listing) :
                     AboutUs(e)' /\ Opened'.type = ArtifactType(e) /\ Opened'.of = e.of
               /\ \A n \in ToSet(Opened'.files) :
                     /\ n \in DOMAIN referrersDir'[<<Opened'.type, Opened'.of>>]
                     /\ referrersDir'[<<Opened'.type, Opened'.of>>][n] \in FileContents(Opened', n)
        BY DEF Vouched
      <4>q. QED
        BY <3>1, <3>2, <3>3, <3>4, <3>5, <3>6, <3>7, <4>1 DEF ReferrerDir
    <3>9. /\ mem'.next \in Nat \ {0} /\ mem'.next <= Len(mem'.listing)
          /\ mem'.listing \in Listings /\ IsSeq(mem'.referrers)
          /\ \A r \in ToSet(mem'.referrers) : Vouched(r)'
      BY <1>4, <1>c, <3>1, <3>3 DEF OpenReferrer, Downloading, Gate, SameQuestion
    <3>10. IsSeq(mem'.files) /\ mem'.files # <<>>
      BY <3>1, <3>4
    <3>q. QED
      BY <2>2, <3>3, <3>8, <3>9, <3>10 DEF Gate
  <2>q. QED
    BY <1>4, <2>1, <2>2 DEF OpenReferrer, ReferrerFails
<1>5. CASE FetchPayload
  <2> DEFINE b == NextPayload
  <2>1. CASE pc' = "record"
    BY <1>5, <1>d, <1>f, <2>1 DEF FetchPayload, Filed
  <2>2. CASE /\ referrersDir' = Filed(Current, FileName(b), b.blob)
             /\ mem' = [mem EXCEPT !.files = Append(@, FileName(b)),
                                   !.budget = charge(@, b.size)]
             /\ UNCHANGED pc
    <3>p. pc = "payload"
      BY <1>5 DEF FetchPayload, PayloadLeft
    <3>1. /\ SameQuestion /\ mem'.referrers = mem.referrers /\ mem'.next = mem.next
          /\ mem'.files = Append(mem.files, FileName(b)) /\ Current' = Current
      BY <1>5, <2>2 DEF FetchPayload, ReferrersFrame, SameQuestion, FreshMemory, Current
    <3>2. IsSeq(mem.files) /\ mem.files # <<>> /\ Vouched(Opened)
      BY <3>p DEF Gate
    <3>3. b \in ToSet(Payload(Current))
      <4>1. Len(mem.files) \in 1 .. Len(Payload(Current))
        BY <1>5, <1>c, <3>p, <3>2 DEF FetchPayload, PayloadLeft, IsSeq
      <4>q. QED
        BY <1>c, <3>p, <4>1 DEF NextPayload, IsSeq, ToSet
    <3>4. b.blob \in FileContents(Current, FileName(b))
      BY <3>3 DEF FileContents
    <3>5. /\ FileName(b) \in DOMAIN referrersDir'[ReferrerDir(Current)]
          /\ referrersDir'[ReferrerDir(Current)][FileName(b)] = b.blob
          /\ DOMAIN referrersDir' = ReferrerDirs
          /\ \A r : Vouched(r) => Vouched(r)'
      BY <1>c, <1>d, <2>2, <3>p, <3>1, <3>4, FiledKeeps
    <3>6. IsSeq(mem'.files) /\ ToSet(mem'.files) = ToSet(mem.files) \cup {FileName(b)}
      BY <3>1, <3>2, AppendToSet
    <3>7. /\ Opened'.type = Opened.type /\ Opened'.of = Opened.of
          /\ Opened'.type = ArtifactType(Current) /\ Opened'.of = Current.of
          /\ Opened.files = mem.files /\ Opened'.files = mem'.files
      BY <3>1 DEF Opened
    <3>8. \A n : /\ FileContents(Opened', n) = FileContents(Current, n)
                 /\ FileContents(Opened, n) = FileContents(Current, n)
      BY <3>7 DEF FileContents, Payload
    <3>9. Vouched(Opened)'
      <4>1. Vouched(Opened)' <=>
               /\ \E e \in ToSet(mem'.listing) :
                     AboutUs(e)' /\ Opened'.type = ArtifactType(e) /\ Opened'.of = e.of
               /\ \A n \in ToSet(Opened'.files) :
                     /\ n \in DOMAIN referrersDir'[<<Opened'.type, Opened'.of>>]
                     /\ referrersDir'[<<Opened'.type, Opened'.of>>][n] \in FileContents(Opened', n)
        BY DEF Vouched
      <4>2. PICK e \in ToSet(mem'.listing) :
               AboutUs(e)' /\ Opened'.type = ArtifactType(e) /\ Opened'.of = e.of
        BY <3>1, <3>2, <3>7 DEF Vouched, SameQuestion, AboutUs
      <4>q. QED
        BY <3>2, <3>4, <3>5, <3>6, <3>7, <3>8, <4>1, <4>2 DEF Vouched, ReferrerDir
    <3>10. mem'.files # <<>>
      BY <3>1, <3>2 DEF IsSeq
    <3>11. /\ mem'.next \in Nat \ {0} /\ mem'.next <= Len(mem'.listing)
           /\ mem'.listing \in Listings /\ IsSeq(mem'.referrers)
           /\ \A r \in ToSet(mem'.referrers) : Vouched(r)'
      BY <3>p, <3>1, <3>5 DEF Gate, SameQuestion
    <3>q. QED
      BY <2>2, <3>p, <3>5, <3>6, <3>9, <3>10, <3>11 DEF Gate
  <2>q. QED
    BY <1>5, <2>1, <2>2 DEF FetchPayload, ReferrerFails
<1>6. CASE FileReferrer
  <2>1. /\ SameQuestion /\ mem'.next = mem.next + 1 /\ referrersDir' = referrersDir
        /\ mem'.referrers = Append(mem.referrers, Opened)
        /\ pc = "payload" /\ pc' = "download"
    BY <1>6 DEF FileReferrer, ReferrersFrame, SameQuestion, FreshMemory
  <2>2. \A r : Vouched(r) => Vouched(r)'
    BY <2>1, VouchedKept
  <2>3. IsSeq(mem'.referrers) /\ ToSet(mem'.referrers) = ToSet(mem.referrers) \cup {Opened}
    BY <2>1, AppendToSet DEF Gate
  <2>4. \A r \in ToSet(mem'.referrers) : Vouched(r)'
    <3>1. ASSUME NEW r \in ToSet(mem'.referrers) PROVE Vouched(r)
      BY <2>1, <2>3 DEF Gate
    <3>q. QED
      BY <2>2, <3>1
  <2>q. QED
    BY <2>1, <2>3, <2>4 DEF Gate, SameQuestion
<1>7. CASE Downloaded
  <2>1. /\ SameQuestion /\ mem' = mem /\ referrersDir' = referrersDir
        /\ pc = "download" /\ pc' = "list"
    BY <1>7 DEF Downloaded, ReferrersFrame, SameQuestion
  <2>2. \A r : Vouched(r) => Vouched(r)'
    BY <2>1, VouchedKept
  <2>q. QED
    BY <2>1, <2>2 DEF Gate
<1>8. CASE RecordLanded
  BY <1>8, <1>d, <1>f DEF RecordLanded, FetchFails
<1>9. CASE WriteListing
  <2>1. CASE pc' = "fail"
    BY <1>9, <1>d, <1>f, <2>1 DEF WriteListing
  <2>2. CASE pc' = (IF VerifyRequested THEN "verify" ELSE "clear") /\ mem' = mem
    <3>1. SameQuestion /\ referrersDir' = referrersDir /\ pc = "list"
      BY <1>9, <2>2 DEF WriteListing, ReferrersFrame, SameQuestion
    <3>2. \A r : Vouched(r) => Vouched(r)'
      BY <3>1, VouchedKept
    <3>q. QED
      BY <2>2, <3>1, <3>2, SignedKept DEF Gate
  <2>q. QED
    BY <1>9, <2>1, <2>2 DEF WriteListing, FetchFails
<1>q. QED
  BY <1>1, <1>2, <1>3, <1>4, <1>5, <1>6, <1>7, <1>8, <1>9 DEF ReferrersNetwork, ReferrersLocal

\* The loop opens only what is filed: a blob of an entry about the digest.
LEMMA OpenedBundle ==
    ASSUME Gate, pc = "bundles", NEW p \in mem.untried
    PROVE  \E e \in ToSet(mem.listing) : MayBeBundle(e) /\ BundleAt(p) \in Carried(e)
<1>1. p \in bundlePaths
  BY DEF Gate
<1>2. PICK i, j :
        /\ p = <<i, j>> /\ i \in DOMAIN mem.referrers
        /\ mem.referrers[i].type = "bundle"
        /\ j \in DOMAIN mem.referrers[i].files
        /\ mem.referrers[i].files[j] # ManifestName
  BY <1>1 DEF bundlePaths
<1> DEFINE r == mem.referrers[i]
           n == r.files[j]
<1>3. Vouched(r) /\ n \in ToSet(r.files)
  BY <1>2 DEF Gate, Filing, ToSet
<1>4. PICK e \in ToSet(mem.listing) :
        AboutUs(e) /\ r.type = ArtifactType(e) /\ r.of = e.of
  BY <1>3 DEF Vouched
<1>5. BundleAt(p) \in FileContents(r, n)
  BY <1>2, <1>3 DEF Vouched, BundleAt
<1>6. FileContents(r, n) \subseteq Carried(e)
  BY <1>2, <1>4 DEF FileContents, Carried, Payload
<1>7. MayBeBundle(e)
  BY <1>2, <1>4 DEF MayBeBundle, ArtifactType
<1>q. QED
  BY <1>5, <1>6, <1>7

\* What satisfies the policy is what the flags ask for.
LEMMA SatisfiesIsGood ==
    ASSUME NEW b, Satisfies(b)
    PROVE  Good(b)
BY DEF Satisfies, Good, Signer, Observers, KeyMode

\* What the loop accepts is signed.
LEMMA VerifyKeepsGate ==
    ASSUME VerifyNetwork \/ VerifyLocal, DOMAIN mem = DOMAIN FreshMemory, Gate
    PROVE  Gate'
<1> USE DEF BeforeListing, Filing, UnpackStages
<1>d. DOMAIN referrersDir = ReferrerDirs
  BY DEF Gate
<1>r. referrersDir' = referrersDir /\ cfg' = cfg
  BY DEF VerifyNetwork, VerifyLocal, VerifyBegin, VerifyBundle, BundlesExhausted,
         WriteVerified, VerifyFrame
<1>f. ASSUME pc' = "fail"
      PROVE  Gate'
  BY <1>d, <1>r, <1>f DEF Gate
<1>v. ASSUME SameQuestion, mem'.referrers = mem.referrers, pc \in {"verify", "bundles"}
      PROVE  \A r \in ToSet(mem'.referrers) : Vouched(r)'
  <2>1. \A r \in ToSet(mem.referrers) : Vouched(r)
    BY <1>v DEF Gate
  <2>q. QED
    BY <1>r, <1>v, <2>1, VouchedKept
<1>1. CASE VerifyBegin
  <2>1. CASE pc' = "bundles" /\ mem' = [mem EXCEPT !.untried = bundlePaths]
    <3>1. /\ SameQuestion /\ mem'.referrers = mem.referrers /\ mem'.untried = bundlePaths
          /\ pc = "verify"
      BY <1>1, <1>r, <2>1 DEF VerifyBegin, SameQuestion, FreshMemory
    <3>2. bundlePaths' = bundlePaths
      BY <3>1 DEF bundlePaths
    <3>q. QED
      BY <1>d, <1>r, <1>v, <2>1, <3>1, <3>2 DEF Gate
  <2>q. QED
    BY <1>1, <1>f, <2>1 DEF VerifyBegin, VerifyFails
<1>2. CASE VerifyBundle
  <2>1. PICK p \in mem.untried :
          \/ pc' = "fail"
          \/ /\ Satisfies(BundleAt(p))
             /\ \E v : mem' = [mem EXCEPT !.verification = v]
             /\ pc' = "verified"
          \/ mem' = [mem EXCEPT !.untried = Untried(p)] /\ UNCHANGED pc
    BY <1>2 DEF VerifyBundle, VerifyFails
  <2>2. pc = "bundles"
    BY <1>2 DEF VerifyBundle
  <2>3. CASE /\ Satisfies(BundleAt(p))
             /\ \E v : mem' = [mem EXCEPT !.verification = v]
             /\ pc' = "verified"
    <3>1. SameQuestion
      BY <1>r, <2>3 DEF SameQuestion, FreshMemory
    <3>2. Signed
      BY <2>2, <2>3, OpenedBundle, SatisfiesIsGood DEF Signed
    <3>q. QED
      BY <1>d, <1>r, <2>3, <3>1, <3>2, SignedKept DEF Gate
  <2>4. CASE mem' = [mem EXCEPT !.untried = Untried(p)] /\ UNCHANGED pc
    <3>1. /\ SameQuestion /\ mem'.referrers = mem.referrers
          /\ mem'.untried = mem.untried \ {p}
      BY <1>r, <2>4 DEF SameQuestion, FreshMemory, Untried
    <3>2. bundlePaths' = bundlePaths
      BY <3>1 DEF bundlePaths
    <3>q. QED
      BY <1>d, <1>r, <1>v, <2>2, <2>4, <3>1, <3>2 DEF Gate
  <2>q. QED
    BY <1>f, <2>1, <2>3, <2>4
<1>3. CASE BundlesExhausted
  BY <1>3, <1>f DEF BundlesExhausted, VerifyFails
<1>4. CASE WriteVerified
  <2>1. pc = "verified" /\ Signed
    BY <1>4 DEF WriteVerified, Gate
  <2>2. CASE pc' = "clear" /\ mem' = mem
    <3>1. SameQuestion
      BY <1>r, <2>2 DEF SameQuestion
    <3>q. QED
      BY <1>d, <1>r, <2>1, <2>2, <3>1, SignedKept DEF Gate
  <2>3. CASE pc' = "idle" /\ mem' = FreshMemory
    BY <1>d, <1>r, <2>3 DEF Gate, FreshMemory
  <2>q. QED
    BY <1>4, <2>2, <2>3 DEF WriteVerified, Exits
<1>q. QED
  BY <1>1, <1>2, <1>3, <1>4 DEF VerifyNetwork, VerifyLocal

\* What Unpack changes is not asked about.
LEMMA UnpackKeepsGate ==
    ASSUME UnpackNext, DOMAIN mem = DOMAIN FreshMemory, Gate
    PROVE  Gate'
<1> USE DEF BeforeListing, Filing, UnpackStages
<1>1. /\ pc \in UnpackStages /\ referrersDir' = referrersDir /\ cfg' = cfg
      /\ \/ pc' = "idle" /\ mem' = FreshMemory
         \/ pc' = "fail"
         \/ pc' \in UnpackStages /\ mem'.listing = mem.listing /\ mem'.resolved = mem.resolved
  <2>1. CASE UnpackClear
    BY <2>1 DEF UnpackClear, Decide, PopulateFails, Fail, UnpackFrame, FreshMemory
  <2>2. CASE ExtractLayer
    BY <2>2 DEF ExtractLayer, PopulateFails, UnpackFrame, FreshMemory
  <2>3. CASE ExtractDone
    BY <2>3 DEF ExtractDone, UnpackFrame
  <2>4. CASE RunUmoci
    BY <2>4 DEF RunUmoci, PopulateFails, UnpackFrame, FreshMemory
  <2>5. CASE CopyAll
    BY <2>5 DEF CopyAll, PopulateFails, UnpackFrame, FreshMemory
  <2>6. CASE Discard
    BY <2>6 DEF Discard, Fail, UnpackFrame
  <2>7. CASE RemovePart
    BY <2>7 DEF RemovePart, UnpackFrame
  <2>8. CASE RemoveImage
    BY <2>8 DEF RemoveImage, Fail, UnpackFrame
  <2>9. CASE Rename
    BY <2>9 DEF Rename, Exits, Fail
  <2>q. QED
    BY <2>1, <2>2, <2>3, <2>4, <2>5, <2>6, <2>7, <2>8, <2>9 DEF UnpackNext
<1>2. CASE pc' = "idle" /\ mem' = FreshMemory
  BY <1>1, <1>2 DEF Gate, FreshMemory
<1>3. CASE pc' = "fail"
  BY <1>1, <1>3 DEF Gate
<1>4. CASE pc' \in UnpackStages /\ mem'.listing = mem.listing /\ mem'.resolved = mem.resolved
  <2>1. SameQuestion
    BY <1>1, <1>4 DEF SameQuestion
  <2>2. DOMAIN referrersDir = ReferrerDirs /\ (VerifyRequested => Signed)
    BY <1>1 DEF Gate
  <2>3. DOMAIN referrersDir' = ReferrerDirs /\ (VerifyRequested' => Signed')
    BY <1>1, <2>1, <2>2, SignedKept
  <2>q. QED
    BY <1>4, <2>3 DEF Gate
<1>q. QED
  BY <1>1, <1>2, <1>3, <1>4

LEMMA GateStep ==
    ASSUME DOMAIN mem = DOMAIN FreshMemory, Gate, [Next]_vars
    PROVE  Gate'
<1> USE DEF BeforeListing, Filing, UnpackStages
<1>d. DOMAIN referrersDir = ReferrerDirs
  BY DEF Gate
<1>i. ASSUME pc' = "idle", mem' = FreshMemory, DOMAIN referrersDir' = ReferrerDirs
      PROVE  Gate'
  BY <1>i DEF Gate, FreshMemory
<1>1. CASE Start \/ StartRefused
  <2>1. /\ pc = "idle" /\ pc' \in {"idle", "oras"}
        /\ mem' = mem /\ referrersDir' = referrersDir
    BY <1>1 DEF Start, StartRefused
  <2>q. QED
    BY <2>1 DEF Gate
<1>2. CASE AfterPull
  <2>1. pc = "pulled" /\ cfg' = cfg /\ referrersDir' = referrersDir
    BY <1>2 DEF AfterPull
  <2>2. CASE pc' = "query" /\ mem' = mem
    BY <2>1, <2>2 DEF Gate
  <2>3. CASE ~VerifyRequested /\ pc' = "clear" /\ mem' = mem
    BY <2>1, <2>3 DEF Gate, VerifyRequested
  <2>q. QED
    BY <1>2, <1>d, <1>i, <2>1, <2>2, <2>3 DEF AfterPull, NeedsReferrers, Exits
<1>3. CASE WriteFailure
  BY <1>3, <1>d, <1>i DEF WriteFailure, Exits
<1>4. CASE Crash
  <2>1. DOMAIN referrersDir' = DOMAIN referrersDir
    <3>1. TornDownload => DOMAIN referrersDir' = DOMAIN referrersDir
      BY PutKeepsDirs DEF TornDownload
    <3>q. QED
      BY <1>4, <3>1 DEF Crash, TornReferrers, TornRecord, Filed
  <2>q. QED
    BY <1>4, <1>d, <1>i, <2>1 DEF Crash
<1>5. CASE TagMoves \/ UNCHANGED vars
  BY <1>5, QuietKeepsGate DEF TagMoves, vars
<1>q. QED
  BY <1>1, <1>2, <1>3, <1>4, <1>5, PullKeepsGate, ReferrersKeepGate, VerifyKeepsGate,
     UnpackKeepsGate DEF Next, Network, Local

\* A run asked to verify starts to unpack only after a bundle the registry
\* attached to the resolved digest satisfied the policy (main, Verify).
THEOREM UnpacksOnlySigned == Spec => []VerificationGatesUnpack
<1>1. Staged => DOMAIN mem = DOMAIN FreshMemory
  BY DEF Staged
<1>2. Gate => VerificationGatesUnpack
  BY DEF Gate, VerificationGatesUnpack
<1>3. Spec => []Staged
  BY StagingAccounted
<1>4. Staged /\ Gate /\ [Next]_vars => Gate'
  BY <1>1, GateStep
<1>q. QED
  BY <1>2, <1>3, <1>4, GateInit, PTL DEF Spec

-----------------------------------------------------------------------------
(* Flags *)

\* What Validate lets through is consulted, flag by flag.
LEMMA ValidConsulted ==
    ASSUME NEW v \in SUBSET VerifyFlags, Validate(v)
    PROVE  v \subseteq Consulted(v)
<1> USE DEF Validate, Consulted, TrustConsulted, PolicyConsulted, Requested,
            VerifyFlags, TrustFlags
<1>1. CASE "key" \in v
  BY <1>1
<1>2. CASE "key" \notin v /\ "identity" \in v
  BY <1>2
<1>3. CASE "key" \notin v /\ "identity" \notin v
  BY <1>3
<1>q. QED
  BY <1>1, <1>2, <1>3

\* The flags of a run are read once, by Start.
FlagsValid == pc # "idle" => cfg.verify \subseteq VerifyFlags /\ Validate(cfg.verify)

LEMMA FlagsKept ==
    ASSUME [Next]_vars
    PROVE  \/ Start
           \/ cfg' = cfg /\ (pc' # "idle" => pc # "idle")
           \/ pc' = "idle"
<1>1. CASE Around
  BY <1>1 DEF Around, Network, PullNetwork, PullLocal, OrasResolve, OrasBlob, CraneResolve,
     CraneLayout, MkdirTmpFails, OrasManifest, OrasDone, CleanTmp, CraneCharge, CraneManifest, PullFrame,
     ReferrersNetwork, ReferrersLocal, Query, RejectReferrer, SkipReferrer, OpenReferrer,
     FetchPayload, Downloading, PayloadLeft, FileReferrer, Downloaded, RecordLanded,
     WriteListing, ReferrersFrame, VerifyNetwork, VerifyLocal, VerifyBegin, VerifyBundle,
     BundlesExhausted, WriteVerified, VerifyFrame, AfterPull, WriteFailure, StartRefused
<1>2. CASE UnpackNext
  BY <1>2 DEF UnpackNext, UnpackClear, ExtractLayer, ExtractDone, RunUmoci, CopyAll, Discard,
     RemovePart, RemoveImage, Rename, UnpackFrame
<1>3. CASE Crash \/ TagMoves \/ UNCHANGED vars
  BY <1>3 DEF Crash, TagMoves, vars
<1>q. QED
  BY <1>1, <1>2, <1>3, NextCases

\* No combination of --verify-* flags that starts a run is half ignored
\* (Validate, trustedMaterial, policyOptions).
THEOREM NoFlagIgnored == Spec => []AcceptedFlagsUsed
<1>1. Init => FlagsValid
  BY DEF Init, FlagsValid
<1>2. FlagsValid /\ [Next]_vars => FlagsValid'
  <2>1. ASSUME Start PROVE FlagsValid'
    BY <2>1, RunAssumption DEF Start, FlagsValid
  <2>q. QED
    BY <2>1, FlagsKept DEF FlagsValid
<1>3. FlagsValid => AcceptedFlagsUsed
  BY ValidConsulted DEF FlagsValid, AcceptedFlagsUsed
<1>q. QED
  BY <1>1, <1>2, <1>3, PTL DEF Spec

=============================================================================
