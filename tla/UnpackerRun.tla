---------------------------- MODULE UnpackerRun -----------------------------
(***************************************************************************)
(* The command (cmd/unpacker/main.go): flags, pull, referrers, verify,     *)
(* unpack, and the record of what happened in result.json.  Runs follow    *)
(* each other in one output directory; the process may be killed between   *)
(* any two steps, and the tag may be repointed at any time.                *)
(***************************************************************************)
EXTENDS Pull, Referrers, Verify, Unpack

CONSTANTS
    MaxRuns,   \* how many times the command is started
    MaxMoves,  \* how many times the tag is repointed
    Crashes    \* TRUE when the process may be killed

ASSUME RunAssumption ==
    /\ MaxRuns \in Nat /\ MaxMoves \in Nat /\ Crashes \in BOOLEAN
    /\ Configs # {}
    /\ \A c \in Configs :
          /\ c.verify \subseteq VerifyFlags
          /\ c.pin \in Digest \cup {None}
          /\ c.platform = "malformed"
                \/ \A d \in Digest : c.platform \in DOMAIN Manifest[d].children
          /\ {c.lim.total, c.lim.file} \subseteq Int64

-----------------------------------------------------------------------------
(* cmd/unpacker/main.go *)

\* What exit holds while there is no exit status.
NotRun == -1
Running == -2
Killed == -3

NewRun == [seen EXCEPT !.run = @ + 1, !.before = image, !.fresh = (tmp = EmptyTmp),
                       !.torn = FALSE, !.started = FALSE, !.strayed = FALSE]

\* Contradictory flags and missing credentials end the run at once.
StartRefused ==
    /\ pc = "idle" /\ seen.run < MaxRuns
    /\ \E c \in Configs :
          /\ ~Validate(c.verify) \/ Resolve(c).source = "missing"
          /\ cfg' = c
    /\ exit' = ExitFailure
    /\ seen' = NewRun
    /\ UNCHANGED <<registry, pc, mem, download, referrersDir, resultFile, trees>>

Start ==
    /\ pc = "idle" /\ seen.run < MaxRuns
    /\ \E c \in Configs :
          /\ Validate(c.verify) /\ Resolve(c).source # "missing"
          /\ cfg' = c
    /\ pc' = "oras"
    /\ exit' = Running
    /\ seen' = [NewRun EXCEPT !.started = TRUE]
    /\ UNCHANGED <<registry, mem, download, referrersDir, resultFile, trees>>

\* Signatures are referrers, so verification implies fetching them.
NeedsReferrers == cfg.withReferrers \/ VerifyRequested

AfterPull ==
    /\ pc = "pulled"
    /\ \/ /\ NeedsReferrers
          /\ pc' = "query"
          /\ UNCHANGED <<mem, resultFile, exit, seen>>
       \/ /\ ~NeedsReferrers
          /\ resultFile' = Result("none")
          /\ pc' = IF VerifyRequested THEN "verify" ELSE "clear"
          /\ UNCHANGED <<mem, exit, seen>>
       \/ /\ ~NeedsReferrers
          /\ WriteResultFails
          /\ Exits(ExitFailure)
    /\ UNCHANGED <<registry, cfg, download, referrersDir, trees>>

\* Mutation: a failure is reported by the exit status alone.
FailureRecord_None == resultFile

\* fail: the record of the failure, with whatever the run knows by then.
FailureRecord == Result(mem.stage)

WriteFailure ==
    /\ pc = "fail"
    /\ \/ resultFile' = FailureRecord /\ UNCHANGED seen
       \/ WriteResultFails
    /\ Exits(ExitCode(mem.err))
    /\ UNCHANGED <<registry, cfg, download, referrersDir, trees>>

-----------------------------------------------------------------------------
(* The environment *)

\* A kill leaves the one file that was being written in any state.
TornDownload ==
    \/ /\ pc = "oras blobs" /\ mem.next <= Len(Layers)
       /\ Put(Layers[mem.next], PartBlob)
    \/ /\ pc = "crane layout"
       /\ tmp' = [tmp EXCEPT !.files[LayoutName] = LayoutBlob, !.layout = "broken"]
       /\ UNCHANGED <<manifestFile, referrersDir, resultFile, image, seen>>
    \/ /\ pc \in {"oras manifest", "crane manifest"}
       /\ manifestFile' = Garbage
       /\ UNCHANGED <<tmp, referrersDir, resultFile, image, seen>>

TornReferrers ==
    /\ \/ /\ Downloading /\ Fileable(Current) /\ Fetchable
          /\ referrersDir' = Filed(Current, ManifestName, Part)
       \/ PayloadLeft /\ referrersDir' = Filed(Current, FileName(NextPayload), Part)
    /\ UNCHANGED <<download, resultFile, image, seen>>

WritingResult ==
    \/ pc \in {"record", "list", "verified", "fail"}
    \/ pc = "pulled" /\ ~NeedsReferrers

TornRecord ==
    /\ WritingResult
    /\ resultFile' = TornResult
    /\ UNCHANGED <<download, referrersDir, image, seen>>

Crash ==
    /\ Crashes /\ pc # "idle"
    /\ pc' = "idle" /\ exit' = Killed /\ mem' = FreshMemory
    /\ \/ UNCHANGED <<download, referrersDir, resultFile, image, seen>>
       \/ TornDownload \/ TornReferrers \/ TornRecord
    /\ UNCHANGED <<registry, cfg, staging>>

TagMoves ==
    /\ seen.moves < MaxMoves
    /\ \E d \in Digest \ {registry.tag} : registry' = [registry EXCEPT !.tag = d]
    /\ seen' = [seen EXCEPT !.moves = @ + 1]
    /\ UNCHANGED <<pc, cfg, mem, download, referrersDir, resultFile, trees, exit>>

-----------------------------------------------------------------------------
\* The directories under referrers/, which are empty until something is filed.
ReferrerDirs == UNION {{ReferrerDir(e) : e \in ToSet(l)} : l \in Listings}

\* An output directory nothing was ever written to.
Init ==
    /\ \E r \in Registries, t \in Digest \cup {None} :
          registry = [tag |-> t, private |-> r.private, transport |-> r.transport]
    /\ pc = "idle"
    /\ cfg = CHOOSE c \in Configs : TRUE
    /\ mem = FreshMemory
    /\ tmp = EmptyTmp
    /\ manifestFile = <<>>
    /\ referrersDir = [d \in ReferrerDirs |-> <<>>]
    /\ resultFile = NoResult
    /\ staging = NoTree
    /\ image = NoTree
    /\ exit = NotRun
    /\ seen = [run |-> 0, moves |-> 0, before |-> NoTree, fresh |-> TRUE,
               torn |-> FALSE, started |-> FALSE, strayed |-> FALSE]

\* What waits for an answer from the network, and what does not.
Network == PullNetwork \/ ReferrersNetwork \/ VerifyNetwork
Local == \/ PullLocal \/ ReferrersLocal \/ VerifyLocal
         \/ UnpackNext \/ AfterPull \/ WriteFailure

Next == Start \/ StartRefused \/ Network \/ Local \/ Crash \/ TagMoves

\* main runs in one goroutine and does not block on anything local; requests
\* have no timeout, so nothing makes the registry answer.
Spec == Init /\ [][Next]_vars /\ WF_vars(Local)

-----------------------------------------------------------------------------
(* Properties *)

Ended == pc = "idle" /\ exit \in 0 .. 5

AfterPullStages ==
    {"pulled", "query", "download", "payload", "record", "list", "verify", "bundles",
     "verified", "clear", "populate", "discard", "remove", "rename"}

UnpackStages == {"clear", "populate", "discard", "remove", "rename"}

NetworkStages == {"oras", "oras blobs", "crane", "crane layout", "query", "download",
                  "payload", "verify"}

Stages == AfterPullStages \cup NetworkStages
          \cup {"idle", "oras manifest", "clean", "crane budget", "crane manifest", "fail"}

TreeType(t) ==
    \/ t = NoTree
    \/ t.kind = "tree" /\ t.by \in 1 .. MaxRuns /\ t.whole \in BOOLEAN

\* The types, and what holds of the process between runs.
TypeOK ==
    /\ registry.tag \in Digest \cup {None}
    /\ pc \in Stages
    /\ cfg \in Configs
    /\ mem.resolved \in Digest \cup {None}
    /\ mem.err \subseteq Atom \cup {ErrFallback}
    /\ tmp.files \in [Name -> Blob \cup {None}] /\ tmp.layout \in Layout
    /\ DOMAIN referrersDir = ReferrerDirs
    /\ mem.plan.route \in {"none", "extract", "umoci", "copy"}
    /\ TreeType(staging) /\ TreeType(image)
    /\ exit \in 0 .. 5 \cup {NotRun, Running, Killed}
    /\ pc = "idle" => mem = FreshMemory

\* The contents the output of digest d should have: the archives of every
\* layer --mediatype covers; else an image's root filesystem; else the files.
Expected(d) ==
    LET layers == Relabelled(Manifest[d].layers)
        chosen == {l \in ToSet(layers) : allowedMediaType(l.type, cfg.allowed)}
    IN  IF chosen # {} THEN {Unpacked(l.blob) : l \in chosen}
        ELSE IF Manifest[d].kind = "artifact" THEN {Copied(FileName(l), l.blob) : l \in ToSet(layers)}
        ELSE {RootFS(d)}

\* No two files that are written side by side have one name.
NamesDiffer(layers) == IsInjective([i \in DOMAIN layers |-> FileName(layers[i])])

\* Whether to extract is up to the first file by name (firstFileIsArchive): it
\* has to be an archive if --mediatype covers a layer.
ArchiveFirst(layers) ==
    \E l \in ToSet(layers) :
        l.blob \in Archive /\ \A k \in ToSet(layers) : FileName(l) <= FileName(k)

\* No title leads out of tmp/, and no file is called what blobPath would look
\* for first on behalf of a layer without a title.
StayInTmp(layers) ==
    /\ \A l \in ToSet(layers) : FilePath(l) \in Name
    /\ \A l, k \in ToSet(layers) : l.title = None => FilePath(k) # l.digest

\* What oras leaves tells Unpack what the manifest said: every layer is a file
\* of tmp/, no two share one, no media type would read differently after crane,
\* and the first file speaks for the layers.
FilesTell(layers) ==
    /\ StayInTmp(layers)
    /\ NamesDiffer(layers)
    /\ Relabelled(layers) = layers
    /\ (\E l \in ToSet(layers) : allowedMediaType(l.type, cfg.allowed)) => ArchiveFirst(layers)

\* Just before the rename, staging holds exactly the contents of the digest
\* this run resolved -- whichever client fetched it, whatever failed on the
\* way, and although the tag may have moved in between.  oras fetches into
\* tmp/ as earlier runs left it, so that has to be empty; crane cleans it.
PublishesWhatWasResolved ==
    LET layers == Manifest[mem.resolved].layers
    IN  /\ pc = "rename"
        /\ IF mem.orasErr = NoError THEN seen.fresh /\ FilesTell(layers)
           ELSE \A l \in ToSet(layers) : FileName(l) # LayoutName
        => staging.items = Expected(mem.resolved)

\* What the files in tmp/ and the layers in manifest.json make of a tree.
Populated ==
    CASE Route = "extract" -> {Unpacked(blobPath(manifestFile[i])) : i \in ToExtract}
      [] Route = "umoci"   -> {RootFS(tmp.layout)}
      [] Route = "copy"    -> {Copied(n, tmp.files[n]) : n \in Present(tmp)}

Publ == INSTANCE Publication WITH
    source <- Populated,
    ready <- IF pc \in {"remove", "rename"} THEN staging ELSE NoTree

\* A layer whose title leads into image/ is downloaded over the tree there.
Overlaid ==
    /\ pc = "oras blobs" /\ mem.next <= Len(Layers) /\ Astray(Layers[mem.next], "image")
    /\ image # NoTree
    /\ image' = [image EXCEPT !.items = image'.items, !.whole = image'.whole]

\* image/ is replaced as a whole by the tree that tmp/ and manifest.json make,
\* with nothing of what killed or failed runs left in staging, or it is left
\* alone: but for the download of a layer whose title leads into image/, every
\* step of the command is one of Publication.
ImplementsPublication ==
    Publ!Init /\ [][Publ!Next \/ Overlaid]_(Publ!vars)

\* A run that was asked to verify starts to unpack only when a referrer filed
\* under the resolved digest carries a signature over that digest, by the
\* signer the flags name, attested as the trusted root demands.
Good(b) ==
    /\ b.parses /\ b.over = mem.resolved
    /\ b.signer = (IF "key" \in cfg.verify THEN "key" ELSE "identity")
    /\ "key" \in cfg.verify \/ cfg.trust \subseteq b.attests

\* The blobs the registry has for a listing entry.
Carried(e) == {l.blob : l \in ToSet(Payload(e))}

\* Entries whose manifest names the digest and calls itself a bundle, or does
\* not say what it is.
AboutUs(e) == Subject(e) = mem.resolved
MayBeBundle(e) == AboutUs(e) /\ Attached[e.of].type \in {"bundle", None}

Signed == \E e \in ToSet(mem.listing) : MayBeBundle(e) /\ \E b \in Carried(e) : Good(b)

VerificationGatesUnpack == pc \in UnpackStages /\ VerifyRequested => Signed

\* Verification refuses only when no bundle on the resolved digest is good: a
\* bad bundle in front of a good one does not hide it, nor does a listing that
\* calls it something else, nor a file of an earlier run.  A second file of the
\* same name does.
RefusedOnlyUnsigned ==
    (pc = "fail" /\ ErrVerification \in mem.err) =>
        \A e \in ToSet(mem.listing) :
            /\ AboutUs(e) /\ Attached[e.of].type = "bundle"
            /\ NamesDiffer(Payload(e))
            /\ \A l \in ToSet(Payload(e)) : FileName(l) # ManifestName
            => \A b \in Carried(e) : ~Good(b)

\* The time result.json names for a verified signature is one that a good
\* bundle on the resolved digest really proves, or none at all.
TimestampObserved ==
    mem.verification.verdict = "verified" =>
        \E e \in ToSet(mem.listing) : \E b \in Carried(e) :
            /\ MayBeBundle(e) /\ Good(b)
            /\ mem.verification.time
                   \subseteq {"none", "none-bare-key", "none-rekor-v2"} \cup ProvenTimes(b)

\* Every --verify-* flag of a run that got past Validate decides something.
AcceptedFlagsUsed == pc # "idle" => cfg.verify \subseteq Consulted(cfg.verify)

\* After Pull, tmp/ and manifest.json agree with each other and with the
\* resolved digest.  After oras manifest.json is the manifest, unless a title
\* leads there, and every layer whose path is in tmp/ is there, where of two of
\* one name the second counts.  After the fallback nothing oras left, in tmp/
\* or in manifest.json, is among it, whatever the titles were.
PulledComplete ==
    pc \in AfterPullStages =>
        LET layers == Manifest[mem.resolved].layers
        IN  IF mem.orasErr = NoError
            THEN /\ \/ \E l \in ToSet(layers) : Astray(l, "manifest")
                    \/ manifestFile = layers
                 /\ \A i \in DOMAIN layers : FilePath(layers[i]) \in Name =>
                       \/ \E j \in i + 1 .. Len(layers) :
                             FilePath(layers[j]) = FilePath(layers[i])
                       \/ tmp.files[FilePath(layers[i])] = layers[i].blob
            ELSE /\ manifestFile = Relabelled(layers)
                 /\ tmp = [files |-> [NoFiles EXCEPT ![LayoutName] = LayoutBlob],
                           layout |-> mem.resolved]

NoneNegative(sizes) == \A i \in DOMAIN sizes : sizes[i] >= 0

\* The ways to add up the sizes, one after the other, that stay in the limit.
RunningTotals(sizes, limit) ==
    {sum \in [0 .. Len(sizes) -> 0 .. limit] :
        \A i \in 1 .. Len(sizes) : sum[i] = sum[i - 1] + sizes[i]}

\* What Pull accepted fits the download limits, whichever client fetched it: no
\* layer is over the file limit, and all of them are within the total if the
\* manifest declares no negative size.
DownloadWithinLimits ==
    pc \in AfterPullStages =>
        LET sizes == Sizes(Manifest[mem.resolved].layers)
        IN  /\ \A i \in DOMAIN sizes : sizes[i] <= withDefaults(cfg.lim).file
            /\ NoneNegative(ImageSizes(mem.resolved)) =>
                   RunningTotals(sizes, withDefaults(cfg.lim).total) # {}

ReferrerSizes(r) == <<Attached[r.of].size>> \o Sizes(Payload(r))

\* The referrers a run files fit the same limits, all of them together, if
\* nothing that was listed declares a negative size.
FiledWithinLimits ==
    LET filed == mem.referrers
        limit == withDefaults(cfg.lim)
    IN  (\A e \in ToSet(mem.listing) : NoneNegative(ReferrerSizes(e))) =>
        \E sum \in [0 .. Len(filed) -> 0 .. limit.total] :
            \A i \in DOMAIN filed :
                LET sizes == ReferrerSizes(filed[i])
                IN  /\ \A k \in DOMAIN sizes : sizes[k] <= limit.file
                    /\ \E t \in RunningTotals(sizes, limit.total) :
                          t[0] = sum[i - 1] /\ t[Len(sizes)] = sum[i]

\* Once the fallback runs, a limit that stopped the first client is what the
\* exit status will name, whatever reason of its own the fallback fails for
\* (Pull's joined error, ExitCode).
FirstFailureNamed ==
    [][ (pc \in {"crane", "crane budget", "crane layout", "crane manifest"} /\ pc' = "fail"
            /\ ErrLimit \in mem.orasErr)
        => (ExitCode(mem.err') = ExitLimit) ]_vars

\* When a run that got past its flags ends, and every write of result.json
\* worked, result.json is this run's, has an error exactly when the exit
\* status is not 0, and says "verified" exactly when a requested
\* verification let the run through.
RecordedOutcome ==
    Ended /\ seen.started /\ ~seen.torn =>
        /\ resultFile.kind = "result" /\ resultFile.run = seen.run
        /\ exit = ExitOK <=> resultFile.error = "none"
        /\ exit = ExitOK /\ VerifyRequested => resultFile.verification.verdict = "verified"
        /\ exit = ExitVerification =>
               /\ resultFile.error = "verify"
               /\ resultFile.verification.verdict = "refused"

\* What the file "name" of a referrer may hold when the download worked.
FileContents(r, name) ==
    (IF name = ManifestName THEN {ManifestContent} ELSE {})
    \cup {l.blob : l \in {k \in ToSet(Payload(r)) : FileName(k) = name}}

\* Every file of a referrer that result.json lists is whole on disk, and the
\* referrer is about the digest it is listed under, however the runs before
\* this one ended.
ListedIsFiled ==
    (Ended /\ ~seen.torn /\ resultFile.kind = "result" /\ resultFile.run = seen.run) =>
        \A r \in ToSet(resultFile.referrers) :
            /\ Attached[r.of].subject = resultFile.digest
            /\ \A n \in ToSet(r.files) :
                  /\ n \in DOMAIN referrersDir[<<r.type, r.of>>]
                  /\ referrersDir[<<r.type, r.of>>][n] \in FileContents(r, n)

\* A run the registry or the signature policy turned away leaves image/ as it
\* was when the run began, if no title led a download there.
RefusedKeepsImage ==
    Ended /\ exit \in {ExitNotFound, ExitAuth, ExitVerification} /\ ~seen.strayed =>
        image = seen.before

\* A run that damaged the tree it found -- took it away, or part of it, without
\* putting another in its place -- says so in result.json, if it was Unpack that
\* did it and not a download that went astray.
DamageIsRecorded ==
    (Ended /\ seen.started /\ ~seen.torn /\ ~seen.strayed
        /\ exit # ExitOK /\ image # seen.before) =>
        /\ resultFile.kind = "result" /\ resultFile.run = seen.run
        /\ resultFile.error = "unpack"

\* A login that the first complete pair of the environment holds and that the
\* registry takes is never turned away: half a pair before it spoils nothing.
GoodLoginNotRefused ==
    Ended /\ exit = ExitAuth /\ ~cfg.public /\ cfg.config = None =>
        ~\E i \in DOMAIN Pairs :
            /\ Held(cfg.env, Pairs[i]) = GoodLogin
            /\ \A j \in 1 .. i - 1 : None \in ToSet(Held(cfg.env, Pairs[j]))

\* A run ends if the registry goes on answering: nothing local holds it, and no
\* retry goes round for ever.  Requests have no deadline of their own.
EndsIfAnswered == WF_vars(Network) => []<>(pc = "idle")

-----------------------------------------------------------------------------
(* What the documentation says and the code does not do; each is refuted by *)
(* a run of its own.                                                        *)

\* README: the first client "downloads each layer blob to tmp/".  Only Unpack
\* touches image/.
OnlyUnpackTouchesImage == [][image' # image => pc \in UnpackStages]_vars

\* pull.go: "downloadBudget bounds the download phase the way Limits bounds
\* extraction": the bytes of a pull, of which no blob has less than none, are
\* within the total.
Bytes(size) == IF size < 0 THEN 0 ELSE size

BytesWithinTotal ==
    pc \in AfterPullStages =>
        LET layers == Manifest[mem.resolved].layers
        IN  RunningTotals([i \in DOMAIN layers |-> Bytes(layers[i].size)],
                          withDefaults(cfg.lim).total) # {}

\* All of a referrer is in its directory, every file of it whole.
Landed(d) ==
    LET r == [of |-> d[2]]
    IN  \A n \in {ManifestName} \cup {FileName(l) : l \in ToSet(Payload(r))} :
            /\ n \in DOMAIN referrersDir[d]
            /\ referrersDir[d][n] \in FileContents(r, n)

\* referrers.go: "Record what did land, then fail."
LandedIsRecorded ==
    (Ended /\ ~seen.torn /\ resultFile.kind = "result"
        /\ resultFile.error = "referrers") =>
    \A d \in ReferrerDirs : Landed(d) => \E r \in ToSet(resultFile.referrers) : r.of = d[2]

\* unpack_test.go: "A successful run must still replace whatever a previous run
\* left": the tree it publishes has nothing but what it resolved.
ReplacesWhatWasLeft ==
    Ended /\ exit = ExitOK => image.items \subseteq Expected(resultFile.digest)

\* unpack.go: "Every matching layer is extracted, not just the first."
EveryMatchingLayer ==
    pc = "rename" =>
        \A l \in ToSet(Manifest[mem.resolved].layers) :
            allowedMediaType(OCIType[l.type], cfg.allowed) =>
                Unpacked(l.blob) \in staging.items

=============================================================================
