----------------------------- MODULE Workspace ------------------------------
(***************************************************************************)
(* What the stages of a run share: the registry they talk to, the flags,   *)
(* the process's memory and the output directory, which outlives both the  *)
(* run and a crash.  Files hold blobs; a tree is the set of contents that  *)
(* were laid into it.                                                      *)
(***************************************************************************)
EXTENDS Limits, Exit, Credentials

CONSTANTS
    Digest,        \* manifests the registry can serve, by digest
    Manifest,      \* Manifest[d]: kind, config size, layers, children by platform
    Blob,          \* layer contents
    Archive,       \* the blobs whose first bytes are gzip, zstd or tar
    Name,          \* file names of tmp/, as naturals: os.ReadDir sorts by name
    Stray,         \* titles whose path leaves tmp/ when it is joined to it
    Leads,         \* Leads[t]: the place in or outside <out>/ that path leads to
    Base,          \* Base[t]: its last element
    ManifestIn,    \* ManifestIn[b]: the layers manifest.json lists when it holds b
    BundleIn,      \* BundleIn[b]: how a file of a referrer reads when it holds b
    LayoutName,    \* the name of index.json and oci-layout in that order
    Words,         \* Words[t]: the words a media type is made of
    OCIType,       \* OCIType[t]: the media type crane relabels t with
    Referrer,      \* artifacts attached to manifests, by digest
    Attached,      \* Attached[r]: type, subject, size and payload of r
    Listings,      \* what the registry may answer to a referrers query
    Configs,       \* flags and environments a run may be started with
    Registries,    \* [private, transport] of the registry
    GoodLogin      \* the login a private registry accepts

LayoutBlob == "index.json"  \* what index.json and oci-layout hold
PartBlob == "part"          \* what a download cut short leaves
EmptyBlob == "empty"        \* no bytes at all

\* A title that names a file of tmp/ is that name.
Titles == Name \cup Stray

\* The bare name of a file: the last element of its title, or its digest.
FileName(l) ==
    IF l.title = None THEN l.hex
    ELSE IF l.title \in Stray THEN Base[l.title] ELSE l.title

\* oras's VerifyReader reads nothing under a negative size.
Verifies(l, nothing) == l.size >= 0 \/ l.blob = nothing

Sizes(layers) == [i \in DOMAIN layers |-> layers[i].size]

ASSUME WorkspaceAssumption ==
    /\ Name \subseteq Nat /\ LayoutName \in Name
    /\ Stray \cap (Name \cup {None}) = {}
    /\ \A t \in Stray : Base[t] \in Name
    /\ Archive \subseteq Blob
    /\ {LayoutBlob, PartBlob, EmptyBlob} \subseteq Blob \ Archive
    /\ {None, "broken"} \cap (Digest \cup Blob) = {} /\ None # "bundle"
    /\ Complete(GoodLogin)
    /\ \A r \in Referrer :
          /\ Attached[r].size \in Int64
          /\ Attached[r].payload \in Seq(ToSet(Attached[r].payload))
          /\ \A l \in ToSet(Attached[r].payload) : l.size \in Int64
    /\ \A l \in Listings : l \in Seq(ToSet(l)) /\ \A e \in ToSet(l) : e.of \in Referrer
    /\ \A d \in Digest :
          /\ Manifest[d].kind \in {"artifact", "image", "docker", "index"}
          /\ Manifest[d].config \in Int64
          /\ Manifest[d].layers \in Seq(ToSet(Manifest[d].layers))
          /\ \A l \in ToSet(Manifest[d].layers) :
                /\ {"type", "title", "digest", "hex", "blob", "size"} \subseteq DOMAIN l
                /\ l.title \in Titles \cup {None}
                /\ {l.digest, l.hex} \subseteq Name \ {LayoutName}
                /\ l.blob \in Blob /\ l.size \in Int64
          /\ \A p \in DOMAIN Manifest[d].children : Manifest[d].children[p] \in Digest \cup {None}

VARIABLES
    registry,      \* tag: what the reference names now; private; transport
    pc,            \* the stage the run is in, "idle" between runs
    cfg,           \* unpacker.Config
    mem,           \* what the process keeps between stages
    tmp,           \* <out>/tmp: files by name, and an OCI layout's image
    manifestFile,  \* the layers <out>/manifest.json lists, none if it is missing
    referrersDir,  \* <out>/referrers: files by name, in each referrer's directory
    resultFile,    \* <out>/result.json
    staging,       \* <out>/.image.staging
    image,         \* <out>/image
    exit,          \* exit status of the last run, negative while there is none
    seen           \* ghost: facts about the current run, for the properties

vars == <<registry, pc, cfg, mem, tmp, manifestFile, referrersDir, resultFile,
          staging, image, exit, seen>>

download == <<tmp, manifestFile>>
trees == <<staging, image>>

-----------------------------------------------------------------------------
(* The output directory *)

NoFiles == [n \in Name |-> None]
EmptyTmp == [files |-> NoFiles, layout |-> None]

\* "broken": the blobs of a layout that names no complete image.
Layout == Digest \cup {None, "broken"}
HasBlobs(t) == t.layout # None

Present(t) == {n \in Name : t.files[n] # None}

\* os.ReadDir returns the files sorted by name.
FirstFile(t) == CHOOSE n \in Present(t) : \A m \in Present(t) : n <= m

\* A manifest.json that is not JSON: nothing that --mediatype covers.
Garbage == <<[type |-> None]>>

NoTree == [kind |-> "absent"]
Tree(items, by) == [kind |-> "tree", items |-> items, by |-> by, whole |-> TRUE]

Unpacked(b) == <<"unpacked", b>>   \* an archive's entries
Copied(n, b) == <<"copied", n, b>> \* a file copied as it is
RootFS(d) == <<"rootfs", d>>       \* what umoci makes of an image

\* What a file of a referrer holds: how it reads as a sigstore bundle.
ManifestName == "manifest.json"
NoBundle(is) == [is |-> is, parses |-> FALSE, signer |-> None, over |-> None, attests |-> {}]
ManifestContent == NoBundle("manifest")
Part == NoBundle("part")
EmptyFile == NoBundle("empty")

\* A directory with the file "name" holding "content".
WithFile(dir, name, content) ==
    [n \in DOMAIN dir \cup {name} |-> IF n = name THEN content ELSE dir[n]]

-----------------------------------------------------------------------------
(* Media types *)

\* A value of --mediatype is a whole media type or one word of it.
allowedMediaType(t, allowed) == t \in allowed \/ Words[t] \cap allowed # {}

-----------------------------------------------------------------------------
(* The registry, as two clients meet it *)

\* newOrasRepository knows a user name only.  crane reads a config file too;
\* given nothing it looks for itself in the user's home, also with --public.
Login(client) ==
    IF client = "oras" \/ Resolve(cfg).source = "basic" THEN Resolve(cfg).login
    ELSE IF Resolve(cfg).source = "config" THEN configFileKeychain(cfg.config)
    ELSE cfg.home

KeychainFails(client) ==
    client = "crane" /\ Resolve(cfg).source = "config" /\ ~cfg.config.readable

\* --insecure is plain HTTP for oras and unverified TLS for crane, which also
\* speaks HTTP to a local registry.
Speaks(client) ==
    IF client = "oras" THEN (IF cfg.insecure THEN {"http"} ELSE {"https"})
    ELSE IF cfg.insecure THEN {"https", "http", "selfsigned"}
    ELSE {"https", "http"}

Reaches(client) == registry.transport \in Speaks(client)
Admitted(client) == registry.private => Login(client) = GoodLogin
Answers(client) == Reaches(client) /\ Admitted(client) /\ ~KeychainFails(client)

\* Both clients refuse basic auth over an insecure transport.
CredentialsRefused ==
    Resolve(cfg).source = "basic" /\ cfg.insecure /\ ~cfg.allowInsecureCredentials

\* The errors a request can end in, besides the ones of what it asks for.  A
\* registry that lets anyone in may still turn a wrong login away.
RequestErrors(client) ==
    IF ~Reaches(client) \/ KeychainFails(client) THEN {{Unclassified}}
    ELSE IF ~Admitted(client) THEN {{<<client, "401">>}}
    ELSE {{Unclassified}, {<<client, "5xx">>}}
         \cup IF Login(client) \in {Anonymous, GoodLogin} THEN {} ELSE {{<<client, "401">>}}

-----------------------------------------------------------------------------
(* The process *)

\* cfg.verify is the set of --verify-* flags that were given.
Requested(flags) == flags \cap {"identity", "key"} # {}
VerifyRequested == Requested(cfg.verify)

FreshMemory ==
    [resolved |-> None, next |-> 1, budget |-> [maxFile |-> 0, remaining |-> 0],
     serving |-> None, orasErr |-> NoError, err |-> NoError, stage |-> "none",
     listing |-> <<>>, files |-> <<>>, referrers |-> <<>>, untried |-> {},
     verification |-> [verdict |-> "absent", time |-> {}],
     plan |-> [route |-> "none", layers |-> <<>>, left |-> {}]]

Fail(stage, err) ==
    /\ pc' = "fail"
    /\ mem' = [mem EXCEPT !.stage = stage, !.err = err]

\* Mutation: the result of one run is a package variable the next one finds.
Exits_Remembers(code) ==
    /\ pc' = "idle"
    /\ exit' = code
    /\ UNCHANGED mem

Exits(code) ==
    /\ pc' = "idle"
    /\ exit' = code
    /\ mem' = FreshMemory

\* What result.json would say now.
Result(stage) ==
    [kind |-> "result", run |-> seen.run, digest |-> mem.resolved,
     referrers |-> mem.referrers, verification |-> mem.verification,
     error |-> stage]

NoResult == [kind |-> "absent"]
TornResult == [kind |-> "torn"]

\* os.WriteFile truncates and then writes: a failure may leave half a file.
WriteResultFails ==
    /\ resultFile' \in {resultFile, TornResult}
    /\ seen' = [seen EXCEPT !.torn = TRUE]

=============================================================================
