-------------------------------- MODULE Pull --------------------------------
(***************************************************************************)
(* Pull (pull.go): oras-go first, go-containerregistry ("crane") when the  *)
(* reference is an image or oras fails.  Both clients resolve the          *)
(* reference themselves, so the tag may move between them; both leave what *)
(* they fetched in tmp/ and the manifest in manifest.json.                 *)
(***************************************************************************)
EXTENDS Workspace

ErrFallback == <<"unpacker", "use crane">>  \* errUseCraneFallback

\* What the reference resolves to when a client asks.
Target == IF cfg.pin # None THEN cfg.pin ELSE registry.tag

\* Mutation: the test looks at Docker media types only.
craneFallbackReason_DockerOnly(d) == Manifest[d].kind = "docker"

\* The manifests that are container images, and so not for oras.
craneFallbackReason(d) == Manifest[d].kind \in {"docker", "index", "image"}

OrasFails(err) ==
    /\ pc' = "clean"
    /\ mem' = [mem EXCEPT !.orasErr = err]

\* Everything but tmp/ and manifest.json stays as it is.
PullFrame ==
    UNCHANGED <<registry, cfg, referrersDir, resultFile, staging, image, exit, seen>>

-----------------------------------------------------------------------------
(* pullWithOras *)

MkdirTmpFails ==
    /\ pc = "oras"
    /\ Fail("pull", {Unclassified})
    /\ PullFrame /\ UNCHANGED download

OrasResolve ==
    /\ pc = "oras"
    /\ \/ CredentialsRefused /\ OrasFails({Unclassified})
       \/ /\ ~CredentialsRefused
          /\ \E err \in RequestErrors("oras") : OrasFails(err)
       \/ /\ ~CredentialsRefused /\ Answers("oras")
          /\ Target = None
          /\ OrasFails({ErrNotFound})
       \/ /\ ~CredentialsRefused /\ Answers("oras")
          /\ Target # None /\ craneFallbackReason(Target)
          /\ OrasFails({ErrFallback})
       \/ /\ ~CredentialsRefused /\ Answers("oras")
          /\ Target # None /\ ~craneFallbackReason(Target)
          /\ mem' = [mem EXCEPT !.serving = Target]
          /\ pc' = "oras manifest"
    /\ PullFrame /\ UNCHANGED download

\* manifest.json is there before any blob is.
OrasManifest ==
    /\ pc = "oras manifest"
    /\ \/ /\ manifestFile' = Manifest[mem.serving].layers
          /\ mem' = [mem EXCEPT !.next = 1, !.budget = newDownloadBudget(cfg.lim)]
          /\ pc' = "oras blobs"
       \/ OrasFails({Unclassified}) /\ manifestFile' \in {manifestFile, Garbage}
    /\ PullFrame /\ UNCHANGED tmp

Layers == Manifest[mem.serving].layers

\* What pullWithOras joins to tmp/: the title as it is, or the digest.
FilePath(l) == IF l.title # None THEN l.title ELSE l.hex

Astray(l, place) == FilePath(l) \in Stray /\ Leads[FilePath(l)].to = place

\* The layer's path is made to hold "content": its blob, a part of it, or, with
\* os.Remove, nothing.  os.Create needs the directory to be there, so there is
\* no alternative for a path into one that is not.
Put(l, content) ==
    \/ /\ FilePath(l) \in Name
       /\ tmp' = [tmp EXCEPT !.files[FilePath(l)] = content]
       /\ UNCHANGED <<manifestFile, referrersDir, resultFile, image, seen>>
    \/ /\ Astray(l, "manifest")
       /\ manifestFile' = IF content = None THEN <<>> ELSE ManifestIn[content]
       /\ UNCHANGED <<tmp, referrersDir, resultFile, image, seen>>
    \/ /\ Astray(l, "image") /\ image # NoTree
       /\ LET put == IF content = None THEN {} ELSE {Copied(FilePath(l), content)}
          IN  \E whole \in {image.whole, FALSE} :  \* a file of the tree may go
                 image' = [image EXCEPT !.items = @ \cup put, !.whole = whole]
       /\ seen' = [seen EXCEPT !.strayed = TRUE]
       /\ UNCHANGED <<download, referrersDir, resultFile>>
    \/ /\ Astray(l, "result")
       /\ resultFile' = IF content = None THEN NoResult ELSE TornResult
       /\ UNCHANGED <<download, referrersDir, image, seen>>
    \/ /\ Astray(l, "referrers")
       /\ LET place == Leads[FilePath(l)]
              dir == referrersDir[place.dir]
          IN  /\ place.dir \in DOMAIN referrersDir /\ DOMAIN dir # {}
              /\ referrersDir' = [referrersDir EXCEPT ![place.dir] =
                     IF content = None THEN Restrict(dir, DOMAIN dir \ {place.file})
                     ELSE WithFile(dir, place.file, BundleIn[content])]
       /\ UNCHANGED <<download, resultFile, image, seen>>
    \/ /\ Astray(l, "elsewhere")
       /\ UNCHANGED <<download, referrersDir, resultFile, image, seen>>

\* fetchBlobToFile: reserve, fetch, verify, and keep only what verified.
OrasBlob ==
    /\ pc = "oras blobs"
    /\ mem.next <= Len(Layers)
    /\ LET l == Layers[mem.next]
       IN  \/ /\ ~Affordable(mem.budget, l.size)
              /\ OrasFails({ErrLimit})
              /\ PullFrame /\ UNCHANGED download
           \/ /\ Affordable(mem.budget, l.size)
              /\ \E err \in RequestErrors("oras") \cup {{ErrNotFound}} : OrasFails(err)
              /\ PullFrame /\ UNCHANGED download
           \/ /\ Affordable(mem.budget, l.size)
              /\ OrasFails({Unclassified})
              /\ Put(l, None)
           \/ /\ Affordable(mem.budget, l.size) /\ Verifies(l, EmptyBlob)
              /\ mem' = [mem EXCEPT !.next = @ + 1, !.budget = charge(@, l.size)]
              /\ Put(l, l.blob)
              /\ UNCHANGED pc
    /\ UNCHANGED <<registry, cfg, staging, exit>>

OrasDone ==
    /\ pc = "oras blobs"
    /\ mem.next > Len(Layers)
    /\ mem' = [mem EXCEPT !.resolved = mem.serving]
    /\ pc' = "pulled"
    /\ PullFrame /\ UNCHANGED download

-----------------------------------------------------------------------------
(* The fallback *)

\* Mutation: what oras left is not removed.
CleanedTmp_Kept == tmp
CleanedTmp == EmptyTmp

\* Mutation: the whole output directory is cleaned.
CleanTmp_Everything ==
    /\ pc = "clean"
    /\ tmp' = CleanedTmp /\ image' = NoTree
    /\ pc' = "crane"
    /\ UNCHANGED <<registry, cfg, mem, manifestFile, referrersDir, resultFile,
                   staging, exit, seen>>

\* os.RemoveAll may have removed some of it when it fails.
CleanTmp ==
    /\ pc = "clean"
    /\ \/ /\ tmp' = CleanedTmp
          /\ pc' = "crane"
          /\ UNCHANGED mem
       \/ /\ \E kept \in SUBSET Present(tmp) :
                tmp' \in [files : {[n \in Name |-> IF n \in kept THEN tmp.files[n] ELSE None]},
                          layout : {tmp.layout, None} \cup (IF HasBlobs(tmp) THEN {"broken"} ELSE {})]
          /\ Fail("pull", {Unclassified})
    /\ PullFrame /\ UNCHANGED manifestFile

\* Mutation: the first client's error is dropped.
PullError_CraneOnly(craneErr) == craneErr

\* oras's error is kept unless it declined on purpose.
PullError(craneErr) ==
    IF ErrFallback \in mem.orasErr THEN craneErr ELSE mem.orasErr \cup craneErr

PullFails(craneErr) == Fail("pull", PullError(craneErr))

\* crane follows an index to the image for the platform.
Served == IF Manifest[Target].kind = "index"
          THEN Manifest[Target].children[cfg.platform] ELSE Target

CraneResolve ==
    /\ pc = "crane"
    /\ \/ cfg.platform = "malformed" /\ PullFails({Unclassified})
       \/ CredentialsRefused /\ PullFails({Unclassified})
       \/ /\ ~CredentialsRefused
          /\ \E err \in RequestErrors("crane") : PullFails(err)
       \/ /\ ~CredentialsRefused /\ Answers("crane")
          /\ Target = None
          /\ PullFails({<<"crane", "404">>})
       \/ /\ ~CredentialsRefused /\ Answers("crane") /\ cfg.platform # "malformed"
          /\ Target # None
          /\ IF Served = None THEN PullFails({Unclassified})
             ELSE /\ mem' = [mem EXCEPT !.serving = Served, !.next = 1,
                                       !.budget = newDownloadBudget(cfg.lim)]
                  /\ pc' = "crane budget"
    /\ PullFrame /\ UNCHANGED download

ImageSizes(d) == <<Manifest[d].config>> \o Sizes(Manifest[d].layers)

\* The config and every layer are charged before any of them moves.
CraneCharge ==
    /\ pc = "crane budget"
    /\ LET sizes == ImageSizes(mem.serving)
       IN  \/ /\ mem.next <= Len(sizes) /\ Affordable(mem.budget, sizes[mem.next])
              /\ mem' = [mem EXCEPT !.next = @ + 1, !.budget = charge(@, sizes[mem.next])]
              /\ UNCHANGED pc
           \/ /\ mem.next <= Len(sizes) /\ ~Affordable(mem.budget, sizes[mem.next])
              /\ PullFails({ErrLimit})
           \/ /\ mem.next > Len(sizes)
              /\ pc' = "crane layout"
              /\ UNCHANGED mem
    /\ PullFrame /\ UNCHANGED download

\* layout.Write and AppendImage, which is what downloads the blobs.
CraneLayout ==
    /\ pc = "crane layout"
    /\ \/ /\ tmp' = [tmp EXCEPT !.files[LayoutName] = LayoutBlob,
                                !.layout = mem.serving]
          /\ pc' = "crane manifest"
          /\ UNCHANGED mem
       \/ /\ \E l \in {None, "broken"} :
                tmp' = [tmp EXCEPT !.files[LayoutName] = LayoutBlob, !.layout = l]
          /\ \E err \in RequestErrors("crane") \cup {{<<"crane", "404">>}} : PullFails(err)
    /\ PullFrame /\ UNCHANGED manifestFile

\* ociImage: the manifest is written with OCI media types, whatever it had.
Relabelled(ls) == [i \in DOMAIN ls |-> [ls[i] EXCEPT !.type = OCIType[@]]]

CraneManifest ==
    /\ pc = "crane manifest"
    /\ \/ /\ manifestFile' = Relabelled(Layers)
          /\ mem' = [mem EXCEPT !.resolved = mem.serving]
          /\ pc' = "pulled"
       \/ PullFails({Unclassified}) /\ manifestFile' \in {manifestFile, Garbage}
    /\ PullFrame /\ UNCHANGED tmp

PullNetwork == OrasResolve \/ OrasBlob \/ CraneResolve \/ CraneLayout
PullLocal ==
    \/ MkdirTmpFails \/ OrasManifest \/ OrasDone
    \/ CleanTmp \/ CraneCharge \/ CraneManifest
PullNext == PullNetwork \/ PullLocal

=============================================================================
