------------------------------- MODULE Unpack -------------------------------
(***************************************************************************)
(* Unpack (unpack.go): decide from tmp/ and manifest.json how to populate  *)
(* a staging directory, populate it, and put it in the place of image/.    *)
(* What one archive does to the directory is the module Extraction; here a *)
(* layer lands whole or fails.                                             *)
(***************************************************************************)
EXTENDS Workspace

UnpackFrame ==
    UNCHANGED <<registry, cfg, download, referrersDir, resultFile, exit, seen>>

-----------------------------------------------------------------------------
(* What unpackInto decides *)

firstFileIsArchive ==
    Present(tmp) # {} /\ tmp.files[FirstFile(tmp)] \in Archive

\* Mutation: only the first allowed layer is extracted.
ToExtract_First ==
    LET all == {i \in DOMAIN manifestFile :
                   allowedMediaType(manifestFile[i].type, cfg.allowed)}
    IN  {i \in all : \A j \in all : i <= j}

\* The layers --mediatype covers, by their positions.
ToExtract ==
    {i \in DOMAIN manifestFile : allowedMediaType(manifestFile[i].type, cfg.allowed)}

Route == IF firstFileIsArchive \/ HasBlobs(tmp)
         THEN IF ToExtract # {} THEN "extract" ELSE "umoci"
         ELSE "copy"

PopulateFails(err) ==
    /\ pc' = "discard"
    /\ mem' = [mem EXCEPT !.err = err]

Decide ==
    IF manifestFile = Garbage THEN PopulateFails({Unclassified})
    ELSE /\ mem' = [mem EXCEPT !.plan =
                        [route |-> Route, layers |-> manifestFile, left |-> ToExtract]]
         /\ pc' = "populate"

\* Mutation: staging is not cleared first.
UnpackClear_Kept ==
    /\ pc = "clear"
    /\ Decide
    /\ UnpackFrame /\ UNCHANGED trees

UnpackClear ==
    /\ pc = "clear"
    /\ \/ staging' = NoTree /\ Decide
       \/ Fail("unpack", {Unclassified}) /\ UNCHANGED staging
    /\ UnpackFrame /\ UNCHANGED image

-----------------------------------------------------------------------------
(* Populating staging *)

\* The candidates in order: the last element of the title, the digest, its hex
\* part, the layout's blob.
blobPath(l) ==
    IF l.title # None /\ tmp.files[FileName(l)] # None THEN tmp.files[FileName(l)]
    ELSE IF tmp.files[l.digest] # None THEN tmp.files[l.digest]
    ELSE IF tmp.files[l.hex] # None THEN tmp.files[l.hex]
    ELSE IF tmp.layout \in Digest
            /\ \E k \in ToSet(Manifest[tmp.layout].layers) : k.blob = l.blob
         THEN l.blob
    ELSE None

Lay(items) ==
    staging' = Tree(items \cup (IF staging = NoTree THEN {} ELSE staging.items), seen.run)

\* Layers are extracted in manifest order.
ExtractLayer ==
    /\ pc = "populate" /\ mem.plan.route = "extract"
    /\ \E i \in mem.plan.left :
          LET b == blobPath(mem.plan.layers[i])
          IN  /\ \A j \in mem.plan.left : i <= j
              /\ \/ /\ b \in Archive
                    /\ Lay({Unpacked(b)})
                    /\ mem' = [mem EXCEPT !.plan.left = @ \ {i}]
                    /\ UNCHANGED pc
                 \/ /\ b \in Archive
                    /\ \E err \in {{ErrLimit}, {Unclassified}} : PopulateFails(err)
                    /\ \E items \in {{}, {Unpacked(b)}} : Lay(items)
                 \/ /\ b \notin Archive
                    /\ PopulateFails({Unclassified})
                    /\ Lay({})
    /\ UnpackFrame /\ UNCHANGED image

ExtractDone ==
    /\ pc = "populate" /\ mem.plan.route = "extract"
    /\ mem.plan.left = {}
    /\ pc' = "remove"
    /\ UnpackFrame /\ UNCHANGED <<mem, trees>>

\* umoci raw unpack: external; it needs a complete layout of an image in tmp/,
\* and an artifact's config describes no root filesystem.
Unpackable(d) == d \in Digest /\ Manifest[d].kind \in {"image", "docker"}

RunUmoci ==
    /\ pc = "populate" /\ mem.plan.route = "umoci"
    /\ \/ /\ Unpackable(tmp.layout) /\ staging = NoTree
          /\ Lay({RootFS(tmp.layout)})
          /\ pc' = "remove"
          /\ UNCHANGED mem
       \/ /\ PopulateFails({Unclassified})
          /\ UNCHANGED staging \/ Lay({})
    /\ UnpackFrame /\ UNCHANGED image

\* CopyFiles: every regular file of tmp/, whatever put it there.
CopyAll ==
    /\ pc = "populate" /\ mem.plan.route = "copy"
    /\ \/ /\ Lay({Copied(n, tmp.files[n]) : n \in Present(tmp)})
          /\ pc' = "remove"
          /\ UNCHANGED mem
       \/ /\ \E err \in {{ErrLimit}, {Unclassified}} : PopulateFails(err)
          /\ Lay({})
    /\ UnpackFrame /\ UNCHANGED image

-----------------------------------------------------------------------------
(* Publication *)

\* Mutation: a failed unpack is tried again.
Discard_Retries ==
    /\ pc = "discard"
    /\ pc' = "clear"
    /\ UnpackFrame /\ UNCHANGED <<mem, trees>>

\* After an error staging is removed, and a failure to do so is ignored.
Discard ==
    /\ pc = "discard"
    /\ Fail("unpack", mem.err)
    /\ staging' \in {NoTree, staging}
    /\ UnpackFrame /\ UNCHANGED image

\* os.RemoveAll works file by file.
RemovePart ==
    /\ pc = "remove"
    /\ image # NoTree /\ image.whole
    /\ image' = [image EXCEPT !.whole = FALSE]
    /\ UnpackFrame /\ UNCHANGED <<pc, mem, staging>>

RemoveImage ==
    /\ pc = "remove"
    /\ \/ image' = NoTree /\ pc' = "rename" /\ UNCHANGED mem
       \/ Fail("unpack", {Unclassified}) /\ UNCHANGED image
    /\ UnpackFrame /\ UNCHANGED staging

\* rename(2) wants a directory to move and nothing of weight in its place.
Rename ==
    /\ pc = "rename"
    /\ \/ /\ staging # NoTree /\ image = NoTree
          /\ image' = staging /\ staging' = NoTree
          /\ Exits(ExitOK)
       \/ Fail("unpack", {Unclassified}) /\ UNCHANGED <<trees, exit>>
    /\ UNCHANGED <<registry, cfg, download, referrersDir, resultFile, seen>>

UnpackNext ==
    \/ UnpackClear
    \/ ExtractLayer \/ ExtractDone \/ RunUmoci \/ CopyAll
    \/ Discard \/ RemovePart \/ RemoveImage \/ Rename

=============================================================================
