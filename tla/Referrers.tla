----------------------------- MODULE Referrers ------------------------------
(***************************************************************************)
(* FetchReferrers (referrers.go): list what is attached to the resolved    *)
(* digest, download each artifact under referrers/, and write result.json. *)
(* The registry decides the listing; only what names the resolved digest   *)
(* as its subject is filed.                                                *)
(***************************************************************************)
EXTENDS Workspace

ReferrersFrame ==
    UNCHANGED <<registry, cfg, download, staging, image, exit>>

\* FetchReferrers returns an error: main still has its own, empty list.
FetchFails(err) ==
    /\ pc' = "fail"
    /\ mem' = [mem EXCEPT !.stage = "referrers", !.err = err, !.referrers = <<>>]

Query ==
    /\ pc = "query"
    /\ \/ CredentialsRefused /\ FetchFails({Unclassified})
       \/ \E err \in RequestErrors("oras") : FetchFails(err)
       \/ /\ ~CredentialsRefused /\ Answers("oras")
          /\ \E listing \in Listings :
                IF listing = <<>>
                THEN pc' = "list" /\ UNCHANGED mem
                ELSE IF Len(listing) > maxReferrers(cfg.maxReferrers)
                THEN FetchFails({ErrLimit})
                ELSE /\ pc' = "download"
                     /\ mem' = [mem EXCEPT !.listing = listing, !.next = 1,
                                           !.budget = newDownloadBudget(cfg.lim)]
    /\ ReferrersFrame /\ UNCHANGED <<referrersDir, resultFile, seen>>

-----------------------------------------------------------------------------
(* downloadReferrer *)

\* Mutation: the type in the listing comes first.
ArtifactType_Listed(e) ==
    IF e.type # None THEN e.type
    ELSE IF Attached[e.of].type # None THEN Attached[e.of].type ELSE Attached[e.of].config

\* The manifest's own artifact type, the listing's, the media type of the
\* config and of the manifest.
ArtifactType(e) ==
    IF Attached[e.of].type # None THEN Attached[e.of].type
    ELSE IF e.type # None THEN e.type
    ELSE IF Attached[e.of].config # None THEN Attached[e.of].config ELSE e.media

ReferrerDir(e) == <<ArtifactType(e), e.of>>

\* A body that does not parse at all has no subject either; an index or a
\* mistyped one has, and no layers to walk.
Subject(e) == IF Attached[e.of].body = "garbage" THEN None ELSE Attached[e.of].subject
Payload(e) == IF Attached[e.of].body = "layers" THEN Attached[e.of].payload ELSE <<>>

ReferrerFails(err) ==
    /\ pc' = "record"
    /\ mem' = [mem EXCEPT !.err = err]

Current == mem.listing[mem.next]
Downloading == pc = "download" /\ mem.next <= Len(mem.listing)

\* Mutation: any subject will do.
Fileable_Any(e) == Subject(e) # None
Fileable(e) == Subject(e) = mem.resolved

\* Nothing of the referrer reaches the disk.
RejectReferrer ==
    /\ Downloading
    /\ \/ ~Affordable(mem.budget, Attached[Current.of].size) /\ ReferrerFails({ErrLimit})
       \/ /\ Affordable(mem.budget, Attached[Current.of].size)
          /\ \E err \in RequestErrors("oras") \cup {{ErrNotFound}} : ReferrerFails(err)
       \/ /\ Affordable(mem.budget, Attached[Current.of].size)
          /\ Subject(Current) # None /\ ~Fileable(Current)
          /\ ReferrerFails({Unclassified})
    /\ ReferrersFrame /\ UNCHANGED <<referrersDir, resultFile, seen>>

\* content.FetchAll has nothing to give for a negative size.
Fetchable == Affordable(mem.budget, Attached[Current.of].size) /\ Attached[Current.of].size >= 0

SkipReferrer ==
    /\ Downloading /\ Fetchable
    /\ Subject(Current) = None
    /\ mem' = [mem EXCEPT !.next = @ + 1, !.budget = charge(@, Attached[Current.of].size)]
    /\ ReferrersFrame /\ UNCHANGED <<pc, referrersDir, resultFile, seen>>

\* referrersDir with the file "name" of e holding "content".
Filed(e, name, content) ==
    [referrersDir EXCEPT ![ReferrerDir(e)] = WithFile(@, name, content)]

\* The directory and the manifest; the payload comes one blob at a time.
OpenReferrer ==
    /\ Downloading /\ Fetchable
    /\ Fileable(Current)
    /\ \/ /\ referrersDir' = Filed(Current, ManifestName, ManifestContent)
          /\ mem' = [mem EXCEPT !.files = <<ManifestName>>,
                                !.budget = charge(@, Attached[Current.of].size)]
          /\ pc' = "payload"
       \/ /\ referrersDir' \in {referrersDir, Filed(Current, ManifestName, Part)}
          /\ ReferrerFails({Unclassified})
    /\ ReferrersFrame /\ UNCHANGED <<resultFile, seen>>

\* The blob fetched next: manifest.json was the first file.
NextPayload == Payload(Current)[Len(mem.files)]
PayloadLeft == pc = "payload" /\ Len(mem.files) <= Len(Payload(Current))

\* fetchBlobToFile again; what fails is removed, whatever it replaced.
FetchPayload ==
    /\ PayloadLeft
    /\ LET b == NextPayload
       IN  \/ /\ ~Affordable(mem.budget, b.size)
              /\ ReferrerFails({ErrLimit})
              /\ UNCHANGED referrersDir
           \/ /\ Affordable(mem.budget, b.size)
              /\ \E err \in RequestErrors("oras") \cup {{ErrNotFound}} : ReferrerFails(err)
              /\ UNCHANGED referrersDir
           \/ /\ Affordable(mem.budget, b.size)
              /\ ReferrerFails({Unclassified})
              /\ referrersDir' = [referrersDir EXCEPT ![ReferrerDir(Current)] =
                                     Restrict(@, DOMAIN @ \ {FileName(b)})]
           \/ /\ Affordable(mem.budget, b.size) /\ Verifies(b, EmptyFile)
              /\ referrersDir' = Filed(Current, FileName(b), b.blob)
              /\ mem' = [mem EXCEPT !.files = Append(@, FileName(b)),
                                    !.budget = charge(@, b.size)]
              /\ UNCHANGED pc
    /\ ReferrersFrame /\ UNCHANGED <<resultFile, seen>>

\* The entry of the list in result.json, as far as it has come.
Opened == [type |-> ArtifactType(Current), of |-> Current.of, files |-> mem.files]

FileReferrer ==
    /\ pc = "payload"
    /\ Len(mem.files) > Len(Payload(Current))
    /\ mem' = [mem EXCEPT !.next = @ + 1, !.files = <<>>, !.referrers = Append(@, Opened)]
    /\ pc' = "download"
    /\ ReferrersFrame /\ UNCHANGED <<referrersDir, resultFile, seen>>

Downloaded ==
    /\ pc = "download"
    /\ mem.next > Len(mem.listing)
    /\ pc' = "list"
    /\ ReferrersFrame /\ UNCHANGED <<mem, referrersDir, resultFile, seen>>

-----------------------------------------------------------------------------
(* result.json *)

\* "Record what did land, then fail."
RecordLanded ==
    /\ pc = "record"
    /\ \/ resultFile' = Result("none") /\ UNCHANGED seen
       \/ WriteResultFails
    /\ FetchFails(mem.err)
    /\ ReferrersFrame /\ UNCHANGED referrersDir

WriteListing ==
    /\ pc = "list"
    /\ \/ /\ resultFile' = Result("none")
          /\ pc' = IF VerifyRequested THEN "verify" ELSE "clear"
          /\ UNCHANGED <<mem, seen>>
       \/ WriteResultFails /\ FetchFails({Unclassified})
    /\ ReferrersFrame /\ UNCHANGED referrersDir

ReferrersNetwork ==
    Query \/ RejectReferrer \/ SkipReferrer \/ OpenReferrer \/ FetchPayload
ReferrersLocal == FileReferrer \/ Downloaded \/ RecordLanded \/ WriteListing
ReferrersNext == ReferrersNetwork \/ ReferrersLocal

=============================================================================
