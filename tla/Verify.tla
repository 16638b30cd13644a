------------------------------- MODULE Verify -------------------------------
(***************************************************************************)
(* Verify (verify.go): which --verify-* flags go together, what they make  *)
(* unpacker trust, the loop over the sigstore bundles FetchReferrers left  *)
(* on disk, and what it records.  Whether one bundle satisfies a policy,   *)
(* and which times it proves, is sigstore-go's answer; here it is whether  *)
(* the bundle parses, who signed it, which digest it is about and what     *)
(* attests to it.                                                          *)
(***************************************************************************)
EXTENDS Workspace

TrustFlags == {"root", "mirror", "tufroot"}
VerifyFlags == {"identity", "issuer", "key"} \cup TrustFlags

\* Mutation: a trust flag with nothing to check is accepted.
Validate_TrustAlone(v) ==
    /\ ~({"identity", "key"} \subseteq v)
    /\ "identity" \in v <=> "issuer" \in v
    /\ "key" \in v => v \cap TrustFlags = {}
    /\ "tufroot" \in v => "mirror" \in v
    /\ ~({"root", "mirror"} \subseteq v)

\* The combinations of flags that are accepted.
Validate(v) ==
    /\ ~({"identity", "key"} \subseteq v)
    /\ "identity" \in v <=> "issuer" \in v
    /\ "key" \in v => v \cap TrustFlags = {}
    /\ "tufroot" \in v => "mirror" \in v
    /\ v \cap TrustFlags # {} => Requested(v)
    /\ ~({"root", "mirror"} \subseteq v)

\* The flags trustedMaterial reads, in its order of precedence.
TrustConsulted(v) ==
    IF "key" \in v THEN {"key"}
    ELSE IF "root" \in v THEN {"root"}
    ELSE IF "mirror" \in v THEN v \cap {"mirror", "tufroot"}
    ELSE {}

\* The flags policyOptions reads.
PolicyConsulted(v) == IF "key" \in v THEN {"key"} ELSE v \cap {"identity", "issuer"}

Consulted(v) ==
    IF Requested(v) THEN TrustConsulted(v) \cup PolicyConsulted(v) ELSE {}

KeyMode == "key" \in cfg.verify

\* observerOptions: what has to attest to a signature.  A bare key has no log
\* and no timestamp authority.
Observers == IF KeyMode THEN {} ELSE cfg.trust

\* A trusted root that attests to nothing is refused.
MaterialMeaningful == KeyMode \/ Observers # {}

\* Where the time of a signature is expected to come from.
PlannedTime ==
    IF KeyMode THEN "none-bare-key"
    ELSE IF "tsa" \in Observers THEN "tsa" ELSE "rekor"

-----------------------------------------------------------------------------
(* sigstore-go: external *)

Signer == IF KeyMode THEN "key" ELSE "identity"

\* Mutation: the policy is not bound to the digest Pull resolved.
Satisfies_AnyDigest(b) ==
    b.parses /\ b.signer = Signer /\ Observers \subseteq b.attests

Satisfies(b) ==
    /\ b.parses
    /\ b.signer = Signer
    /\ b.over = mem.resolved
    /\ Observers \subseteq b.attests

\* The times a bundle can prove: an authority's, or the log's if it promised
\* inclusion, which Rekor v2 does not.
ProvenTimes(b) ==
    (b.attests \cap {"tsa"}) \cup (IF "promise" \in b.attests THEN {"rekor"} ELSE {})

\* The sources of VerifiedTimestamps; WithSignedTimestamps insists on "tsa".
VerifiedTimes(b) ==
    {T \in SUBSET (ProvenTimes(b) \cup {"now"}) : PlannedTime = "tsa" => "tsa" \in T}

-----------------------------------------------------------------------------
(* Verify *)

\* Mutation: what was planned is recorded, whatever was observed.
observedTimestamp_Planned(T) == {PlannedTime}

\* The clock is no observer.
observedTimestamp(T) ==
    IF T \ {"now"} # {} THEN T \ {"now"}
    ELSE IF PlannedTime = "rekor" THEN {"none-rekor-v2"}
    ELSE IF T = {} THEN {"none"} ELSE {PlannedTime}

\* The files of the referrers of the bundle type but their manifests, as
\* positions in the list and in the referrer's files.
bundlePaths ==
    UNION {{<<i, j>> : j \in {k \in DOMAIN mem.referrers[i].files :
                                  mem.referrers[i].files[k] # ManifestName}} :
           i \in {k \in DOMAIN mem.referrers : mem.referrers[k].type = "bundle"}}

Before(p, q) == p[1] < q[1] \/ (p[1] = q[1] /\ p[2] < q[2])

\* The file the loop opens next.
IsNext(p) == \A q \in mem.untried \ {p} : Before(p, q)

\* os.ReadFile: the bundle as it is on disk now.
BundleAt(p) ==
    LET r == mem.referrers[p[1]] IN referrersDir[<<r.type, r.of>>][r.files[p[2]]]

VerifyFrame ==
    UNCHANGED <<registry, cfg, download, referrersDir, staging, image>>

VerifyFails(err, time) ==
    /\ pc' = "fail"
    /\ mem' = [mem EXCEPT !.stage = "verify", !.err = err,
                          !.verification = [verdict |-> "refused", time |-> time]]

\* newSignatureVerifier, which may fetch the trusted root, and bundlePaths.
VerifyBegin ==
    /\ pc = "verify"
    /\ \/ VerifyFails({Unclassified}, {})
       \/ /\ MaterialMeaningful
          /\ bundlePaths = {}
          /\ VerifyFails({ErrVerification}, {})
       \/ /\ MaterialMeaningful
          /\ bundlePaths # {}
          /\ pc' = "bundles"
          /\ mem' = [mem EXCEPT !.untried = bundlePaths]
    /\ VerifyFrame /\ UNCHANGED <<resultFile, exit, seen>>

\* Mutation: the first bundle that does not satisfy the policy ends the loop.
Untried_StopAtFirst(p) == {}
Untried(p) == mem.untried \ {p}

VerifyBundle ==
    /\ pc = "bundles"
    /\ \E p \in mem.untried :
          /\ IsNext(p)
          /\ \/ VerifyFails({Unclassified}, {})
             \/ /\ Satisfies(BundleAt(p))
                /\ \E T \in VerifiedTimes(BundleAt(p)) :
                      mem' = [mem EXCEPT !.verification =
                                  [verdict |-> "verified", time |-> observedTimestamp(T)]]
                /\ pc' = "verified"
             \/ /\ ~Satisfies(BundleAt(p))
                /\ mem' = [mem EXCEPT !.untried = Untried(p)]
                /\ UNCHANGED pc
    /\ VerifyFrame /\ UNCHANGED <<resultFile, exit, seen>>

BundlesExhausted ==
    /\ pc = "bundles"
    /\ mem.untried = {}
    /\ VerifyFails({ErrVerification}, {PlannedTime})
    /\ VerifyFrame /\ UNCHANGED <<resultFile, exit, seen>>

\* main's second WriteResult; its error is returned as it is.
WriteVerified ==
    /\ pc = "verified"
    /\ \/ /\ resultFile' = Result("none")
          /\ pc' = "clear"
          /\ UNCHANGED <<mem, exit, seen>>
       \/ WriteResultFails /\ Exits(ExitFailure)
    /\ VerifyFrame

VerifyNetwork == VerifyBegin
VerifyLocal == VerifyBundle \/ BundlesExhausted \/ WriteVerified
VerifyNext == VerifyNetwork \/ VerifyLocal

=============================================================================
