--------------------------- MODULE MCUnpackerRun ----------------------------
(***************************************************************************)
(* Small registries, flags and referrers for UnpackerRun.  File names are  *)
(* numbered in the order os.ReadDir returns them: digests in hex first,    *)
(* then README, the chart's title, index.json, the notes and sha256:...    *)
(***************************************************************************)
EXTENDS UnpackerRun

CONSTANTS ToImage, ToManifest, ToResult, ToReferrers, Elsewhere, Nowhere

README == 5
CHART == 6
INDEX == 7
NOTES == 8
Names == 1 .. 12

Tars == {"tarA", "tarB"}
Blobs == Tars \cup {"text", "empty", "index.json", "part"}
Hex(b) == CASE b = "tarA" -> 1 [] b = "tarB" -> 2 [] b = "text" -> 3 [] b = "empty" -> 4

Types == {"helm", "text", "oci layer", "docker layer"}
MCWords == [t \in Types \cup {None} |->
    CASE t = None -> {} [] t = "helm" -> {"helm-word"} [] t = "text" -> {"plain"}
      [] t = "oci layer" -> {"oci", "tar"} [] t = "docker layer" -> {"docker", "tar"}]
MCOCIType == [t \in Types |-> IF t = "docker layer" THEN "oci layer" ELSE t]

Layer(type, blob, title) ==
    [type |-> type, blob |-> blob, title |-> title, digest |-> Hex(blob) + NOTES,
     hex |-> Hex(blob), size |-> 1]
Sized(l, size) == [l EXCEPT !.size = size]
Of(kind, layers) ==
    [kind |-> kind, config |-> 1, layers |-> layers,
     children |-> [p \in {"default", "arm64"} |-> None]]

AllManifests ==
    [chart |-> Of("artifact", <<Layer("helm", "tarA", None), Layer("helm", "tarB", CHART)>>),
     files |-> Of("artifact", <<Layer("text", "text", NOTES)>>),
     more  |-> Of("artifact", <<Layer("text", "text", README)>>),
     img   |-> Of("image", <<Layer("oci layer", "tarA", None)>>),
     docker |-> Of("docker", <<Layer("docker layer", "tarB", None)>>),
     huge  |-> Of("artifact", <<Layer("helm", "tarA", None), Sized(Layer("helm", "tarB", None), 3)>>),
     \* no layer over the file limit, all of them over the total
     heavy |-> Of("artifact", <<Sized(Layer("helm", "tarA", None), 2),
                                Sized(Layer("helm", "tarB", None), 2)>>),
     \* the same behind an empty layer of a negative size
     under |-> Of("artifact", <<Sized(Layer("helm", "empty", None), -1),
                                Sized(Layer("helm", "tarA", None), 2),
                                Sized(Layer("helm", "tarB", CHART), 2)>>),
     \* the first file is where blobPath looks for the second
     digest |-> Of("artifact", <<Layer("helm", "tarA", Hex("tarB") + NOTES),
                                 Layer("helm", "tarB", None)>>),
     \* titles that lead out of tmp/
     over  |-> Of("artifact", <<Layer("text", "text", ToImage)>>),
     away  |-> Of("artifact", <<Layer("text", "text", Elsewhere), Layer("text", "text", Nowhere)>>),
     lists |-> Of("artifact", <<Layer("helm", "tarA", CHART), Layer("text", "text", ToManifest)>>),
     plants |-> Of("artifact", <<Layer("text", "text", ToReferrers),
                                 Layer("text", "text", ToResult)>>),
     \* the second layer takes the title, and the file, of the first
     twins |-> Of("artifact", <<Layer("helm", "tarA", CHART), Layer("helm", "tarB", CHART)>>),
     \* a chart whose first file by name is not an archive
     mixed |-> Of("artifact", <<Layer("text", "text", README), Layer("helm", "tarA", CHART)>>),
     index |-> [Of("index", <<>>) EXCEPT
                   !.children = [p \in {"default", "arm64"} |->
                                    IF p = "default" THEN "img" ELSE None]]]
MCManifest == [d \in Digest |-> AllManifests[d]]

MCBase == [t \in Stray |-> IF t = ToManifest THEN INDEX ELSE CHART]
MCLeads == [t \in Stray |->
    CASE t = ToImage -> [to |-> "image"] [] t = ToManifest -> [to |-> "manifest"]
      [] t = ToResult -> [to |-> "result"] [] t = Elsewhere -> [to |-> "elsewhere"]
      [] t = Nowhere -> [to |-> "nowhere"]
      [] t = ToReferrers -> [to |-> "referrers", dir |-> <<"bundle", "good">>, file |-> "hex"]]
\* The text happens to be a list of layers, and a bundle anyone may have made.
MCManifestIn == [b \in Blobs |->
    IF b = "text" THEN <<Layer("helm", "tarB", None)>> ELSE Garbage]

-----------------------------------------------------------------------------
Bundle(title, signer, over, attests) ==
    [title |-> title, hex |-> "hex", size |-> 1,
     blob |-> [is |-> "payload", parses |-> TRUE, signer |-> signer, over |-> over,
               attests |-> attests]]
Broken == [title |-> "broken", hex |-> "hex2", size |-> 1, blob |-> NoBundle("broken")]
Artifact(type, subject, payload) ==
    [type |-> type, config |-> "empty", subject |-> subject, body |-> "layers", size |-> 1,
     payload |-> payload]
Keyed(title) == Bundle(title, "key", "chart", {})
MCBundleIn == [b \in Blobs |->
    IF b = "text" THEN Bundle(None, "stranger", "chart", {}).blob ELSE NoBundle(b)]

AllAttached ==
    [good |-> Artifact("bundle", "chart", <<Keyed(None)>>),
     \* one broken bundle, then a good one
     late |-> Artifact("bundle", "chart", <<Broken, Keyed(None)>>),
     \* the second file has the name of the first
     twins |-> Artifact("bundle", "chart", <<Keyed("broken"), Broken>>),
     \* a file with the name of the manifest
     shadow |-> Artifact("bundle", "chart", <<Keyed(ManifestName)>>),
     \* a true signature over another digest
     other |-> Artifact("bundle", "chart", <<Bundle(None, "key", "files", {"rekor"})>>),
     \* keyless: in a log with no promise, in one with, and timestamped
     logged |-> Artifact("bundle", "chart", <<Bundle(None, "identity", "chart", {"rekor"})>>),
     promised |-> Artifact("bundle", "chart",
                           <<Bundle(None, "identity", "chart", {"rekor", "promise", "tsa"})>>),
     stranger |-> Artifact("bundle", "chart", <<Bundle(None, "stranger", "chart", {})>>),
     \* the type is left to the listing
     untyped |-> Artifact(None, "chart", <<Keyed(None)>>),
     \* an index has neither type nor config
     sbom |-> [Artifact(None, "chart", <<>>) EXCEPT !.body = "index", !.config = None],
     \* an empty payload of a negative size, and a manifest of one
     hollow |-> Artifact("bundle", "chart",
                         <<[Broken EXCEPT !.size = -1, !.blob = EmptyFile], Keyed(None), Keyed("b")>>),
     less |-> [Artifact("bundle", "chart", <<Keyed(None)>>) EXCEPT !.size = -1],
     elsewhere |-> Artifact("sbom", "files", <<>>),
     orphan |-> Artifact("sbom", None, <<Broken>>),
     garbage |-> [Artifact("sbom", "chart", <<>>) EXCEPT !.body = "garbage"]]
MCAttached == [r \in Referrer |-> AllAttached[r]]
AllReferrers == DOMAIN AllAttached

Entry(r) == [of |-> r, type |-> None, media |-> "index"]
As(r, type) == [Entry(r) EXCEPT !.type = type]

FewListings ==
    {<<>>, <<As("good", "sbom")>>, <<Entry("other")>>, <<Entry("elsewhere"), Entry("good")>>,
     <<Entry("orphan"), Entry("late")>>, <<Entry("stranger"), Entry("logged")>>,
     <<Entry("garbage"), Entry("good")>>, <<Entry("promised")>>, <<Entry("twins")>>,
     <<Entry("shadow")>>, <<As("untyped", "bundle")>>, <<Entry("untyped")>>,
     <<As("sbom", "bundle")>>, <<Entry("good"), Entry("good")>>,
     <<Entry("hollow"), Entry("good")>>, <<Entry("less"), Entry("good")>>}
SignedChart == {<<Entry("good")>>, <<Entry("other")>>, <<Entry("twins")>>}
NoListings == {<<>>}
TwoReferrers == {<<Entry("sbom"), Entry("good")>>}

-----------------------------------------------------------------------------
\* Logins: the robot's, which the registry takes, and the desktop user's.
Robot == <<"robot", "robot">>
Desktop == <<"desktop", "desktop">>
NoEnv == [v \in UNION {ToSet(Pairs[i]) : i \in DOMAIN Pairs} |-> None]
Env(first, second) ==
    [NoEnv EXCEPT ![Pairs[1][1]] = first[1], ![Pairs[1][2]] = first[2],
                  ![Pairs[2][1]] = second[1], ![Pairs[2][2]] = second[2]]
ConfigFile(repository, of) ==
    [readable |-> TRUE, repository |-> repository, registry |-> of]

Plain ==
    [public |-> TRUE, config |-> None, env |-> NoEnv, home |-> Anonymous,
     insecure |-> FALSE, allowInsecureCredentials |-> FALSE,
     verify |-> {}, trust |-> {"rekor"}, withReferrers |-> FALSE, maxReferrers |-> 2,
     platform |-> "default", pin |-> None, allowed |-> {"helm-word"},
     lim |-> [total |-> 3, file |-> 2, entries |-> 3]]

\* A user who is logged in somewhere.
AtHome(login) == [Plain EXCEPT !.home = login]

\* Room for two referrers with a bundle each, or one with two.
Verifying(flags) == [Plain EXCEPT !.verify = flags, !.lim.total = 4]
ByKey == Verifying({"key"})
ByIdentity == Verifying({"identity", "issuer"})
WithReferrers == [Plain EXCEPT !.withReferrers = TRUE]

MainConfigs ==
    {Plain, ByKey, ByIdentity, WithReferrers,
     [ByIdentity EXCEPT !.trust = {"rekor", "tsa"}], [ByIdentity EXCEPT !.trust = {}],
     [Plain EXCEPT !.public = FALSE]}
    \cup {[Plain EXCEPT !.verify = v] : v \in SUBSET VerifyFlags}
AgainConfigs == {Plain, ByKey, [Plain EXCEPT !.verify = {"root"}]}
\* Where a login may come from; Windows sets USERNAME in every session.
Logins ==
    {[public |-> TRUE, config |-> ConfigFile(Robot, Anonymous), env |-> Env(Robot, Robot)],
     [public |-> FALSE, config |-> None, env |-> Env(Robot, Desktop)],
     [public |-> FALSE, config |-> None, env |-> Env(<<"robot", None>>, Robot)],
     [public |-> FALSE, config |-> None, env |-> Env(<<"desktop", None>>, Robot)],
     [public |-> FALSE, config |-> None, env |-> Env(Desktop, Robot)],
     [public |-> FALSE, config |-> None, env |-> Env(<<None, "robot">>, <<"desktop", None>>)],
     [public |-> FALSE, config |-> ConfigFile(Robot, Desktop), env |-> Env(Desktop, Desktop)],
     [public |-> FALSE, config |-> ConfigFile(Anonymous, Robot), env |-> NoEnv],
     [public |-> FALSE, config |-> ConfigFile(Anonymous, Anonymous), env |-> Env(Robot, Robot)],
     [public |-> FALSE, config |-> [ConfigFile(Robot, Robot) EXCEPT !.readable = FALSE],
      env |-> NoEnv]}
PullConfigs ==
    {Plain, AtHome(Desktop), AtHome(Robot),
     [Plain EXCEPT !.platform = "arm64"], [Plain EXCEPT !.platform = "malformed"],
     [Plain EXCEPT !.allowed = {"tar"}], [Plain EXCEPT !.allowed = {}],
     [Plain EXCEPT !.lim.total = 0], [Plain EXCEPT !.pin = "files"]}
    \cup {[Plain EXCEPT !.public = l.public, !.config = l.config, !.env = l.env,
                        !.insecure = i, !.allowInsecureCredentials = a] :
             l \in Logins, i \in BOOLEAN, a \in BOOLEAN}
PlainOnly == {Plain}
ReferrersOnly == {WithReferrers}

OpenRegistry == {[private |-> FALSE, transport |-> "https"]}
AllRegistries == [private : BOOLEAN, transport : {"https", "selfsigned", "http"}]
=============================================================================
