# Unpacker, in TLA+

`unpacker` pulls one OCI or Docker reference, fetches what is attached to it, checks its
signatures if asked to, and publishes its contents as `<out>/image/`. These modules model that
command: `cmd/unpacker/main.go` and the package `internal/unpacker`. TLC checks them on small
instances; for every instance TLAPS proves what extraction promises, that `Unpack` only ever
replaces `image/` as a whole, that a run asked to verify starts to unpack only after a good
signature over the resolved digest, when what `Pull` leaves belongs together and is within the
limits, and that `result.json`, `referrers/` and the exit status say what happened.

Two things the code does not check run through all of this, and each property and theorem they
touch says so: a layer's title may lead its download out of `tmp/` (section 4, `doc_blobs_in_tmp`),
and a declared size may be negative (`doc_download_total`). That a good signature comes first does
not mean that all that is unpacked is signed: what an earlier run left in `tmp/` may be published
with it (`doc_replaced`).

## 1. Inventory

The program is one goroutine. What makes it hard is not threads but everything around them: two
registry clients that fail separately, an output directory that outlives the run and its
crashes, a registry whose tags move, archives that say anything, and limits that are shared.

| Component | State | Operations | Hard behaviour | What makes it correct |
|---|---|---|---|---|
| Command (`main.go`) | the `Result` in memory, `result.json` | validate flags, resolve credentials, run the stages, `fail` | each stage fails on its own; killed between two steps; a second run in the same directory | `result.json` and the exit status tell the same story; verification comes before unpacking |
| Pull (`pull.go`) | `tmp/`, `manifest.json`, a download budget | oras, clean, crane | partial output of the first client; the tag moves between the two; joined errors; titles that lead out of `tmp/` | `tmp/`, `manifest.json` and the digest belong together; the budget holds for either client |
| Referrers (`referrers.go`) | `referrers/`, the list in the result, a budget of its own | query, manifest, each payload blob, file it | one of several fails, or one blob of one; a listing about another digest or with a type of its own; files of one name; directories of earlier runs | what is listed is whole on disk and about the resolved digest |
| Verify (`verify.go`) | the verification record: verdict and source of time | validate, build trust and policy, read and try each bundle | six flags with six rules; a bad bundle before a good one; files read back from a directory others wrote | nothing is unpacked unless a bundle over the resolved digest satisfies the policy; the time recorded was proved |
| Unpack (`unpack.go`) | `.image.staging`, `image/` | route, extract layers, umoci, copy, publish | stale `tmp/` and staging; RemoveAll and Rename are not one step | what is published is what was resolved, whole |
| Extraction (`unpack.go`) | the tree, byte and entry counters | `extractTar`, `extractLayers`, `CopyFiles` | one budget for several layers; int64 edges; overwritten paths; odd modes | limits hold to the byte, nothing is cut silently, the last entry wins |
| Limits | none | `withDefaults`, budgets | zero and negative flags, exhausted budgets | unset never means unlimited |
| Exit status (`exit.go`) | none | `ExitCode` | two clients' error types in one joined error | the status names the first cause that has one |
| Credentials (`auth.go`, `keychain.go`) | none | `Resolve`, a keychain for crane | two pairs of variables, half set; only crane reads a docker config | a whole pair is used, and a good login is not refused |

The components interact through the output directory and the values `RunE` passes on:
`Pull` returns a digest; `FetchReferrers` takes it as the subject and returns a `Result`;
`Verify` reads the bundles that `Result` lists from `referrers/`; `Unpack` reads only `tmp/` and
`manifest.json`, and so depends on what `Pull` left there in this run and the ones before. Through
a title `Pull` may also write what belongs to the others: `manifest.json`, `result.json`, `referrers/`
and `image/`.

The hazards this leads to are listed with their lines in `PROJECT.json`; each names the
properties below that would catch it.

## 2. Modules

    Limits ──────┬── Extraction ─┬─ Extraction_proofs
                 │               └─ MCExtraction
    Exit ────────┼── Workspace ─┬─ Pull ──────┐
    Credentials ─┘              ├─ Referrers ─┤
                                ├─ Verify ────┼─ UnpackerRun ─┬─ MCUnpackerRun
                                └─ Unpack ────┘       ·       ├─ Overlap ── MCOverlap
                                        Publication ··┘       └─ UnpackerRun_proofs
                                                                   ├─ Verification_proofs ────┐
                                                                   └─ Typing_proofs           │
                                                                       └─ Pull_proofs         │
                                                                           └─ Outcome_proofs ─┤
                                                              Filing_proofs ─ Referrers_proofs┘

Lines are `EXTENDS`; the dots are `INSTANCE Publication WITH`. `Overlap` extends `UnpackerRun` and
instances it a second time; `MCOverlap` takes the instances of `MCUnpackerRun`.

* **Limits** — the arithmetic: defaults, the download budget (`charge`), the one-byte-past cap
  with its int64 wrap-around. `MaxInt` stands for 2^63-1 and is small in the runs. `charge` takes
  a size as it was declared, a negative one too, and wraps.
* **Extraction** — one population of the staging directory. The environment brings any entry
  (`ReadEntry`), the program counts, skips, refuses or writes it (`SkipEntry`, `RejectEntry`,
  `MakeDir`, `WriteFile`), and moves on to the next layer with what is left of the budget
  (`EndOfLayer`). `route` says whether `extractTar` or `CopyFiles` runs: the copy and limit logic is the
  same, the entries and modes differ. Files are named by the entry that wrote them. `written`
  and `wanted` are history: bytes put on disk, and the tree an image would have had.
* **Exit** — an error is the set of what `errors.Is`/`errors.As` can find in it, so joining is
  union and wrapping changes nothing.
* **Credentials** — `Resolve`: `--public`, `--config`, then the two pairs of environment variables, of
  which half a pair counts for nothing; and crane's keychain over a docker config (an entry for
  the repository, then for the registry, then anonymous).
* **Workspace** — the variables the stages share: `pc` is the stage, `mem` what the process
  keeps, `tmp`, `manifestFile`, `referrersDir`, `resultFile`, `staging`, `image` the output
  directory, `registry` the outside. `mem` is reset when the process ends; the directory is not.
  `Login` says what each client brings to a registry and `RequestErrors` how a request may end.
  A title is a name of `tmp/` (`Name`) or leads elsewhere (`Stray`): `Leads` says to which of the
  places the program reads later, `Base` what its last element is. `FileName` is the bare name that
  `blobPath` and `safeFileName` make; the pull has no such step. `Garbage` is a `manifest.json` that
  is not JSON, which a failed or killed write leaves and `Decide` refuses.
* **Pull** — `OrasResolve`, `OrasManifest`, `OrasBlob`, `OrasDone`; then `CleanTmp` and
  `CraneResolve`, `CraneCharge`, `CraneLayout`, `CraneManifest`. Every request may fail with the
  errors the transport and credentials make possible. `FilePath` is what `pullWithOras` joins to
  `tmp/`, the title as it is; `Put` is what becomes of the file that path names, wherever it is:
  the blob, a part of it when the process is killed, nothing when the download fails.
* **Referrers** — `Query`; for each listed artifact `RejectReferrer` or `SkipReferrer`, or
  `OpenReferrer` (its directory and `manifest.json`), a `FetchPayload` for every blob and
  `FileReferrer`; `RecordLanded` and `WriteListing` for `result.json`. `referrersDir` maps a
  directory, named by type and digest, to its files by name, so that a later file may replace an
  earlier one. The registry writes the listing; the manifest it attached says what is true.
* **Verify** — the flag rules (`Validate`), what each later function reads of them
  (`Consulted`), and the loop over the bundle files, opened by their place in the list
  (`bundlePaths`, `IsNext`) and read from `referrersDir` as it is then (`BundleAt`).
  `observedTimestamp` is what is recorded as the source of time.
* **Unpack** — `UnpackClear` clears staging and decides (`mem.plan`: the route and the layers
  to extract); then layer by layer extraction, umoci or copying, and publication as the steps
  the code takes (`RemovePart`, `RemoveImage`, `Rename`). A layer lands whole or fails here; how
  it lands is the module Extraction.
* **UnpackerRun** — the command: the stages in `RunE`'s order, the failure path, `Crash`,
  `TagMoves`, further runs in the same directory, and the properties.
* **Publication** — what the output directory promises, with nothing of how: a tree becomes
  ready whole and with the contents of the source, the old one is withdrawn only then, and
  whatever happens before leaves it alone. `UnpackerRun` maps its `tmp/`, `manifest.json` and
  flags to `source` (`Populated`), staging to `ready` once it is complete, `image/` to `image`.
* **Overlap** — two commands started in one directory, sharing its variables.

External, modelled from their use: the registry, umoci (unpacks exactly a complete layout of an
image into a directory that does not exist yet), and sigstore-go's verdict on one bundle
(`Satisfies`: parsed, signer, digest, attestations).

## 3. What the runs check

All runs have deadlock checking off: extraction and the command both end.

| Run | Question | Bounds |
|---|---|---|
| `extraction_limits` | `DiskBound`, `PublishedWithinLimits`, `NothingTruncated`, `Terminates` | two paths, two layers, bodies of 0, 1, 2 and 5 bytes, six flag settings: total binds, file binds, both at the same byte, unset, negative, `MaxInt` |
| `extraction_overlay` | `TypeOK`, `LastEntryWins`, `TreeStaysUsable` | a directory, a file in it, a file beside it; modes 0644, 0444, 0000 and 04777; two layers of two entries |
| `run_fresh` | `TypeOK`, `PublishesWhatWasResolved`, `VerificationGatesUnpack`, `RefusedOnlyUnsigned`, `TimestampObserved`, `FiledWithinLimits`, `AcceptedFlagsUsed`, `EndsIfAnswered` | one run in an empty directory, the tag moves once, sixteen listings over fifteen attachments (mistyped, of another digest, broken bundle first, twin names, a bundle called manifest.json, negative sizes, with and without a proof of time), all 64 sets of `--verify-*` flags and more trust configurations |
| `run_pull` | `PulledComplete`, `DownloadWithinLimits`, `PublishesWhatWasResolved`, `GoodLoginNotRefused`, `FirstFailureNamed` | manifests over the file limit, over the total, with a negative size, with twin titles, titles that lead to `manifest.json`, away or to no directory, a title that is another layer's digest, of archives and plain files, Docker, index; every transport; ten sources of credentials (half pairs, repository and registry entries, an unreadable config, a login at home) |
| `run_again` | `ImplementsPublication`, `PublishesWhatWasResolved`, `VerificationGatesUnpack`, `RecordedOutcome`, `ListedIsFiled`, `RefusedKeepsImage`, `DamageIsRecorded` | two runs, a kill at any step, torn files, the tag moves once, three listings; manifests whose titles lead into `image/`, to `result.json` and to a file of a referrer |

Why these bounds are enough: two layers is the least in which a budget is handed over and a
later entry meets an earlier one in another archive; two entries per layer the least in which
both happen within one. One repointing of the tag separates the two clients' answers, and two
would only repeat that. Two runs let a directory be stale; a third finds nothing a second does
not, because a run reads only what the last one left. Two bundles and two referrers put a bad
one before and after a good one, and let one file take another's name.

Safety properties in words:

* `DiskBound` — one extraction puts at most `--max-total-bytes` and one byte on disk, over all
  layers, overwritten files included. `PublishedWithinLimits` — a tree about to be published is
  within both byte limits. `NothingTruncated` — cutting a body is always followed by an error.
* `LastEntryWins`, `TreeStaysUsable` — the tree holds what the last entry for each path brought;
  no mode in an archive can break the rest of the extraction.
* `PulledComplete` — after `Pull`, `tmp/`, `manifest.json` and the digest belong together,
  though the clients resolve separately and the first may have left half of another manifest.
  After crane that is so whatever the titles are. After oras `manifest.json` is the manifest unless
  a title leads there, and each layer whose path is in `tmp/` is in its file; of the layers that
  went elsewhere nothing is promised.
  `DownloadWithinLimits` — no accepted layer is over the file limit, and together they fit the
  total if the manifest declares no negative size, whichever client fetched.
* `PublishesWhatWasResolved` — just before the rename, staging has the contents of the resolved
  digest and nothing else. After crane that holds in every run, whatever the titles are; after
  oras it needs a `tmp/` that was empty when the run began (else finding `doc_replaced`), titles
  that stay in `tmp/` and are no layer's digest (`StayInTmp`), and files that tell `Unpack` what the
  manifest said (`FilesTell`; else finding `doc_every_layer`, or two layers of one title).
* `ImplementsPublication` — the refinement, which holds for later and for killed runs too:
  `image/` goes from one whole tree to none to the whole tree that `tmp/` and `manifest.json`
  make, never to anything a killed run left in staging. The one other step that touches `image/` is
  the download of a layer whose title leads into a tree that is there (`Overlaid`): files of that
  tree may change, which run it is from and that it is there may not.
* `VerificationGatesUnpack`, `RefusedOnlyUnsigned` — a verified run starts to unpack only under a
  good signature over the resolved digest, and refuses only when none of the bundles is one. Both
  speak of what the registry attached (`Signed`, `Carried`), not of what the run thinks it read,
  and hold also where a title led a layer over a file of a referrer: what is filed is fetched
  again before it is read.
* `TimestampObserved` — the source of time recorded for a verified signature is one that a good
  bundle proves, never the one that was merely planned from the trusted root.
* `FiledWithinLimits` — all manifests and blobs of the filed referrers together fit the limits,
  if nothing that was listed declares a negative size.
* `GoodLoginNotRefused` — the first whole pair of variables is used, whatever half pair is
  before it.
* `AcceptedFlagsUsed` — every `--verify-*` flag that `Validate` lets through is read later.
* `RecordedOutcome`, `ListedIsFiled`, `RefusedKeepsImage`, `DamageIsRecorded` — what
  `result.json`, `referrers/` and `image/` say after a run, relative to its exit status and to
  the runs before. The two about `image/` leave out runs in which a download went there
  (`seen.strayed`): those are what `doc_blobs_in_tmp` shows.
* `FirstFailureNamed` — a limit that stopped oras is named by the exit status although crane
  then fails for another reason.

### Fairness

`Extraction` has weak fairness of its whole next-state relation: two loops in one goroutine with
nothing to wait for. `Terminates` then needs `--max-entries`, since the environment never has
to end an archive. `UnpackerRun` has weak fairness of `Local` only, the steps that wait for no
answer: requests carry no deadline, so nothing makes the registry answer. `EndsIfAnswered`
states that dependence: if the steps that wait for the network are weakly fair too, the command
is always idle again in the end. Nothing local holds it and no retry goes round for ever.

## 4. What the code does not do

Each of these runs refutes one sentence of the documentation, a comment or a test; the sentence
and the line are in `PROJECT.json`.

| Run | What it shows |
|---|---|
| `extraction_maxint` | byte limits of 2^63-1 publish empty files: `allowed+1` overflows |
| `doc_overlap` | of two commands at once in one directory, one publishes a tree the other emptied half way, and exits 0 |
| `doc_landed_recorded` | the record of the referrers that landed, whole, is overwritten |
| `doc_every_layer` | a matching layer behind a plain file is copied, not extracted |
| `doc_replaced` | files an earlier run left in `tmp/` are published again |
| `doc_blobs_in_tmp` | a layer whose title leads into `image/` is downloaded over the published tree, before anything is verified or unpacked |
| `doc_download_total` | an empty layer of a negative size makes room for more than the total limit |

Seen while modelling, each with the behaviour in the modules but without a run of its own:

* a single layer whose title leads away leaves `tmp/` empty: an empty `image/` is published and the
  run exits 0; one whose title leads to `manifest.json` replaces the manifest that `Unpack` reads
  (`StayInTmp`, `PulledComplete`);
* a title that is the digest of a layer without one is what `blobPath` finds for that layer;
* a referrer manifest of a negative size is charged and then not fetched, which ends the run;
* a file written read-only and met again, in the same archive or a later layer, keeps its first mode,
  or stops the extraction of a process that is not root, although unpack.go:213-214 says that a
  later layer overwrites an earlier one "exactly as an image would" (`OpenError`, `Opened`);
* flags that `Validate` refuses end the run before the `fail` helper exists: the `result.json` of the
  run before stays, although README.md:379 says "`result.json` is written on **every** terminating
  path, failures included" (`StartRefused`; `RecordedOutcome` speaks of runs that got further);
* missing credentials are exit status 1, though README.md:375 says 3 (`StartRefused`);
* oras's 401 is not seen beside any HTTP status of crane's: `hasStatus` finds the first one;
* `--config` reaches crane only, so the referrers of a private image are asked for anonymously;
* under `--public` crane still finds the login in the user's home by itself (`Login`);
* two layers of one title are one file of `tmp/`, which is extracted twice; the first layer's
  contents are lost and the run exits 0 (hence `NamesDiffer` and the twins in `PulledComplete`);
* so with payload files: a good bundle whose title a later file shares is replaced by it, and
  one titled `manifest.json` is never read, so that verification refuses (`RefusedOnlyUnsigned`
  leaves exactly those out);
* for an index the resolved digest is the platform image's;
* a referrer whose manifest is not JSON is skipped, and `referrers: []` is written also when
  nobody asked for referrers;
* referrers are fetched before the unpack, so their failure leaves no new `image/`;
* a `RemoveAll` that fails half way leaves half of the old `image/` (`RemovePart`), which
  `DamageIsRecorded` shows is at least recorded;
* a run killed while unpacking leaves a `result.json` without an error.

## 5. What is proved

**Extraction** (`Extraction_proofs`), for all paths, sizes, modes, flags, numbers of layers and
byte limits, under `LimitsAssumption` and `ExtractionAssumption`:

* `AccountingHolds` — the inductive invariant. `DiskBound` alone is not inductive: a step needs
  to know how `written` relates to the counters. `Accounting` says that while nothing has
  failed, `written = lim.total - budget + total`, with `0 <= total <= budget <= lim.total`;
  after a failure only `written <= lim.total + 1` remains. `CopyBound` (a copy is at most one
  byte more than allowed) and `CopyInBudget` carry the step for `WriteFile`.
* `TypeCorrect`, `DiskBounded`, `WithinLimits` follow from it, the last with `FilesInLimit`.
* `TreeComplete` and `BodiesWhole` — `LastEntryWins` and `NothingTruncated`, under the extra
  assumption `RepresentableCap`: no pair of byte limits has both at `MaxInt`. The run
  `extraction_maxint` shows that the assumption is needed.
* `ModesHarmless` — `TreeStaysUsable`. Its invariant adds what the property leaves out: every
  directory in the tree can be entered and written by its owner, so that no later entry can
  find one in its way (`ProperModes`).

`IOBound < MaxInt` is an assumption about machines: one extraction cannot physically write 2^63
bytes, so `total+n` itself does not wrap.

**Publication** (`UnpackerRun_proofs`), for all registries, manifests, flags, numbers of runs and
kills:

* `StagingAccounted` — the invariant `Staged`: while a tree is populated, the plan is still what
  `tmp/` and `manifest.json` say and staging holds the layers that are no longer left; from
  then on it holds all of what they make. Between `UnpackClear` and `Rename` nothing writes
  `tmp/` or `manifest.json` (`UnpackKeepsSource`), which is what makes it inductive.
* `CommandPublishes` — `Spec => ImplementsPublication`, by step simulation: outside those
  stages `ready` is `NoTree` and `image/` is untouched but for `Overlaid` (`AroundIsQuiet`), and each
  of Unpack's steps is one of Publication's or a stutter. Nothing is assumed of titles: the theorem
  says what a download through one may do to the tree, and that nothing else does.

**Verification** (`Verification_proofs`), for all registries, listings, attachments and flags, under
`WorkspaceAssumption` (of it: a listing and a payload are sequences, and a listing names known
artifacts) and `RunAssumption` (of it: there are no other `--verify-*` flags):

* `UnpacksOnlySigned` — `Spec => []VerificationGatesUnpack`. The gate is not inductive: that
  `Verify` read a good bundle on disk says nothing of the registry. The invariant `Gate` ties
  them together: every referrer in the list is an entry of this run's listing, about the
  resolved digest, and each file it names holds one of the blobs the registry has under that
  name (`Vouched`), although earlier runs and kills leave files there. The step that needs an
  argument is `FiledKeeps`: filing one artifact harms no file of another, because a
  directory is named by the artifact.
* `NoFlagIgnored` — `AcceptedFlagsUsed`, from `ValidConsulted`, which is about `Validate` alone.

**The command's types** (`Typing_proofs`): `CommandTyped` — `TypeOK`. Its invariant `Typed` adds
what every later proof needs of each stage: which digest is being served, that `mem.next` is a
position, that the error at hand is of known atoms.

**Pull** (`Pull_proofs`), for all registries, transports, credentials, limits and repointed tags:

* `LimitIsNamed` — `FirstFailureNamed`, an action property. The invariant `Cause` says why the
  fallback runs: oras declined on purpose and for nothing else, or failed with something that
  no signature is part of; so the joined error has nothing that `ExitCode` ranks before a limit.
* `PullIsComplete` — `PulledComplete`, from `Fetched`: of the first `next - 1` layers those whose path
  is in `tmp/` are there, but where a later one took the name, and `manifest.json` is the manifest
  as long as none of them went there; `tmp/` is empty while crane resolves and holds the layout of
  what crane serves while it writes the manifest.
* `DownloadsAreLimited` — `DownloadWithinLimits`, from `Paid`: every size charged was within the file
  limit, and if none of them is negative what is off the budget is their sum, given as a function
  from positions to partial sums, since the prover knows no recursive sum (`RunningTotals`). Only
  then does taking them off not wrap (`Charged`). For crane, which charges the config first, the
  statement about the layers is cut out of the one about all of them.

**How a run ends** (`Outcome_proofs`), with kills, torn files and further runs:

* `RefusalsKeepImage`, `DamageRecorded` — from `Kept`: unless a download went into it
  (`seen.strayed`), the tree is the one the run found everywhere outside `remove` and `rename`, and
  a failure after that is `Unclassified` and of the stage `unpack`.
* `OutcomeRecorded` — `RecordedOutcome`, from `Recorded`, which follows the verdict from
  `Verify` through the write of the listing into `result.json`, and keeps `ErrVerification` out of
  every other stage's errors.
* `GoodLoginsPass` — `GoodLoginNotRefused`, from `Welcome`: with such an environment no error at
  hand is ever a 401 or 403 (`GoodPairResolved`, `GoodReasons`).
* `PublishesResolved` — `PublishesWhatWasResolved`, which puts the parts together: `Fetched` says
  what is in `tmp/`, `Traced` that nothing else is, which client left it and what it made of the
  media types, `UmociImage` that umoci got through only what is an image, and `Staged` that
  staging holds what these make. `CranePublishes` and `OrasPublishes` show that to be `Expected`, the
  second by `FirstIsArchive`: the file `Unpack` looks at is an archive if a layer is to be extracted.

**Referrers** (`Referrers_proofs`, `Filing_proofs`), for all listings, attachments and leftovers:

* `TimesAreProven` — `TimestampObserved`, which is inductive but for the listing being empty
  and the verdict absent before `Query` (`Stamped`).
* `ListingIsTrue` — `ListedIsFiled`, from `Gate` and `Listed`: what is listed stays whole while
  other artifacts are filed, and what result.json lists is what the process has.
* `RefusalsAreRight` — `RefusedOnlyUnsigned`, from `Walked`: every entry about the digest is
  filed when its turn has passed, with every file of its payload, and every bundle that is not
  untried was found not to satisfy the policy. `Gate` gives that what is on disk is what the
  registry attached; the differing names give that it is that very bundle.
* `FilingIsLimited` — `FiledWithinLimits`, from `Bounded`: as long as nothing listed declares a
  negative size, the referrers filed so far form a chain of partial sums, and the manifest and
  payloads of the one at hand continue it up to what the budget has paid.

All of these are under `LimitsAssumption`, `WorkspaceAssumption` and `RunAssumption`. The parts with
weight: declared sizes and limits are int64s, negative ones included; a title is any name of `tmp/`
or leads out of it; manifests and listings are sequences over known artifacts; a digest, whole or in
hex, is not the name of a layout file; the digests and blobs are none of the model's marks; and the
login a private registry takes is a whole pair. What a title or a negative size takes away from a
theorem stands in the property it proves, as a premise, and not in these assumptions.

Model-checked only:

* `Terminates` and `EndsIfAnswered`: liveness is out of this prover's reach.
* `Overlap`, of which only what is refuted is stated.

## 6. Not modelled

* sigstore-go, oras-go, go-containerregistry and umoci themselves, and the credential helpers a
  docker config may name.
* How the last element of a title becomes a safe file name under `referrers/` and a type a directory
  name: a name is a number in the order `os.ReadDir` sorts; that two of them may be one name is
  modelled.
* Titles that lead into a directory of `tmp/` itself, that have no last element, or that name a
  directory of the output. A download into `.image.staging` needs no model: it comes before
  `UnpackClear` in every run.
* What go-containerregistry makes of a layer of a negative size while it writes the layout.
* Decompression: a blob is an archive or not; a stream that breaks is `StreamFails`.
* `Extraction` as the populate step of `Unpack`: a layer lands whole or fails there, which is what
  `TreeComplete` and `BodiesWhole` allow. The two are composed in words only.
* Two overlapping commands beyond `.image.staging` and `image/`: `Overlap` leaves out behaviours
  in which one of them falls back and so removes `tmp/` under the other.
* A `manifest.json` that is whole but cannot be read back; log output; flag parsing.

## 7. Plan

1. Limits, Extraction and its proofs; the command from flags to publication; its runs. Done.
2. Publication and the proof that the command implements it; payload files, their names and the
   files of earlier runs; the source of time; credentials; two commands at once. Done.
3. Proofs about the command: verification, types, pull, outcome, referrers. Done.
4. `PublishesWhatWasResolved` for every run and registry, by composing the invariants. Done.
5. Next: what `doc_overlap` leaves of two commands in one directory that can be promised; the layer that
   `Unpack` lands as one step, mapped to `Extraction`.
