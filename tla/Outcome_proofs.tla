--------------------------- MODULE Outcome_proofs ---------------------------
(***************************************************************************)
(* How a run ends: what becomes of image/ and what is put in its place,    *)
(* what result.json says and which exit status the caller gets, for all    *)
(* registries, flags, write failures, crashes and runs before.             *)
(***************************************************************************)
EXTENDS Pull_proofs

\* result.json is of this run.
Ours == resultFile.kind = "result" /\ resultFile.run = seen.run

\* Errors a run can end in before or after its signatures are looked at.
Unsigned(err) == err # {} /\ ErrVerification \notin err

\* image/ is as it was when the run began, or a title led a download there.
Intact == seen.strayed \/ image = seen.before

Kept ==
    /\ pc \notin {"idle", "remove", "rename", "fail"} => Intact
    /\ pc = "fail" => Intact \/ (mem.err = {Unclassified} /\ mem.stage = "unpack")
    /\ pc = "idle" => RefusedKeepsImage /\ DamageIsRecorded

Recorded ==
    /\ pc \in {"record", "discard"} => Unsigned(mem.err)
    /\ pc = "fail" =>
          /\ mem.stage \in {"pull", "referrers", "verify", "unpack"} /\ mem.err # {}
          /\ ErrVerification \in mem.err =>
                mem.stage = "verify" /\ mem.verification.verdict = "refused"
    /\ pc = "verified" => mem.verification.verdict = "verified"
    /\ pc \in UnpackStages /\ ~seen.torn =>
          /\ Ours /\ resultFile.error = "none"
          /\ VerifyRequested => resultFile.verification.verdict = "verified"
    /\ pc = "idle" => RecordedOutcome

-----------------------------------------------------------------------------
(* What can go wrong *)

\* Whatever ends a stage but a signature, by itself.
Reasons == {{Unclassified}, {ErrNotFound}, {ErrLimit}, {<<"crane", "404">>}}
           \cup RequestErrors("oras") \cup RequestErrors("crane")

LEMMA ReasonsUnsigned == \A err \in Reasons : Unsigned(err)
<1>1. ASSUME NEW err \in Reasons PROVE err \in Causes
  BY <1>1, CausesAre DEF Reasons
<1>q. QED
  BY <1>1, ErrorsDiffer DEF Causes, Unsigned

\* A limit, a broken request, a wrong answer: the stages' own failures.
LEMMA SomeReasons ==
    /\ {Unclassified} \in Reasons /\ {ErrNotFound} \in Reasons /\ {ErrLimit} \in Reasons
    /\ {<<"crane", "404">>} \in Reasons
    /\ RequestErrors("oras") \subseteq Reasons /\ RequestErrors("crane") \subseteq Reasons
BY DEF Reasons

-----------------------------------------------------------------------------
(* Where a step of each part leads *)

MidRun == {"idle", "remove", "rename", "fail"}

OrasFailed == \E err \in Reasons \cup {{ErrFallback}} : mem'.orasErr = err

LEMMA PullOutcome ==
    ASSUME Typed, PullStep
    PROVE  /\ UNCHANGED <<cfg, exit>> /\ pc \notin MidRun
           /\ UNCHANGED <<image, seen>> \/ seen' = [seen EXCEPT !.strayed = TRUE]
           /\ \/ /\ pc' \in OrasStages \cup FallbackStages \cup {"pulled"}
                 /\ mem'.orasErr = mem.orasErr \/ OrasFailed
              \/ /\ pc' = "fail" /\ mem'.stage = "pull" /\ mem'.orasErr = mem.orasErr
                 /\ \E err \in Reasons : mem'.err \in {err, mem.orasErr \cup err}
<1>d. DOMAIN mem = DOMAIN FreshMemory
  BY DEF Typed, MemTyped
<1>u. UNCHANGED <<cfg, exit>> /\ pc \notin MidRun
  BY DEF PullStep, PullNetwork, PullLocal, OrasResolve, OrasBlob, CraneResolve, CraneLayout,
         MkdirTmpFails, OrasManifest, OrasDone, CleanTmp, CraneCharge, CraneManifest, PullFrame,
         MidRun
<1>i. UNCHANGED <<image, seen>> \/ seen' = [seen EXCEPT !.strayed = TRUE]
  <2>1. PullFrame \/ \E content : Put(Layers[mem.next], content)
    BY DEF PullStep, PullNetwork, PullLocal, OrasResolve, OrasBlob, CraneResolve, CraneLayout,
           MkdirTmpFails, OrasManifest, OrasDone, CleanTmp, CraneCharge, CraneManifest
  <2>q. QED
    BY <2>1 DEF PullFrame, Put
<1> DEFINE goes == /\ pc' \in OrasStages \cup FallbackStages \cup {"pulled"}
                   /\ mem'.orasErr = mem.orasErr \/ OrasFailed
           fails == /\ pc' = "fail" /\ mem'.stage = "pull" /\ mem'.orasErr = mem.orasErr
                    /\ \E err \in Reasons : mem'.err \in {err, mem.orasErr \cup err}
<1>g. ASSUME mem'.orasErr = mem.orasErr, pc' \in OrasStages \cup FallbackStages \cup {"pulled"}
      PROVE  goes
  BY <1>g
<1>o. ASSUME NEW err \in Reasons \cup {{ErrFallback}}, OrasFails(err) PROVE goes
  BY <1>d, <1>o DEF OrasFails, FreshMemory, FallbackStages, OrasFailed
<1>f. ASSUME NEW err \in Reasons, Fail("pull", err) \/ PullFails(err) PROVE fails
  <2>1. \E e \in {err, mem.orasErr \cup err} : Fail("pull", e)
    BY <1>f DEF PullFails, PullError
  <2>2. PICK e \in {err, mem.orasErr \cup err} : Fail("pull", e)
    BY <2>1
  <2>3. pc' = "fail" /\ mem'.stage = "pull" /\ mem'.err = e /\ mem'.orasErr = mem.orasErr
    BY <1>d, <2>2 DEF Fail, FreshMemory
  <2>q. QED
    BY <1>f, <2>2, <2>3
<1> HIDE DEF goes, fails
<1> USE SomeReasons
<1>1. ASSUME OrasResolve PROVE goes \/ fails
  BY <1>1, <1>d, <1>g, <1>o DEF OrasResolve, FreshMemory, OrasStages
<1>2. ASSUME OrasBlob PROVE goes \/ fails
  <2>1. \/ \E err \in Reasons : OrasFails(err)
        \/ /\ pc' = pc /\ pc = "oras blobs"
           /\ \E size : mem' = [mem EXCEPT !.next = @ + 1, !.budget = charge(@, size)]
    BY <1>2 DEF OrasBlob
  <2>q. QED
    BY <1>d, <1>g, <1>o, <2>1 DEF FreshMemory, OrasStages
<1>3. ASSUME CraneResolve PROVE goes \/ fails
  BY <1>3, <1>d, <1>g, <1>f DEF CraneResolve, FreshMemory, FallbackStages
<1>4. ASSUME CraneLayout PROVE goes \/ fails
  BY <1>4, <1>d, <1>g, <1>f DEF CraneLayout, FallbackStages
<1>5. ASSUME MkdirTmpFails PROVE goes \/ fails
  BY <1>5, <1>f DEF MkdirTmpFails
<1>6. ASSUME OrasManifest PROVE goes \/ fails
  BY <1>6, <1>d, <1>g, <1>o DEF OrasManifest, FreshMemory, OrasStages
<1>7. ASSUME OrasDone PROVE goes \/ fails
  BY <1>7, <1>d, <1>g DEF OrasDone, FreshMemory
<1>8. ASSUME CleanTmp PROVE goes \/ fails
  <2>1. Fail("pull", {Unclassified}) \/ (pc' = "crane" /\ mem' = mem)
    BY <1>8 DEF CleanTmp
  <2>q. QED
    BY <2>1, <1>g, <1>f DEF FallbackStages
<1>9. ASSUME CraneManifest PROVE goes \/ fails
  BY <1>9, <1>d, <1>g, <1>f DEF CraneManifest, FreshMemory
<1>10. ASSUME CraneCharge PROVE goes \/ fails
  BY <1>10, <1>d, <1>g, <1>f DEF CraneCharge, FreshMemory, FallbackStages
<1>11. goes \/ fails
  BY <1>1, <1>2, <1>3, <1>4, <1>5, <1>6, <1>7, <1>8, <1>9, <1>10
     DEF PullStep, PullNetwork, PullLocal
<1>q. QED
  BY <1>u, <1>i, <1>11 DEF goes, fails

\* result.json is written and no error is in it.
Writes == mem' = mem /\ seen' = seen /\ resultFile' = Result("none")

LEMMA ReferrersOutcome ==
    ASSUME Typed, ReferrersNetwork \/ ReferrersLocal
    PROVE  /\ UNCHANGED <<cfg, image, exit>> /\ pc \notin MidRun
           /\ seen' \in {seen, [seen EXCEPT !.torn = TRUE]}
           /\ \/ pc' \in {"download", "payload", "list"}
              \/ pc' = "record" /\ mem'.err \in Reasons
              \/ /\ pc' = "fail" /\ mem'.stage = "referrers"
                 /\ mem'.err \in Reasons \/ (pc = "record" /\ mem'.err = mem.err)
              \/ pc' = (IF VerifyRequested THEN "verify" ELSE "clear") /\ Writes
<1>d. DOMAIN mem = DOMAIN FreshMemory
  BY DEF Typed, MemTyped
<1>u. /\ UNCHANGED <<cfg, image, exit>> /\ pc \notin MidRun
      /\ seen' \in {seen, [seen EXCEPT !.torn = TRUE]}
  BY DEF ReferrersNetwork, ReferrersLocal, Query, RejectReferrer, SkipReferrer, OpenReferrer,
         FetchPayload, FileReferrer, Downloaded, RecordLanded, WriteListing, Downloading,
         PayloadLeft, ReferrersFrame, WriteResultFails, MidRun
<1> DEFINE led == \/ pc' \in {"download", "payload", "list"}
                  \/ pc' = "record" /\ mem'.err \in Reasons
                  \/ /\ pc' = "fail" /\ mem'.stage = "referrers"
                     /\ mem'.err \in Reasons \/ (pc = "record" /\ mem'.err = mem.err)
                  \/ pc' = (IF VerifyRequested THEN "verify" ELSE "clear") /\ Writes
<1>f. ASSUME NEW err \in Reasons, FetchFails(err) PROVE led
  BY <1>d, <1>f DEF FetchFails, FreshMemory
<1>r. ASSUME NEW err \in Reasons, ReferrerFails(err) PROVE led
  BY <1>d, <1>r DEF ReferrerFails, FreshMemory
<1>g. ASSUME pc' \in {"download", "payload", "list"} PROVE led
  BY <1>g
<1>w. ASSUME pc' = (IF VerifyRequested THEN "verify" ELSE "clear"), Writes PROVE led
  BY <1>w
<1>l. ASSUME pc = "record", FetchFails(mem.err) PROVE led
  BY <1>d, <1>l DEF FetchFails, FreshMemory
<1> HIDE DEF led
<1> USE SomeReasons
<1>1. ASSUME Query PROVE led
  BY <1>1, <1>f, <1>g DEF Query
<1>2. ASSUME RejectReferrer PROVE led
  BY <1>2, <1>r DEF RejectReferrer
<1>3. ASSUME SkipReferrer PROVE led
  BY <1>3, <1>g DEF SkipReferrer, Downloading
<1>4. ASSUME OpenReferrer PROVE led
  BY <1>4, <1>g, <1>r DEF OpenReferrer
<1>5. ASSUME FetchPayload PROVE led
  <2>1. (\E err \in Reasons : ReferrerFails(err)) \/ pc' = "payload"
    BY <1>5 DEF FetchPayload, PayloadLeft
  <2>q. QED
    BY <2>1, <1>g, <1>r
<1>6. ASSUME FileReferrer \/ Downloaded PROVE led
  BY <1>6, <1>g DEF FileReferrer, Downloaded
<1>7. ASSUME RecordLanded PROVE led
  BY <1>7, <1>l DEF RecordLanded
<1>8. ASSUME WriteListing PROVE led
  BY <1>8, <1>f, <1>w DEF WriteListing, Writes
<1>9. led
  BY <1>1, <1>2, <1>3, <1>4, <1>5, <1>6, <1>7, <1>8 DEF ReferrersNetwork, ReferrersLocal
<1>q. QED
  BY <1>u, <1>9 DEF led

LEMMA VerifyOutcome ==
    ASSUME Typed, VerifyNetwork \/ VerifyLocal
    PROVE  /\ UNCHANGED <<cfg, image>> /\ pc \notin MidRun
           /\ \/ pc' = "bundles" /\ seen' = seen /\ exit' = exit
              \/ /\ pc' = "verified" /\ mem'.verification.verdict = "verified"
                 /\ seen' = seen /\ exit' = exit
              \/ /\ pc' = "fail" /\ mem'.stage = "verify"
                 /\ mem'.err \in {{Unclassified}, {ErrVerification}}
                 /\ mem'.verification.verdict = "refused"
                 /\ seen' = seen /\ exit' = exit
              \/ pc = "verified" /\ pc' = "clear" /\ Writes /\ exit' = exit
              \/ /\ pc' = "idle" /\ exit' = ExitFailure
                 /\ seen' = [seen EXCEPT !.torn = TRUE]
<1>d. DOMAIN mem = DOMAIN FreshMemory
  BY DEF Typed, MemTyped
<1>u. UNCHANGED <<cfg, image>> /\ pc \notin MidRun
  BY DEF VerifyNetwork, VerifyLocal, VerifyBegin, VerifyBundle, BundlesExhausted, WriteVerified,
         VerifyFrame, MidRun
<1> DEFINE led == \/ pc' = "bundles" /\ seen' = seen /\ exit' = exit
                  \/ /\ pc' = "verified" /\ mem'.verification.verdict = "verified"
                     /\ seen' = seen /\ exit' = exit
                  \/ /\ pc' = "fail" /\ mem'.stage = "verify"
                     /\ mem'.err \in {{Unclassified}, {ErrVerification}}
                     /\ mem'.verification.verdict = "refused"
                     /\ seen' = seen /\ exit' = exit
                  \/ pc = "verified" /\ pc' = "clear" /\ Writes /\ exit' = exit
                  \/ /\ pc' = "idle" /\ exit' = ExitFailure
                     /\ seen' = [seen EXCEPT !.torn = TRUE]
<1>f. ASSUME NEW err \in {{Unclassified}, {ErrVerification}}, NEW time, VerifyFails(err, time),
             seen' = seen, exit' = exit
      PROVE  led
  BY <1>d, <1>f DEF VerifyFails, FreshMemory
<1>1. ASSUME VerifyBegin PROVE led
  <2>1. seen' = seen /\ exit' = exit
    BY <1>1 DEF VerifyBegin
  <2>2. \/ pc' = "bundles"
        \/ \E err \in {{Unclassified}, {ErrVerification}} : VerifyFails(err, {})
    BY <1>1 DEF VerifyBegin
  <2>q. QED
    BY <1>f, <2>1, <2>2
<1>2. ASSUME VerifyBundle PROVE led
  <2>1. pc = "bundles" /\ seen' = seen /\ exit' = exit
    BY <1>2 DEF VerifyBundle
  <2>2. PICK p \in mem.untried :
            \/ VerifyFails({Unclassified}, {})
            \/ /\ \E T \in VerifiedTimes(BundleAt(p)) :
                     mem' = [mem EXCEPT !.verification =
                                 [verdict |-> "verified", time |-> observedTimestamp(T)]]
               /\ pc' = "verified"
            \/ pc' = pc
    BY <1>2, Zenon DEF VerifyBundle
  <2>3. ASSUME NEW T, pc' = "verified",
               mem' = [mem EXCEPT !.verification =
                           [verdict |-> "verified", time |-> observedTimestamp(T)]]
        PROVE  led
    BY <1>d, <2>1, <2>3 DEF FreshMemory
  <2>q. QED
    BY <1>f, <2>1, <2>2, <2>3
<1>3. ASSUME BundlesExhausted PROVE led
  BY <1>3, <1>f DEF BundlesExhausted
<1>4. ASSUME WriteVerified PROVE led
  BY <1>4 DEF WriteVerified, Writes, WriteResultFails, Exits
<1> HIDE DEF led
<1>5. led
  BY <1>1, <1>2, <1>3, <1>4 DEF VerifyNetwork, VerifyLocal
<1>q. QED
  BY <1>u, <1>5 DEF led

LEMMA UnpackOutcome ==
    ASSUME Typed, UnpackNext
    PROVE  /\ UNCHANGED <<cfg, resultFile, seen>> /\ pc \in UnpackStages
           /\ \/ /\ pc' \in {"populate", "discard"} /\ pc \notin MidRun
                 /\ image' = image /\ exit' = exit
                 /\ pc' = "discard" => mem'.err \in Reasons
              \/ /\ pc' \in {"remove", "rename"} /\ exit' = exit
              \/ /\ pc' = "fail" /\ mem'.stage = "unpack" /\ image' = image /\ exit' = exit
                 /\ \/ mem'.err = {Unclassified}
                    \/ pc = "discard" /\ mem'.err = mem.err
              \/ pc' = "idle" /\ exit' = ExitOK
<1>d. DOMAIN mem = DOMAIN FreshMemory
  BY DEF Typed, MemTyped
<1>u. UNCHANGED <<cfg, resultFile, seen>> /\ pc \in UnpackStages
  BY DEF UnpackNext, UnpackClear, ExtractLayer, ExtractDone, RunUmoci, CopyAll, Discard,
         RemovePart, RemoveImage, Rename, UnpackFrame, UnpackStages
<1> DEFINE led == \/ /\ pc' \in {"populate", "discard"} /\ pc \notin MidRun
                     /\ image' = image /\ exit' = exit
                     /\ pc' = "discard" => mem'.err \in Reasons
                  \/ /\ pc' \in {"remove", "rename"} /\ exit' = exit
                  \/ /\ pc' = "fail" /\ mem'.stage = "unpack" /\ image' = image /\ exit' = exit
                     /\ \/ mem'.err = {Unclassified}
                        \/ pc = "discard" /\ mem'.err = mem.err
                  \/ pc' = "idle" /\ exit' = ExitOK
<1>f. ASSUME Fail("unpack", {Unclassified}), image' = image, exit' = exit PROVE led
  BY <1>d, <1>f DEF Fail, FreshMemory
<1>p. ASSUME NEW err \in Reasons, PopulateFails(err), pc \notin MidRun, image' = image, exit' = exit
      PROVE  led
  BY <1>d, <1>p DEF PopulateFails, FreshMemory
<1> USE SomeReasons
<1>1. ASSUME UnpackClear PROVE led
  BY <1>1, <1>f, <1>p DEF UnpackClear, Decide, UnpackFrame, MidRun
<1>2. ASSUME ExtractLayer PROVE led
  <2>1. pc = "populate" /\ image' = image /\ exit' = exit
    BY <1>2 DEF ExtractLayer, UnpackFrame
  <2>2. pc' = pc \/ \E err \in Reasons : PopulateFails(err)
    BY <1>2 DEF ExtractLayer
  <2>q. QED
    BY <1>p, <2>1, <2>2 DEF MidRun
<1>3. ASSUME ExtractDone PROVE led
  BY <1>3 DEF ExtractDone, UnpackFrame
<1>4. ASSUME RunUmoci PROVE led
  BY <1>4, <1>p DEF RunUmoci, UnpackFrame, MidRun
<1>5. ASSUME CopyAll PROVE led
  BY <1>5, <1>p DEF CopyAll, UnpackFrame, MidRun
<1>6. ASSUME Discard PROVE led
  BY <1>6, <1>d DEF Discard, Fail, UnpackFrame, FreshMemory
<1>7. ASSUME RemovePart PROVE led
  BY <1>7 DEF RemovePart, UnpackFrame
<1>8. ASSUME RemoveImage PROVE led
  BY <1>8, <1>f DEF RemoveImage, UnpackFrame
<1>9. ASSUME Rename PROVE led
  BY <1>9, <1>f DEF Rename, Exits, trees
<1> HIDE DEF led
<1>10. led
  BY <1>1, <1>2, <1>3, <1>4, <1>5, <1>6, <1>7, <1>8, <1>9 DEF UnpackNext
<1>q. QED
  BY <1>u, <1>10 DEF led

-----------------------------------------------------------------------------
(* image/ *)

LEMMA CodesApart ==
    /\ ExitCode({Unclassified}) = ExitFailure
    /\ ExitFailure \notin {ExitOK, ExitNotFound, ExitAuth, ExitVerification}
    /\ ExitOK \notin {ExitNotFound, ExitAuth, ExitVerification}
<1>1. /\ ErrVerification # Unclassified /\ ErrLimit # Unclassified /\ ErrNotFound # Unclassified
      /\ \A s : <<"oras", s>> # Unclassified /\ <<"crane", s>> # Unclassified
  BY DEF ErrVerification, ErrLimit, ErrNotFound, Unclassified
<1>2. ~isNotFound({Unclassified}) /\ ~isAuth({Unclassified})
  BY <1>1 DEF isNotFound, isAuth, hasStatus
<1>q. QED
  BY <1>1, <1>2 DEF ExitCode, NoError, ExitOK, ExitFailure, ExitNotFound, ExitAuth, ExitVerification

LEMMA KeptStep ==
    ASSUME Typed, Cause, Kept, [Next]_vars
    PROVE  Kept'
<1> USE DEF MidRun
<1>1. CASE PullStep
  <2>1. /\ UNCHANGED <<image, seen>> \/ seen' = [seen EXCEPT !.strayed = TRUE]
        /\ Intact /\ pc' \notin {"idle", "remove", "rename"}
    BY <1>1, PullOutcome DEF Kept, OrasStages, FallbackStages
  <2>2. Intact'
    BY <2>1 DEF Intact, Typed, StageTyped
  <2>q. QED
    BY <2>1, <2>2 DEF Kept
<1>2. CASE ReferrersNetwork \/ ReferrersLocal
  <2>1. /\ image' = image /\ Intact /\ pc' \notin {"idle", "remove", "rename"}
        /\ seen' \in {seen, [seen EXCEPT !.torn = TRUE]}
    BY <1>2, ReferrersOutcome DEF Kept
  <2>2. Intact'
    BY <2>1 DEF Intact, Typed, StageTyped
  <2>q. QED
    BY <2>1, <2>2 DEF Kept
<1>3. CASE VerifyNetwork \/ VerifyLocal
  <2>1. /\ image' = image /\ Intact /\ pc' \notin {"remove", "rename"}
        /\ seen' \in {seen, [seen EXCEPT !.torn = TRUE]}
        /\ pc' = "idle" => exit' = ExitFailure
    BY <1>3, VerifyOutcome DEF Kept, Writes
  <2>2. Intact'
    BY <2>1 DEF Intact, Typed, StageTyped
  <2>q. QED
    BY <2>1, <2>2 DEF Kept, Intact, RefusedKeepsImage, DamageIsRecorded
<1>4. CASE UnpackNext
  <2>1. /\ seen' = seen
        /\ \/ pc' \in {"populate", "discard"} /\ pc \notin MidRun /\ image' = image
           \/ pc' \in {"remove", "rename"}
           \/ /\ pc' = "fail" /\ mem'.stage = "unpack" /\ image' = image
              /\ mem'.err = {Unclassified} \/ pc = "discard"
           \/ pc' = "idle" /\ exit' = ExitOK
    BY <1>4, UnpackOutcome
  <2>q. QED
    BY <2>1, CodesApart DEF Kept, Intact, RefusedKeepsImage, DamageIsRecorded
<1>5. CASE AfterPull
  <2>1. /\ image' = image /\ Intact /\ pc' \notin {"fail", "remove", "rename"}
        /\ seen' \in {seen, [seen EXCEPT !.torn = TRUE]}
    BY <1>5 DEF AfterPull, Kept, WriteResultFails, Exits, trees
  <2>2. Intact'
    BY <2>1 DEF Intact, Typed, StageTyped
  <2>q. QED
    BY <2>1, <2>2 DEF Kept, Intact, RefusedKeepsImage, DamageIsRecorded
<1>6. CASE WriteFailure
  <2>1. /\ pc = "fail" /\ pc' = "idle" /\ image' = image /\ exit' = ExitCode(mem.err)
        /\ seen' \in {seen, [seen EXCEPT !.torn = TRUE]}
        /\ ~seen'.torn => resultFile' = Result(mem.stage)
    BY <1>6 DEF WriteFailure, FailureRecord, WriteResultFails, Exits, trees, Typed, StageTyped
  <2>2. UNCHANGED <<seen.before, seen.run, seen.strayed>>
    BY <2>1 DEF Typed, StageTyped
  <2>3. Intact \/ (mem.err = {Unclassified} /\ mem.stage = "unpack")
    BY <2>1 DEF Kept
  <2>4. RefusedKeepsImage'
    BY <2>1, <2>2, <2>3, CodesApart DEF RefusedKeepsImage, Intact
  <2>5. DamageIsRecorded'
    BY <2>1, <2>2, <2>3 DEF DamageIsRecorded, Intact, Result
  <2>q. QED
    BY <2>1, <2>4, <2>5 DEF Kept
<1>7. CASE Start \/ StartRefused
  <2>1. /\ image' = image /\ seen'.before = image /\ pc' \in {"oras", "idle"}
    BY <1>7 DEF Start, StartRefused, NewRun, trees, Typed, StageTyped
  <2>q. QED
    BY <2>1 DEF Kept, Intact, RefusedKeepsImage, DamageIsRecorded
<1>8. CASE Crash
  <2>1. pc' = "idle" /\ exit' = Killed
    BY <1>8 DEF Crash
  <2>q. QED
    BY <2>1 DEF Kept, RefusedKeepsImage, DamageIsRecorded, Ended, Killed
<1>9. CASE TagMoves
  <2>1. /\ UNCHANGED <<pc, mem, image, exit, resultFile>>
        /\ seen' = [seen EXCEPT !.moves = @ + 1]
    BY <1>9 DEF TagMoves, trees
  <2>2. /\ seen'.before = seen.before /\ seen'.run = seen.run /\ seen'.torn = seen.torn
        /\ seen'.started = seen.started /\ seen'.strayed = seen.strayed
    BY <2>1 DEF Typed, StageTyped
  <2>q. QED
    BY <2>1, <2>2 DEF Kept, Intact, RefusedKeepsImage, DamageIsRecorded, Ended
<1>10. CASE UNCHANGED vars
  BY <1>10 DEF vars, Kept, Intact, RefusedKeepsImage, DamageIsRecorded, Ended, trees
<1>q. QED
  BY <1>1, <1>2, <1>3, <1>4, <1>5, <1>6, <1>7, <1>8, <1>9, <1>10
     DEF Next, Network, Local, PullStep

LEMMA KeptAlways == Spec => []Kept
<1>1. Init => Kept
  BY DEF Init, Kept, RefusedKeepsImage, DamageIsRecorded
<1>q. QED
  BY <1>1, AlwaysTyped, CauseAlways, KeptStep, PTL DEF Spec

\* A run that ends as not found, not authorised or not verified leaves image/ as
\* it found it, if no layer's title led oras to download there (main.go's order
\* of stages; unpack.go touches image/ last; pull.go joins titles as they are).
THEOREM RefusalsKeepImage == Spec => []RefusedKeepsImage
<1>1. Kept => RefusedKeepsImage
  BY DEF Kept, RefusedKeepsImage, Ended
<1>q. QED
  BY <1>1, KeptAlways, PTL

\* A run that fails after Unpack began to take image/ away names the stage in
\* result.json, if that can be written and no title led a download into image/
\* before (RunE's fail, Unpack).
THEOREM DamageRecorded == Spec => []DamageIsRecorded
<1>1. Kept => DamageIsRecorded
  BY DEF Kept, DamageIsRecorded, Ended
<1>q. QED
  BY <1>1, KeptAlways, PTL

-----------------------------------------------------------------------------
(* result.json and the exit status *)

LEMMA ExitCodes ==
    ASSUME NEW err, err # {}
    PROVE  /\ ExitCode(err) # ExitOK
           /\ ExitCode(err) = ExitVerification => ErrVerification \in err
BY DEF ExitCode, NoError, ExitOK, ExitFailure, ExitNotFound, ExitAuth, ExitVerification, ExitLimit

\* A step that goes on with none of the stages the record depends on.
LEMMA RecordedQuiet ==
    ASSUME pc' \notin {"record", "discard", "fail", "verified", "idle"} \cup UnpackStages
    PROVE  Recorded'
BY DEF Recorded

LEMMA RecordedStep ==
    ASSUME Typed, Cause, Recorded, [Next]_vars
    PROVE  Recorded'
<1> USE DEF UnpackStages
<1>1. CASE PullStep
  <2>1. CASE pc' \in OrasStages \cup FallbackStages \cup {"pulled"}
    BY <2>1, RecordedQuiet DEF OrasStages, FallbackStages
  <2>2. CASE /\ pc' = "fail" /\ mem'.stage = "pull"
             /\ \E err \in Reasons : mem'.err \in {err, mem.orasErr \cup err}
    <3>1. PICK err \in Reasons : mem'.err \in {err, mem.orasErr \cup err}
      BY <2>2
    <3>2. ErrVerification \notin mem.orasErr
      BY ErrorsDiffer DEF Cause
    <3>3. mem'.err # {} /\ ErrVerification \notin mem'.err
      BY <3>1, <3>2, ReasonsUnsigned DEF Unsigned
    <3>q. QED
      BY <2>2, <3>3 DEF Recorded
  <2>q. QED
    BY <1>1, <2>1, <2>2, PullOutcome
<1>2. CASE ReferrersNetwork \/ ReferrersLocal
  <2>1. CASE pc' \in {"download", "payload", "list"}
    BY <2>1, RecordedQuiet
  <2>2. CASE pc' = "record" /\ mem'.err \in Reasons
    BY <2>2, ReasonsUnsigned DEF Recorded
  <2>3. CASE /\ pc' = "fail" /\ mem'.stage = "referrers"
             /\ mem'.err \in Reasons \/ (pc = "record" /\ mem'.err = mem.err)
    <3>1. Unsigned(mem'.err)
      BY <2>3, ReasonsUnsigned DEF Recorded
    <3>q. QED
      BY <2>3, <3>1 DEF Recorded, Unsigned
  <2>4. CASE pc' = (IF VerifyRequested THEN "verify" ELSE "clear") /\ Writes /\ cfg' = cfg
    <3>1. CASE VerifyRequested
      BY <2>4, <3>1, RecordedQuiet
    <3>2. CASE ~VerifyRequested
      BY <2>4, <3>2 DEF Recorded, Writes, Ours, Result, VerifyRequested
    <3>q. QED
      BY <3>1, <3>2
  <2>q. QED
    BY <1>2, <2>1, <2>2, <2>3, <2>4, ReferrersOutcome
<1>3. CASE VerifyNetwork \/ VerifyLocal
  <2>1. CASE pc' = "bundles"
    BY <2>1, RecordedQuiet
  <2>2. CASE pc' = "verified" /\ mem'.verification.verdict = "verified"
    BY <2>2 DEF Recorded
  <2>3. CASE /\ pc' = "fail" /\ mem'.stage = "verify"
             /\ mem'.err \in {{Unclassified}, {ErrVerification}}
             /\ mem'.verification.verdict = "refused"
    BY <2>3 DEF Recorded
  <2>4. CASE pc = "verified" /\ pc' = "clear" /\ Writes
    BY <2>4 DEF Recorded, Writes, Ours, Result
  <2>5. CASE pc' = "idle" /\ seen' = [seen EXCEPT !.torn = TRUE]
    <3>1. seen'.torn
      BY <2>5 DEF Typed, StageTyped
    <3>q. QED
      BY <2>5, <3>1 DEF Recorded, RecordedOutcome
  <2>q. QED
    BY <1>3, <2>1, <2>2, <2>3, <2>4, <2>5, VerifyOutcome
<1>4. CASE UnpackNext
  <2>1. /\ UNCHANGED <<cfg, resultFile, seen>> /\ pc \in UnpackStages
        /\ VerifyRequested' = VerifyRequested
    BY <1>4, UnpackOutcome DEF VerifyRequested
  <2>2. CASE pc' \in {"populate", "remove", "rename"}
    BY <2>1, <2>2 DEF Recorded, Ours
  <2>3. CASE pc' = "discard" /\ mem'.err \in Reasons
    BY <2>1, <2>3, ReasonsUnsigned DEF Recorded, Ours
  <2>4. CASE /\ pc' = "fail" /\ mem'.stage = "unpack"
             /\ mem'.err = {Unclassified} \/ (pc = "discard" /\ mem'.err = mem.err)
    <3>1. Unsigned(mem'.err)
      BY <2>4, SomeReasons, ReasonsUnsigned DEF Recorded
    <3>q. QED
      BY <2>4, <3>1 DEF Recorded, Unsigned
  <2>5. CASE pc' = "idle" /\ exit' = ExitOK
    <3>1. ExitOK # ExitVerification
      BY CodesApart
    <3>q. QED
      BY <2>1, <2>5, <3>1 DEF Recorded, RecordedOutcome, Ours
  <2>q. QED
    BY <1>4, <2>2, <2>3, <2>4, <2>5, UnpackOutcome
<1>5. CASE AfterPull
  <2>1. CASE pc' \in {"query", "verify"}
    BY <2>1, RecordedQuiet
  <2>2. CASE pc' = "clear" /\ ~VerifyRequested /\ cfg' = cfg /\ seen' = seen
             /\ resultFile' = Result("none")
    BY <2>2 DEF Recorded, Ours, Result, VerifyRequested
  <2>3. CASE pc' = "idle" /\ seen' = [seen EXCEPT !.torn = TRUE]
    <3>1. seen'.torn
      BY <2>3 DEF Typed, StageTyped
    <3>q. QED
      BY <2>3, <3>1 DEF Recorded, RecordedOutcome
  <2>q. QED
    BY <1>5, <2>1, <2>2, <2>3 DEF AfterPull, NeedsReferrers, WriteResultFails, Exits
<1>6. CASE WriteFailure
  <2>1. /\ pc = "fail" /\ pc' = "idle" /\ exit' = ExitCode(mem.err)
        /\ seen' \in {seen, [seen EXCEPT !.torn = TRUE]}
        /\ ~seen'.torn => resultFile' = Result(mem.stage)
    BY <1>6 DEF WriteFailure, FailureRecord, WriteResultFails, Exits, Typed, StageTyped
  <2>2. seen'.run = seen.run
    BY <2>1 DEF Typed, StageTyped
  <2>3. /\ mem.stage # "none" /\ mem.err # {}
        /\ ErrVerification \in mem.err => mem.stage = "verify" /\ mem.verification.verdict = "refused"
    BY <2>1 DEF Recorded
  <2>4. /\ exit' # ExitOK
        /\ exit' = ExitVerification => mem.stage = "verify" /\ mem.verification.verdict = "refused"
    BY <2>1, <2>3, ExitCodes
  <2>5. RecordedOutcome'
    BY <2>1, <2>2, <2>3, <2>4 DEF RecordedOutcome, Result
  <2>q. QED
    BY <2>1, <2>5 DEF Recorded
<1>7. CASE Start
  <2>1. pc' = "oras"
    BY <1>7 DEF Start
  <2>q. QED
    BY <2>1, RecordedQuiet
<1>8. CASE StartRefused
  <2>1. pc' = "idle" /\ ~seen'.started
    BY <1>8 DEF StartRefused, NewRun, Typed, StageTyped
  <2>q. QED
    BY <2>1 DEF Recorded, RecordedOutcome
<1>9. CASE Crash
  <2>1. pc' = "idle" /\ exit' = Killed
    BY <1>9 DEF Crash
  <2>q. QED
    BY <2>1 DEF Recorded, RecordedOutcome, Ended, Killed
<1>10. CASE TagMoves
  <2>1. /\ UNCHANGED <<pc, mem, cfg, exit, resultFile>>
        /\ seen' = [seen EXCEPT !.moves = @ + 1]
    BY <1>10 DEF TagMoves
  <2>2. seen'.run = seen.run /\ seen'.torn = seen.torn /\ seen'.started = seen.started
    BY <2>1 DEF Typed, StageTyped
  <2>3. VerifyRequested' = VerifyRequested /\ Ended' = Ended /\ Ours' = Ours
    BY <2>1, <2>2 DEF VerifyRequested, Ended, Ours
  <2>q. QED
    BY <2>1, <2>2, <2>3 DEF Recorded, RecordedOutcome, Unsigned
<1>11. CASE UNCHANGED vars
  BY <1>11 DEF vars, Recorded, RecordedOutcome, VerifyRequested, Ended, Ours, Unsigned
<1>q. QED
  BY <1>1, <1>2, <1>3, <1>4, <1>5, <1>6, <1>7, <1>8, <1>9, <1>10, <1>11
     DEF Next, Network, Local, PullStep

LEMMA RecordedAlways == Spec => []Recorded
<1>1. Init => Recorded
  BY DEF Init, Recorded, RecordedOutcome, UnpackStages
<1>q. QED
  BY <1>1, AlwaysTyped, CauseAlways, RecordedStep, PTL DEF Spec

\* The exit status and result.json agree on how the run ended, and neither says
\* success of a run whose requested verification did not succeed (RunE, Verify).
THEOREM OutcomeRecorded == Spec => []RecordedOutcome
<1>1. Recorded => RecordedOutcome
  BY DEF Recorded, RecordedOutcome, Ended
<1>q. QED
  BY <1>1, RecordedAlways, PTL

-----------------------------------------------------------------------------
(* Logins *)

\* The environment holds the login the registry takes, in its first whole pair.
GoodEnvironment ==
    /\ ~cfg.public /\ cfg.config = None
    /\ \E i \in DOMAIN Pairs :
          /\ Held(cfg.env, Pairs[i]) = GoodLogin
          /\ \A j \in 1 .. i - 1 : None \in ToSet(Held(cfg.env, Pairs[j]))

\* Nothing in it is a login that was turned away.
LetIn(err) == \A client \in {"oras", "crane"} : <<client, "401">> \notin err /\ <<client, "403">> \notin err

Welcome ==
    GoodEnvironment =>
        /\ LetIn(mem.orasErr)
        /\ pc \in {"record", "discard", "fail"} => LetIn(mem.err)
        /\ pc = "idle" => ~(Ended /\ exit = ExitAuth)

\* Half a pair that comes first does not hide a whole one.
LEMMA GoodPairResolved ==
    ASSUME GoodEnvironment
    PROVE  Resolve(cfg).source = "basic" /\ Resolve(cfg).login = GoodLogin
<1>1. Complete(GoodLogin) /\ ~Complete(Anonymous)
  BY WorkspaceAssumption DEF Complete, Anonymous, ToSet
<1>2. DOMAIN Pairs = {1, 2}
  BY DEF Pairs
<1>3. PICK i \in {1, 2} :
          /\ Held(cfg.env, Pairs[i]) = GoodLogin
          /\ \A j \in 1 .. i - 1 : None \in ToSet(Held(cfg.env, Pairs[j]))
  BY <1>2 DEF GoodEnvironment
<1>4. EnvLogin(cfg.env) = GoodLogin
  <2>1. CASE i = 1
    BY <1>1, <1>3, <2>1 DEF EnvLogin
  <2>2. CASE i = 2
    <3>1. ~Complete(Held(cfg.env, Pairs[1]))
      BY <1>3, <2>2 DEF Complete
    <3>q. QED
      BY <1>1, <1>3, <2>2, <3>1 DEF EnvLogin
  <2>q. QED
    BY <2>1, <2>2
<1>5. EnvLogin(cfg.env) # Anonymous
  BY <1>1, <1>4
<1>q. QED
  BY <1>4, <1>5 DEF Resolve, GoodEnvironment

LEMMA GoodReasons ==
    ASSUME GoodEnvironment, NEW err \in Reasons
    PROVE  LetIn(err)
<1>1. \A client \in {"oras", "crane"} : Login(client) = GoodLogin
  BY GoodPairResolved DEF Login
<1>2. \A client \in {"oras", "crane"} :
          RequestErrors(client) \subseteq {{Unclassified}, {<<client, "5xx">>}}
  BY <1>1 DEF RequestErrors, Admitted
<1>3. err \in {{Unclassified}, {ErrNotFound}, {ErrLimit}, {<<"crane", "404">>},
               {<<"oras", "5xx">>}, {<<"crane", "5xx">>}}
  <2>1. CASE err \in RequestErrors("oras")
    BY <1>2, <2>1
  <2>2. CASE err \in RequestErrors("crane")
    BY <1>2, <2>2
  <2>q. QED
    BY <2>1, <2>2 DEF Reasons
<1>4. \A client \in {"oras", "crane"} : \A s \in {"401", "403"} :
          <<client, s>> \notin {Unclassified, ErrNotFound, ErrLimit, <<"crane", "404">>,
                                <<"oras", "5xx">>, <<"crane", "5xx">>}
  BY DEF Unclassified, ErrNotFound, ErrLimit
<1>q. QED
  BY <1>3, <1>4 DEF LetIn

LEMMA LetInIsNotAuth ==
    ASSUME NEW err, LetIn(err)
    PROVE  ExitCode(err) # ExitAuth
<1>1. ~isAuth(err)
  BY DEF LetIn, isAuth, hasStatus
<1>q. QED
  BY <1>1 DEF ExitCode, ExitOK, ExitFailure, ExitNotFound, ExitAuth, ExitVerification, ExitLimit

LEMMA SomeLetIn == LetIn({}) /\ LetIn({ErrFallback}) /\ LetIn({ErrVerification}) /\ LetIn({Unclassified})
BY DEF LetIn, ErrFallback, ErrVerification, Unclassified

LEMMA WelcomeStep ==
    ASSUME Typed, Welcome, [Next]_vars
    PROVE  Welcome'
<1>k. ASSUME mem'.orasErr = mem.orasErr, cfg' = cfg,
             pc' = "idle" => exit' # ExitAuth,
             pc' \in {"record", "discard", "fail"} =>
                 \/ mem'.err \in Reasons \cup {{ErrVerification}}
                 \/ pc \in {"record", "discard", "fail"} /\ mem'.err = mem.err
      PROVE  Welcome'
  <2> SUFFICES ASSUME GoodEnvironment'
               PROVE  /\ LetIn(mem'.orasErr)
                      /\ pc' \in {"record", "discard", "fail"} => LetIn(mem'.err)
                      /\ pc' = "idle" => ~(Ended' /\ exit' = ExitAuth)
    BY DEF Welcome, LetIn
  <2>1. GoodEnvironment
    BY <1>k DEF GoodEnvironment
  <2>2. LetIn(mem.orasErr) /\ (pc \in {"record", "discard", "fail"} => LetIn(mem.err))
    BY <2>1 DEF Welcome
  <2>3. pc' \in {"record", "discard", "fail"} => LetIn(mem'.err)
    BY <1>k, <2>1, <2>2, GoodReasons, SomeLetIn
  <2>q. QED
    BY <1>k, <2>2, <2>3
<1>i. ASSUME pc' = "idle", mem' = FreshMemory, exit' # ExitAuth
      PROVE  Welcome'
  BY <1>i, SomeLetIn DEF Welcome, FreshMemory, NoError, LetIn
<1>1. CASE PullStep
  <2>1. cfg' = cfg /\ pc' \notin {"idle", "record", "discard"}
    BY <1>1, PullOutcome DEF OrasStages, FallbackStages
  <2>2. CASE mem'.orasErr = mem.orasErr /\ pc' # "fail"
    BY <1>k, <2>1, <2>2
  <2>3. CASE OrasFailed /\ pc' # "fail"
    <3>1. GoodEnvironment => LetIn(mem'.orasErr)
      BY <2>3, GoodReasons, SomeLetIn DEF OrasFailed
    <3>2. GoodEnvironment' <=> GoodEnvironment
      BY <2>1 DEF GoodEnvironment
    <3>q. QED
      BY <2>1, <2>3, <3>1, <3>2 DEF Welcome, LetIn
  <2>4. CASE /\ pc' = "fail" /\ mem'.orasErr = mem.orasErr
             /\ \E err \in Reasons : mem'.err \in {err, mem.orasErr \cup err}
    <3>1. PICK err \in Reasons : mem'.err \in {err, mem.orasErr \cup err}
      BY <2>4
    <3>2. GoodEnvironment => LetIn(mem'.err)
      BY <3>1, GoodReasons DEF Welcome, LetIn
    <3>3. GoodEnvironment' <=> GoodEnvironment
      BY <2>1 DEF GoodEnvironment
    <3>q. QED
      BY <2>4, <3>2, <3>3 DEF Welcome, LetIn
  <2>q. QED
    BY <1>1, <2>1, <2>2, <2>3, <2>4, PullOutcome DEF OrasStages, FallbackStages
<1>l. ASSUME LaterStep
      PROVE  \/ mem'.orasErr = mem.orasErr /\ cfg' = cfg /\ pc' # "idle"
             \/ pc' = "idle" /\ mem' = FreshMemory /\ exit' # ExitAuth
  <2>1. ExitAuth \notin {ExitOK, ExitFailure}
    BY DEF ExitAuth, ExitOK, ExitFailure
  <2>q. QED
    BY <1>l, <2>1, PullIsOver DEF Typed, MemTyped, PullSettled, AfterPullStages
<1>2. CASE ReferrersNetwork \/ ReferrersLocal
  <2>1. pc' \in {"record", "discard", "fail"} =>
            mem'.err \in Reasons \/ (pc = "record" /\ mem'.err = mem.err)
    BY <1>2, ReferrersOutcome
  <2>q. QED
    BY <1>2, <1>i, <1>k, <1>l, <2>1 DEF LaterStep
<1>3. CASE VerifyNetwork \/ VerifyLocal
  <2>1. pc' \in {"record", "discard", "fail"} => mem'.err \in Reasons \cup {{ErrVerification}}
    BY <1>3, VerifyOutcome, SomeReasons
  <2>q. QED
    BY <1>3, <1>i, <1>k, <1>l, <2>1 DEF LaterStep
<1>4. CASE UnpackNext
  <2>1. pc' \in {"record", "discard", "fail"} =>
            mem'.err \in Reasons \/ (pc = "discard" /\ mem'.err = mem.err)
    BY <1>4, UnpackOutcome, SomeReasons
  <2>q. QED
    BY <1>4, <1>i, <1>k, <1>l, <2>1 DEF LaterStep
<1>5. CASE AfterPull
  <2>1. pc' \notin {"record", "discard", "fail"}
    BY <1>5 DEF AfterPull, Exits
  <2>q. QED
    BY <1>5, <1>i, <1>k, <1>l, <2>1 DEF LaterStep
<1>6. CASE WriteFailure
  <2>1. /\ pc = "fail" /\ pc' = "idle" /\ exit' = ExitCode(mem.err) /\ mem' = FreshMemory
        /\ cfg' = cfg
    BY <1>6 DEF WriteFailure, Exits
  <2>2. GoodEnvironment => exit' # ExitAuth
    BY <2>1, LetInIsNotAuth DEF Welcome
  <2>3. GoodEnvironment' <=> GoodEnvironment
    BY <2>1 DEF GoodEnvironment
  <2>q. QED
    BY <2>1, <2>2, <2>3, SomeLetIn DEF Welcome, FreshMemory, NoError, LetIn
<1>7. CASE Start \/ StartRefused \/ Crash
  <2>1. /\ mem' = FreshMemory /\ pc' \in {"oras", "idle"}
        /\ pc' = "idle" => exit' \in {ExitFailure, Killed}
    BY <1>7 DEF Start, StartRefused, Crash, Typed, StageTyped
  <2>2. ExitAuth \notin {ExitFailure, Killed}
    BY DEF ExitAuth, ExitFailure, Killed
  <2>q. QED
    BY <2>1, <2>2, SomeLetIn DEF Welcome, FreshMemory, NoError, LetIn
<1>8. CASE TagMoves \/ UNCHANGED vars
  <2>1. UNCHANGED <<pc, mem, cfg, exit>>
    BY <1>8 DEF TagMoves, vars
  <2>q. QED
    BY <2>1 DEF Welcome, GoodEnvironment, Ended, LetIn
<1>q. QED
  BY <1>1, <1>2, <1>3, <1>4, <1>5, <1>6, <1>7, <1>8 DEF Next, Network, Local, PullStep

\* A complete login in the environment that the registry takes is never reported
\* as an authorisation failure, whatever half pairs there are (auth.go).
THEOREM GoodLoginsPass == Spec => []GoodLoginNotRefused
<1>1. Init => Welcome
  BY SomeLetIn DEF Init, Welcome, FreshMemory, NoError, Ended, NotRun
<1>2. Welcome => GoodLoginNotRefused
  BY DEF Welcome, GoodLoginNotRefused, GoodEnvironment, Ended
<1>q. QED
  BY <1>1, <1>2, AlwaysTyped, WelcomeStep, PTL DEF Spec

-----------------------------------------------------------------------------
(* What is published *)

\* Nothing but the layers' files is in tmp/.
FilesOf(layers) ==
    /\ tmp.layout = None
    /\ \A m \in Present(tmp) : \E i \in 1 .. Len(layers) : FilePath(layers[i]) = m

\* What each client goes on with, and what tmp/ holds besides.
Traced ==
    /\ pc \in {"oras manifest", "oras blobs"} => Manifest[mem.serving].kind = "artifact"
    /\ pc \in {"oras", "oras manifest"} /\ seen.fresh => tmp = EmptyTmp
    /\ pc = "oras blobs" /\ seen.fresh => FilesOf(Layers)
    /\ pc \in AfterPullStages /\ mem.orasErr = NoError =>
          /\ Manifest[mem.resolved].kind = "artifact"
          /\ seen.fresh => FilesOf(Manifest[mem.resolved].layers)

\* umoci got through only what is an image.
UmociImage == pc \in {"remove", "rename"} /\ Route = "umoci" => Unpackable(tmp.layout)

\* tmp/ was looked at when the run began.
LEMMA FreshKept ==
    ASSUME Typed, [Next]_vars, pc # "idle"
    PROVE  seen'.fresh = seen.fresh
<1>1. seen' \in {seen, [seen EXCEPT !.torn = TRUE], [seen EXCEPT !.moves = @ + 1],
                  [seen EXCEPT !.strayed = TRUE]}
  <2>1. CASE PullStep
    BY <2>1, PullOutcome
  <2>2. CASE ReferrersNetwork \/ ReferrersLocal
    BY <2>2, ReferrersOutcome
  <2>3. CASE VerifyNetwork \/ VerifyLocal
    BY <2>3, VerifyOutcome DEF Writes
  <2>4. CASE UnpackNext
    BY <2>4, UnpackOutcome
  <2>5. CASE AfterPull \/ WriteFailure
    BY <2>5 DEF AfterPull, WriteFailure, WriteResultFails
  <2>6. CASE Crash \/ TagMoves \/ UNCHANGED vars
    BY <2>6 DEF Crash, TornDownload, TornReferrers, TornRecord, Put, TagMoves, vars
  <2>q. QED
    BY <2>1, <2>2, <2>3, <2>4, <2>5, <2>6
       DEF Next, Network, Local, PullStep, Start, StartRefused
<1>q. QED
  BY <1>1 DEF Typed, StageTyped

LEMMA FreshStart ==
    ASSUME Typed, [Next]_vars, pc = "idle", pc' # "idle"
    PROVE  pc' = "oras" /\ tmp' = tmp /\ seen'.fresh = (tmp = EmptyTmp)
<1>1. Start
  <2>1. ~PullStep
    BY PullOutcome DEF MidRun
  <2>2. ~(ReferrersNetwork \/ ReferrersLocal)
    BY ReferrersOutcome DEF MidRun
  <2>3. ~(VerifyNetwork \/ VerifyLocal)
    BY VerifyOutcome DEF MidRun
  <2>4. ~UnpackNext
    BY UnpackOutcome DEF UnpackStages
  <2>5. ~(StartRefused \/ AfterPull \/ WriteFailure \/ Crash \/ TagMoves \/ UNCHANGED vars)
    BY DEF StartRefused, AfterPull, WriteFailure, Crash, TagMoves, vars
  <2>q. QED
    BY <2>1, <2>2, <2>3, <2>4, <2>5 DEF Next, Network, Local, PullStep
<1>2. pc' = "oras" /\ tmp' = tmp /\ seen' = [NewRun EXCEPT !.started = TRUE]
  BY <1>1 DEF Start, download
<1>3. DOMAIN seen = {"run", "moves", "before", "fresh", "torn", "started", "strayed"}
  BY DEF Typed, StageTyped
<1>4. DOMAIN NewRun = DOMAIN seen /\ NewRun.fresh = (tmp = EmptyTmp)
  BY <1>3 DEF NewRun
<1>q. QED
  BY <1>2, <1>3, <1>4

\* The manifests that are not for crane are artifacts.
LEMMA OrasServesArtifacts ==
    ASSUME NEW d \in Digest, ~craneFallbackReason(d)
    PROVE  Manifest[d].kind = "artifact"
BY WorkspaceAssumption DEF craneFallbackReason

LEMMA TracedStep ==
    ASSUME Typed, Cause, Fetched, Traced, [Next]_vars
    PROVE  Traced'
<1>d. DOMAIN mem = DOMAIN FreshMemory
  BY DEF Typed, MemTyped
<1>f. ASSUME pc' \in {"fail", "clean", "crane", "crane budget", "crane layout",
                     "crane manifest", "idle"}
      PROVE  Traced'
  BY <1>f DEF Traced, AfterPullStages
<1>n. CASE ~PullStep
  <2>1. CASE pc = "idle"
    <3>1. CASE pc' # "idle"
      BY <2>1, <3>1, FreshStart DEF Traced, AfterPullStages
    <3>q. QED
      BY <1>f, <3>1
  <2>2. CASE pc # "idle" /\ pc \in AfterPullStages /\ PullSettled /\ UNCHANGED <<tmp, manifestFile>>
    <3>1. seen'.fresh = seen.fresh
      BY <2>2, FreshKept
    <3>q. QED
      BY <2>2, <3>1 DEF Traced, FilesOf, PullSettled, AfterPullStages
  <2>3. CASE pc # "idle" /\ UNCHANGED <<pc, mem, tmp, manifestFile>>
    <3>1. seen'.fresh = seen.fresh
      BY <2>3, FreshKept
    <3>q. QED
      BY <2>3, <3>1 DEF Traced, FilesOf, Layers
  <2>4. CASE pc # "idle" /\ pc' = "oras" /\ mem' = FreshMemory
    <3>1. CASE LaterStep
      BY <1>d, <2>4, <3>1, PullIsOver DEF PullSettled, AfterPullStages
    <3>2. CASE Start \/ StartRefused \/ WriteFailure \/ Crash
      BY <2>4, <3>2 DEF Start, StartRefused, WriteFailure, Crash, Exits
    <3>3. CASE TagMoves \/ UNCHANGED vars
      <4>1. pc' = pc /\ tmp' = tmp /\ seen'.fresh = seen.fresh
        BY <2>4, <3>3, FreshKept DEF TagMoves, vars, download
      <4>q. QED
        BY <2>4, <4>1 DEF Traced, AfterPullStages
    <3>q. QED
      BY <1>n, <3>1, <3>2, <3>3 DEF Next, Network, Local, LaterStep, PullStep
  <2>q. QED
    BY <1>n, <1>f, <2>1, <2>2, <2>3, <2>4, NotPulling
<1>s. PullStep => seen'.fresh = seen.fresh
  BY PullOutcome, FreshKept DEF MidRun
<1>1. CASE OrasResolve
  <2>1. CASE /\ pc = "oras" /\ Target # None /\ ~craneFallbackReason(Target)
             /\ mem' = [mem EXCEPT !.serving = Target] /\ pc' = "oras manifest" /\ tmp' = tmp
    <3>1. mem'.serving = Target /\ Target \in Digest
      BY <1>d, <2>1, TargetTyped DEF FreshMemory, Typed
    <3>2. Manifest[Target].kind = "artifact"
      BY <2>1, <3>1, OrasServesArtifacts
    <3>q. QED
      BY <1>1, <1>s, <2>1, <3>1, <3>2 DEF Traced, AfterPullStages, PullStep, PullNetwork
  <2>q. QED
    BY <1>1, <1>f, <2>1 DEF OrasResolve, OrasFails, download
<1>2. CASE OrasManifest
  <2>1. CASE /\ mem' = [mem EXCEPT !.next = 1, !.budget = newDownloadBudget(cfg.lim)]
             /\ pc' = "oras blobs"
    <3>1. mem'.serving = mem.serving /\ pc = "oras manifest" /\ tmp' = tmp
          /\ seen'.fresh = seen.fresh
      BY <1>2, <1>d, <1>s, <2>1 DEF FreshMemory, OrasManifest, PullStep, PullLocal
    <3>2. ASSUME seen.fresh PROVE FilesOf(Layers)'
      <4>1. tmp' = EmptyTmp
        BY <3>1, <3>2 DEF Traced
      <4>2. tmp'.layout = None /\ \A m \in Name : tmp'.files[m] = None
        BY <4>1 DEF EmptyTmp, NoFiles
      <4>q. QED
        BY <4>2 DEF FilesOf, Present
    <3>3. seen'.fresh => FilesOf(Layers)'
      BY <3>1, <3>2
    <3>q. QED
      BY <2>1, <3>1, <3>3 DEF Traced, AfterPullStages
  <2>q. QED
    BY <1>2, <1>f, <2>1 DEF OrasManifest, OrasFails
<1>3. CASE OrasBlob
  <2> DEFINE l == Layers[mem.next]
  <2>1. CASE pc' = "clean"
    BY <1>f, <2>1
  <2>2. CASE /\ Put(l, l.blob)
             /\ mem' = [mem EXCEPT !.next = @ + 1, !.budget = charge(@, l.size)]
             /\ UNCHANGED pc
    <3>1. /\ pc = "oras blobs" /\ mem.next <= Len(Layers) /\ mem.serving \in Digest
          /\ mem.next \in Nat \ {0} /\ seen'.fresh = seen.fresh
      BY <1>3, <1>s DEF OrasBlob, Typed, MemTyped, StageTyped, ServingStages, PullStep, PullNetwork
    <3>2. mem'.serving = mem.serving /\ Layers' = Layers
      BY <1>d, <2>2 DEF FreshMemory, Layers
    <3>3. Len(Layers) \in Nat /\ mem.next \in 1 .. Len(Layers)
      <4>1. Len(Layers) \in Nat
        BY <3>1, SizesAre DEF Layers
      <4>2. PICK n, k : n = mem.next /\ k = Len(Layers)
        OBVIOUS
      <4>3. n \in Nat \ {0} /\ n <= k /\ k \in Nat
        BY <3>1, <4>1, <4>2
      <4>4. n \in 1 .. k
        BY <4>3
      <4>q. QED
        BY <4>1, <4>2, <4>4
    <3>p. IF FilePath(l) \in Name
          THEN tmp' = [tmp EXCEPT !.files[FilePath(l)] = l.blob]
          ELSE tmp' = tmp
      BY <2>2, PutFetches
    <3>4. ASSUME seen.fresh, NEW m \in Present(tmp')
          PROVE  \E i \in 1 .. Len(Layers) : FilePath(Layers[i]) = m
      <4>1. CASE m = FilePath(l)
        BY <3>3, <4>1
      <4>2. CASE m # FilePath(l)
        <5>1. m \in Present(tmp)
          BY <3>p, <3>4, <4>2 DEF Present, Typed, TmpTyped
        <5>q. QED
          BY <3>1, <3>4, <5>1 DEF Traced, FilesOf
      <4>q. QED
        BY <4>1, <4>2
    <3>5. seen.fresh => tmp'.layout = None
      BY <3>p, <3>1 DEF Traced, FilesOf, Typed, TmpTyped
    <3>6. seen.fresh => FilesOf(Layers)'
      BY <3>2, <3>4, <3>5 DEF FilesOf
    <3>q. QED
      BY <2>2, <3>1, <3>2, <3>6 DEF Traced, AfterPullStages
  <2>q. QED
    BY <1>3, <2>1, <2>2 DEF OrasBlob, OrasFails
<1>4. CASE OrasDone
  <2>1. /\ pc = "oras blobs" /\ pc' = "pulled" /\ tmp' = tmp /\ seen'.fresh = seen.fresh
        /\ mem'.resolved = mem.serving /\ mem'.orasErr = mem.orasErr
    BY <1>4, <1>d, <1>s DEF OrasDone, FreshMemory, download, PullStep, PullLocal
  <2>q. QED
    BY <2>1 DEF Traced, FilesOf, Layers
<1>5. CASE CraneManifest
  <2>1. CASE pc' = "pulled" /\ mem' = [mem EXCEPT !.resolved = mem.serving]
    <3>1. pc = "crane manifest" /\ mem'.orasErr = mem.orasErr
      BY <1>5, <1>d, <2>1 DEF CraneManifest, FreshMemory
    <3>2. mem.orasErr # NoError
      BY <3>1 DEF Cause, FallbackStages
    <3>q. QED
      BY <2>1, <3>1, <3>2 DEF Traced
  <2>q. QED
    BY <1>5, <1>f, <2>1 DEF CraneManifest, PullFails, Fail
<1>6. CASE CraneResolve \/ CraneCharge \/ CraneLayout \/ MkdirTmpFails \/ CleanTmp
  BY <1>6, <1>f DEF CraneResolve, CraneCharge, CraneLayout, MkdirTmpFails, CleanTmp, PullFails, Fail
<1>q. QED
  BY <1>n, <1>1, <1>2, <1>3, <1>4, <1>5, <1>6 DEF PullStep, PullNetwork, PullLocal

LEMMA UmociStep ==
    ASSUME Staged, UmociImage, [Next]_vars
    PROVE  UmociImage'
<1>1. CASE Around
  BY <1>1, AroundIsQuiet DEF InUnpack, UmociImage
<1>2. CASE UnpackNext
  <2>1. Route' = Route /\ tmp' = tmp
    BY <1>2, UnpackKeepsSource, SourceUnchanged DEF Source
  <2>2. CASE RunUmoci
    BY <2>1, <2>2 DEF RunUmoci, PopulateFails, UmociImage, Unpackable
  <2>3. CASE ExtractDone \/ CopyAll
    BY <2>1, <2>3 DEF ExtractDone, CopyAll, PopulateFails, Staged, UmociImage
  <2>4. CASE RemovePart \/ RemoveImage
    BY <2>1, <2>4 DEF RemovePart, RemoveImage, Fail, UmociImage, Unpackable
  <2>5. CASE UnpackClear \/ ExtractLayer \/ Discard \/ Rename
    BY <2>5 DEF UnpackClear, Decide, ExtractLayer, PopulateFails, Discard, Rename, Exits, Fail, UmociImage
  <2>q. QED
    BY <1>2, <2>2, <2>3, <2>4, <2>5 DEF UnpackNext
<1>3. CASE Crash
  BY <1>3 DEF Crash, UmociImage
<1>4. CASE TagMoves \/ UNCHANGED vars
  <2>1. UNCHANGED Source /\ pc' = pc /\ tmp' = tmp
    BY <1>4 DEF TagMoves, vars, Source, download
  <2>2. Route' = Route
    BY <2>1, SourceUnchanged
  <2>q. QED
    BY <2>1, <2>2 DEF UmociImage, Unpackable
<1>q. QED
  BY <1>1, <1>2, <1>3, <1>4, NextCases

LEMMA TracedAlways == Spec => [](Fetched /\ Traced /\ Staged /\ UmociImage)
<1>1. Init => Fetched /\ Traced /\ Staged /\ UmociImage
  BY StagedInit DEF Init, Fetched, PulledComplete, Traced, UmociImage, AfterPullStages
<1>2. Typed /\ Cause /\ Fetched /\ [Next]_vars => Fetched'
  BY FetchedStep
<1>3. Typed /\ Cause /\ Fetched /\ Traced /\ [Next]_vars => Traced'
  BY TracedStep
<1>4. Staged /\ UmociImage /\ [Next]_vars => UmociImage'
  BY UmociStep
<1>q. QED
  BY <1>1, <1>2, <1>3, <1>4, StagedStep, AlwaysTyped, CauseAlways, PTL DEF Spec

\* Relabelling changes nothing but the type.
LEMMA RelabelledAre ==
    ASSUME NEW d \in Digest
    PROVE  LET ls == Manifest[d].layers
               r == Relabelled(ls)
           IN  /\ DOMAIN r = 1 .. Len(ls) /\ DOMAIN ls = 1 .. Len(ls) /\ Len(ls) \in Nat
               /\ \A i \in 1 .. Len(ls) :
                     /\ r[i].title = ls[i].title /\ r[i].blob = ls[i].blob
                     /\ r[i].hex = ls[i].hex /\ r[i].digest = ls[i].digest
                     /\ FileName(r[i]) = FileName(ls[i]) /\ FileName(ls[i]) \in Name
                     /\ {ls[i].digest, ls[i].hex} \subseteq Name \ {LayoutName}
                     /\ ls[i].title \in Titles \cup {None}
                     /\ ls[i].blob \in Blob /\ ls[i] \in ToSet(ls)
<1> DEFINE ls == Manifest[d].layers
<1>1. /\ ls \in Seq(ToSet(ls))
      /\ \A l \in ToSet(ls) :
            /\ {"type", "title", "digest", "hex", "blob", "size"} \subseteq DOMAIN l
            /\ {l.digest, l.hex} \subseteq Name \ {LayoutName}
            /\ l.title \in Titles \cup {None} /\ l.blob \in Blob
  BY WorkspaceAssumption
<1> HIDE DEF ls
<1>n. \A l \in ToSet(ls) : FileName(l) \in Name
  BY <1>1, WorkspaceAssumption DEF FileName, Titles
<1>2. DOMAIN ls = 1 .. Len(ls) /\ Len(ls) \in Nat /\ \A i \in 1 .. Len(ls) : ls[i] \in ToSet(ls)
  BY <1>1
<1>3. DOMAIN Relabelled(ls) = 1 .. Len(ls)
      /\ \A i \in 1 .. Len(ls) : Relabelled(ls)[i] = [ls[i] EXCEPT !.type = OCIType[@]]
  BY <1>2 DEF Relabelled
<1>4. ASSUME NEW i \in 1 .. Len(ls)
      PROVE  LET r == Relabelled(ls)[i]
             IN  /\ r.title = ls[i].title /\ r.blob = ls[i].blob
                 /\ r.hex = ls[i].hex /\ r.digest = ls[i].digest
                 /\ FileName(r) = FileName(ls[i])
  BY <1>1, <1>2, <1>3 DEF FileName
<1>q. QED
  BY <1>1, <1>n, <1>2, <1>3, <1>4 DEF ls

\* The layers --mediatype covers.
Chosen(layers) == {l \in ToSet(layers) : allowedMediaType(l.type, cfg.allowed)}

\* Extraction finds a layer's own blob in what crane laid out.
LEMMA LaidOutPath ==
    ASSUME NEW d \in Digest, tmp = LaidOut(d), NEW i \in 1 .. Len(Manifest[d].layers),
           FileName(Manifest[d].layers[i]) # LayoutName
    PROVE  blobPath(Relabelled(Manifest[d].layers)[i]) = Manifest[d].layers[i].blob
<1>1. PICK ls, r : ls = Manifest[d].layers /\ r = Relabelled(ls)[i]
  OBVIOUS
<1>2. /\ r.blob = ls[i].blob /\ {r.digest, r.hex} \subseteq Name \ {LayoutName}
      /\ FileName(r) \in Name \ {LayoutName} /\ ls[i] \in ToSet(ls)
  BY <1>1, RelabelledAre
<1>3. \A n \in Name \ {LayoutName} : tmp.files[n] = None
  BY DEF LaidOut, NoFiles
<1>4. tmp.layout = d /\ tmp.layout \in Digest
  BY DEF LaidOut
<1>5. blobPath(r) = r.blob
  BY <1>1, <1>2, <1>3, <1>4 DEF blobPath
<1>q. QED
  BY <1>1, <1>2, <1>5

\* A path in tmp/ is the bare name it ends in.
LEMMA PathIsName ==
    ASSUME NEW l, FilePath(l) \in Name
    PROVE  FilePath(l) = FileName(l) /\ ~Astray(l, "manifest")
BY WorkspaceAssumption DEF FilePath, FileName, Astray

\* Or in the file oras put it in, unless there is another under the digest.
LEMMA FetchedPath ==
    ASSUME NEW l, l.blob \in Blob, tmp.files[FileName(l)] = l.blob,
           l.title = None => tmp.files[l.digest] = None
    PROVE  blobPath(l) = l.blob
BY WorkspaceAssumption DEF blobPath, FileName

\* What is extracted is then what --mediatype covers.
LEMMA ExtractsChosen ==
    ASSUME \A i \in DOMAIN manifestFile : blobPath(manifestFile[i]) = manifestFile[i].blob
    PROVE  /\ {Unpacked(blobPath(manifestFile[i])) : i \in ToExtract}
                 = {Unpacked(l.blob) : l \in Chosen(manifestFile)}
           /\ ToExtract = {} <=> Chosen(manifestFile) = {}
BY DEF ToExtract, Chosen, ToSet

\* No file of oras's is behind another's.
LEMMA AllFetched ==
    ASSUME NEW layers, NamesDiffer(layers), DOMAIN layers = 1 .. Len(layers), Len(layers) \in Nat,
           \A i \in DOMAIN layers :
               \/ \E j \in i + 1 .. Len(layers) : FileName(layers[j]) = FileName(layers[i])
               \/ tmp.files[FileName(layers[i])] = layers[i].blob
    PROVE  \A i \in DOMAIN layers : tmp.files[FileName(layers[i])] = layers[i].blob
<1> SUFFICES ASSUME NEW i \in DOMAIN layers, NEW j \in i + 1 .. Len(layers),
                    FileName(layers[j]) = FileName(layers[i])
             PROVE  FALSE
  OBVIOUS
<1>1. j \in DOMAIN layers /\ j # i
  OBVIOUS
<1>q. QED
  BY <1>1 DEF NamesDiffer, IsInjective

\* The first file by name is the archive that comes first among the layers.
LEMMA FirstIsArchive ==
    ASSUME NEW layers, ArchiveFirst(layers), TmpTyped,
           \A l \in ToSet(layers) : FileName(l) \in Present(tmp) /\ tmp.files[FileName(l)] = l.blob,
           \A m \in Present(tmp) : \E l \in ToSet(layers) : FileName(l) = m
    PROVE  firstFileIsArchive
<1>1. PICK l \in ToSet(layers) :
          l.blob \in Archive /\ \A k \in ToSet(layers) : FileName(l) <= FileName(k)
  BY DEF ArchiveFirst
<1>2. PICK n : n = FileName(l)
  OBVIOUS
<1>3. n \in Present(tmp) /\ \A m \in Present(tmp) : n <= m
  BY <1>1, <1>2
<1>4. Present(tmp) \subseteq Nat
  BY WorkspaceAssumption DEF Present
<1>5. FirstFile(tmp) \in Present(tmp) /\ \A m \in Present(tmp) : FirstFile(tmp) <= m
  BY <1>3 DEF FirstFile
<1>6. FirstFile(tmp) = n
  <2>1. PICK f : f = FirstFile(tmp)
    OBVIOUS
  <2>2. f \in Nat /\ n \in Nat /\ f <= n /\ n <= f
    BY <1>3, <1>4, <1>5, <2>1
  <2>q. QED
    BY <2>1, <2>2
<1>q. QED
  BY <1>1, <1>2, <1>3, <1>6 DEF firstFileIsArchive

\* What crane fetched is published.
LEMMA CranePublishes ==
    ASSUME NEW d \in Digest, tmp = LaidOut(d), manifestFile = Relabelled(Manifest[d].layers),
           \A l \in ToSet(Manifest[d].layers) : FileName(l) # LayoutName,
           Route = "umoci" => Unpackable(tmp.layout)
    PROVE  Populated = Expected(d)
<1>1. \A i \in DOMAIN manifestFile : blobPath(manifestFile[i]) = manifestFile[i].blob
  BY RelabelledAre, LaidOutPath
<1>2. tmp.layout = d /\ HasBlobs(tmp)
  BY WorkspaceAssumption DEF LaidOut, HasBlobs
<1>3. CASE ToExtract # {}
  <2>1. Route = "extract"
    BY <1>2, <1>3 DEF Route
  <2>2. Populated = {Unpacked(blobPath(manifestFile[i])) : i \in ToExtract}
    BY <2>1, Zenon DEF Populated
  <2>3. Chosen(manifestFile) # {}
    BY <1>1, <1>3, ExtractsChosen
  <2>4. Expected(d) = {Unpacked(l.blob) : l \in Chosen(manifestFile)}
    BY <2>3 DEF Expected, Chosen
  <2>q. QED
    BY <1>1, <2>2, <2>4, ExtractsChosen
<1>4. CASE ToExtract = {}
  <2>1. Route = "umoci"
    BY <1>2, <1>4 DEF Route
  <2>2. Populated = {RootFS(d)}
    BY <1>2, <2>1, Zenon DEF Populated
  <2>3. Chosen(manifestFile) = {} /\ Manifest[d].kind # "artifact"
    BY <1>1, <1>2, <1>4, <2>1, ExtractsChosen DEF Unpackable
  <2>q. QED
    BY <2>2, <2>3 DEF Expected, Chosen
<1>q. QED
  BY <1>3, <1>4

\* What oras fetched into an empty tmp/ is published.
LEMMA OrasPublishes ==
    ASSUME NEW d \in Digest, Manifest[d].kind = "artifact", manifestFile = Manifest[d].layers,
           FilesOf(manifestFile), FilesTell(manifestFile), TmpTyped,
           \A i \in DOMAIN manifestFile :
               tmp.files[FileName(manifestFile[i])] = manifestFile[i].blob,
           Route = "umoci" => Unpackable(tmp.layout)
    PROVE  Populated = Expected(d)
<1> DEFINE layers == manifestFile
<1>1. /\ Relabelled(layers) = layers /\ DOMAIN layers = 1 .. Len(layers)
      /\ \A i \in DOMAIN layers : layers[i].blob \in Blob /\ FileName(layers[i]) \in Name
  BY RelabelledAre DEF FilesTell
<1>p. \A i \in DOMAIN layers : FilePath(layers[i]) = FileName(layers[i]) /\ layers[i] \in ToSet(layers)
  BY <1>1, PathIsName DEF FilesTell, StayInTmp, ToSet
<1>2. ASSUME NEW i \in DOMAIN layers PROVE blobPath(layers[i]) = layers[i].blob
  <2>1. layers[i].title = None => tmp.files[layers[i].digest] = None
    <3>1. layers[i].title = None => \A j \in DOMAIN layers : FilePath(layers[j]) # layers[i].digest
      BY <1>p DEF FilesTell, StayInTmp
    <3>2. layers[i].digest \in Name
      BY <1>1, RelabelledAre
    <3>q. QED
      BY <1>1, <3>1, <3>2 DEF FilesOf, Present
  <2>q. QED
    BY <1>1, <2>1, FetchedPath
<1>3. /\ \A l \in ToSet(layers) : FileName(l) \in Present(tmp) /\ tmp.files[FileName(l)] = l.blob
      /\ \A m \in Present(tmp) : \E l \in ToSet(layers) : FileName(l) = m
  BY <1>1, <1>p, WorkspaceAssumption DEF Present, ToSet, FilesOf
<1>4. Route # "umoci" /\ ~HasBlobs(tmp)
  BY WorkspaceAssumption DEF Unpackable, FilesOf, HasBlobs
<1>5. CASE Route = "extract"
  <2>1. Populated = {Unpacked(blobPath(layers[i])) : i \in ToExtract}
    BY <1>5, Zenon DEF Populated
  <2>2. ToExtract # {}
    BY <1>5 DEF Route
  <2>3. Chosen(layers) # {}
    BY <1>2, <2>2, ExtractsChosen
  <2>4. Expected(d) = {Unpacked(l.blob) : l \in Chosen(layers)}
    BY <1>1, <2>3 DEF Expected, Chosen
  <2>q. QED
    BY <1>2, <2>1, <2>4, ExtractsChosen
<1>6. CASE Route = "copy"
  <2>1. Populated = {Copied(n, tmp.files[n]) : n \in Present(tmp)}
    BY <1>6, Zenon DEF Populated
  <2>2. ~firstFileIsArchive
    BY <1>6 DEF Route
  <2>3. ~ArchiveFirst(layers)
    BY <1>3, <2>2, FirstIsArchive
  <2>4. Chosen(layers) = {}
    BY <2>3 DEF FilesTell, Chosen
  <2>5. Expected(d) = {Copied(FileName(l), l.blob) : l \in ToSet(layers)}
    BY <1>1, <2>4 DEF Expected, Chosen
  <2>6. {Copied(n, tmp.files[n]) : n \in Present(tmp)} = {Copied(FileName(l), l.blob) : l \in ToSet(layers)}
    BY <1>3
  <2>q. QED
    BY <2>1, <2>5, <2>6
<1>q. QED
  BY <1>4, <1>5, <1>6 DEF Route

\* What is about to replace image/ is the contents of the digest this run
\* resolved, whichever client fetched it (Pull, unpackInto, blobPath).  For oras
\* that takes titles that stay in tmp/ and files that say what the manifest said
\* (FilesTell); for crane no layer may be called like a file of the layout.
THEOREM PublishesResolved == Spec => []PublishesWhatWasResolved
<1>1. ASSUME Typed, Fetched, Traced, Staged, UmociImage
      PROVE  PublishesWhatWasResolved
  <2> DEFINE layers == Manifest[mem.resolved].layers
  <2> SUFFICES ASSUME pc = "rename",
                      IF mem.orasErr = NoError THEN seen.fresh /\ FilesTell(layers)
                      ELSE \A l \in ToSet(layers) : FileName(l) # LayoutName
               PROVE  staging.items = Expected(mem.resolved)
    BY DEF PublishesWhatWasResolved
  <2>1. mem.resolved \in Digest /\ pc \in AfterPullStages /\ TmpTyped
    BY <1>1 DEF Typed, StageTyped, AfterPullStages
  <2>2. staging.items = Populated
    BY <1>1 DEF Staged
  <2>3. Route = "umoci" => Unpackable(tmp.layout)
    BY <1>1 DEF UmociImage
  <2>4. PICK d \in Digest : d = mem.resolved
    BY <2>1
  <2>5. CASE mem.orasErr # NoError
    <3>1. tmp = LaidOut(d) /\ manifestFile = Relabelled(Manifest[d].layers)
      BY <1>1, <2>1, <2>4, <2>5 DEF Fetched, PulledComplete, LaidOut
    <3>2. Populated = Expected(d)
      BY <2>3, <2>4, <2>5, <3>1, CranePublishes
    <3>q. QED
      BY <2>2, <2>4, <3>2
  <2>6. CASE mem.orasErr = NoError
    <3>a. \A l \in ToSet(layers) : FilePath(l) = FileName(l) /\ ~Astray(l, "manifest")
      BY <2>6, PathIsName DEF FilesTell, StayInTmp
    <3>b. manifestFile = layers
      BY <1>1, <2>1, <2>6, <3>a DEF Fetched, PulledComplete
    <3>1. /\ Manifest[d].kind = "artifact" /\ manifestFile = Manifest[d].layers
          /\ FilesOf(manifestFile) /\ FilesTell(manifestFile)
      BY <1>1, <2>1, <2>4, <2>6, <3>b DEF Traced
    <3>2. \A i \in DOMAIN manifestFile :
              \/ \E j \in i + 1 .. Len(manifestFile) :
                     FileName(manifestFile[j]) = FileName(manifestFile[i])
              \/ tmp.files[FileName(manifestFile[i])] = manifestFile[i].blob
      <4>1. \A i \in DOMAIN layers : layers[i] \in ToSet(layers)
        BY DEF ToSet
      <4>2. \A i \in DOMAIN layers : FilePath(layers[i]) = FileName(layers[i])
        BY <3>a, <4>1
      <4>3. \A i \in DOMAIN layers : \A j \in i + 1 .. Len(layers) : j \in DOMAIN layers
        BY <2>4, RelabelledAre
      <4>4. \A i \in DOMAIN layers : FilePath(layers[i]) \in Name =>
                \/ \E j \in i + 1 .. Len(layers) : FilePath(layers[j]) = FilePath(layers[i])
                \/ tmp.files[FilePath(layers[i])] = layers[i].blob
        BY <1>1, <2>1, <2>6 DEF Fetched, PulledComplete
      <4>5. \A i \in DOMAIN layers : FilePath(layers[i]) \in Name
        BY <2>6, <4>1 DEF FilesTell, StayInTmp
      <4>q. QED
        BY <3>b, <4>2, <4>3, <4>4, <4>5
    <3>3. DOMAIN manifestFile = 1 .. Len(manifestFile) /\ Len(manifestFile) \in Nat
      BY <3>1, RelabelledAre
    <3>4. \A i \in DOMAIN manifestFile : tmp.files[FileName(manifestFile[i])] = manifestFile[i].blob
      BY <3>1, <3>2, <3>3, AllFetched DEF FilesTell
    <3>5. Populated = Expected(d)
      BY <2>1, <2>3, <3>1, <3>4, OrasPublishes
    <3>q. QED
      BY <2>2, <2>4, <3>5
  <2>q. QED
    BY <2>5, <2>6
<1>q. QED
  BY <1>1, TracedAlways, AlwaysTyped, PTL

=============================================================================
