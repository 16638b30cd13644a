-------------------------- MODULE Extraction_proofs --------------------------
(***************************************************************************)
(* What extraction promises for every set of paths, sizes, modes, flags    *)
(* and layers.  The bounds rest on one accounting: while extraction runs,  *)
(* the bytes written are what earlier layers took from the budget plus     *)
(* what the current one has counted.                                       *)
(***************************************************************************)
EXTENDS Extraction, TLAPS

Live == status \in {"running", "done"}

Accounting ==
    /\ total >= 0 /\ total <= budget /\ budget <= lim.total
    /\ Live => written = lim.total - budget + total
    /\ written <= lim.total + 1
    /\ Running => layer <= Layers

IInv == TypeOK /\ Accounting

-----------------------------------------------------------------------------
(* The operators *)

\* Resolved limits are positive and representable, whatever the flags were.
LEMMA ResolvedLimits ==
    ASSUME NEW l \in Flags
    PROVE  withDefaults(l) \in
               [total : 1 .. MaxInt, file : 1 .. MaxInt, entries : Nat \ {0}]
BY LimitsAssumption, ExtractionAssumption DEF withDefaults, OrDefault, Int64

\* One copy writes at most one byte more than it is allowed.
LEMMA CopyBound ==
    ASSUME NEW size \in Nat, NEW allowed \in 0 .. MaxInt
    PROVE  /\ CopyLen(size, ReadCap(allowed)) \in Nat
           /\ CopyLen(size, ReadCap(allowed)) <= allowed + 1
           /\ CopyLen(size, ReadCap(allowed)) <= size
BY LimitsAssumption DEF CopyLen, ReadCap, Wrap

\* A copy that stayed within what it is allowed is a copy of everything,
\* provided the allowance is not the largest int64.
LEMMA CopyWhole ==
    ASSUME NEW size \in Nat, NEW allowed \in 0 .. MaxInt - 1,
           CopyLen(size, ReadCap(allowed)) <= allowed
    PROVE  CopyLen(size, ReadCap(allowed)) = size
BY LimitsAssumption DEF CopyLen, ReadCap, Wrap

\* MkdirAll only adds directories to a tree of well-typed nodes.
LEMMA MkdirAllType ==
    ASSUME NEW tree \in [Paths -> Node], NEW dirs, NEW m \in SUBSET PermBits
    PROVE  MkdirAll(tree, dirs, m) \in [Paths -> Node]
BY DEF MkdirAll, Node, Dir

\* Whatever a header carries, the mode on disk is permission bits only.
LEMMA ModeTypes ==
    ASSUME NEW m, NEW isDir
    PROVE  /\ clampMode(Perm(m), isDir) \in SUBSET PermBits
           /\ FileMode \in SUBSET PermBits
           /\ DefaultDirMode \in SUBSET PermBits
BY DEF clampMode, Perm, FileMode, CreateMode, DefaultDirMode, PermBits

\* An entry is named by its layer and its position there.
LEMMA EntryIdType ==
    ASSUME TypeOK
    PROVE  EntryId \in Nat \X Nat
<1>1. Layers \in Nat /\ layer \in 1 .. Layers + 1 /\ entries \in Nat
  BY ExtractionAssumption DEF TypeOK
<1>2. layer \in Nat
  BY <1>1
<1> QED
  BY <1>1, <1>2 DEF EntryId

\* An entry that was read has a size, and the counters are integers.
LEMMA Numbers ==
    ASSUME TypeOK
    PROVE  /\ hdr # NoEntry => hdr.size \in Nat
           /\ lim.total \in 1 .. MaxInt /\ lim.file \in 1 .. MaxInt
           /\ budget \in Int /\ total \in Int /\ written \in Nat
           /\ MaxInt \in Nat
<1>1. hdr # NoEntry => hdr.size \in Nat
  BY ExtractionAssumption DEF TypeOK, Entry
<1>2. lim.total \in 1 .. MaxInt /\ lim.file \in 1 .. MaxInt
  BY DEF TypeOK
<1>3. MaxInt \in Nat /\ budget \in Int64 /\ total \in Int64 /\ written \in Nat
  BY LimitsAssumption DEF TypeOK
<1>4. budget \in Int /\ total \in Int
  BY <1>3 DEF Int64
<1> QED
  BY <1>1, <1>2, <1>3, <1>4

\* Opening a file keeps the tree well typed and leaves the file in it.
LEMMA OpenedType ==
    ASSUME TypeOK, NEW p \in Paths, NEW m \in SUBSET PermBits, NEW n \in Nat
    PROVE  Opened(p, m, n) \in [Paths -> Node]
<1>1. MkdirAll(disk, Above[p], DefaultDirMode) \in [Paths -> Node]
  BY MkdirAllType, ModeTypes DEF TypeOK
<1>2. EntryId \in Nat \X Nat
  BY EntryIdType
<1>3. Is(p, "file") => disk[p].mode \in SUBSET PermBits
  <2>1. disk[p] \in Node
    BY DEF TypeOK
  <2>2. Absent.kind # "file"
    BY DEF Absent
  <2>3. \A node \in Node : node.kind = "file" => node.mode \in SUBSET PermBits
    BY <2>2 DEF Node
  <2> QED
    BY <2>1, <2>3 DEF Is
<1>4. File(IF Is(p, "file") THEN disk[p].mode ELSE m, EntryId, n) \in Node
  BY <1>2, <1>3 DEF File, Node
<1> QED
  BY <1>1, <1>4 DEF Opened

-----------------------------------------------------------------------------
(* The steps *)

\* What a step may copy: between nothing and one byte past the budget.
LEMMA CopyInBudget ==
    ASSUME IInv, hdr # NoEntry
    PROVE  /\ CopyLen(hdr.size, Cap) \in Nat
           /\ CopyLen(hdr.size, Cap) <= hdr.size
           /\ CopyLen(hdr.size, Cap) <= budget - total + 1
<1>1. hdr.size \in Nat
  BY Numbers DEF IInv
<1> DEFINE a == AllowedBytes(lim.file, budget - total)
<1>2. a \in 0 .. MaxInt /\ a <= budget - total
  BY Numbers DEF IInv, Accounting, AllowedBytes
<1>3. Cap = ReadCap(a)
  BY DEF Cap
<1> HIDE DEF a
<1>4. /\ CopyLen(hdr.size, ReadCap(a)) \in Nat
      /\ CopyLen(hdr.size, ReadCap(a)) <= a + 1
      /\ CopyLen(hdr.size, ReadCap(a)) <= hdr.size
  BY <1>1, <1>2, CopyBound
<1> QED
  BY <1>2, <1>3, <1>4, Numbers DEF IInv

\* Giving up before anything is written keeps the inductive invariant.
LEMMA RefuseStep ==
    ASSUME IInv, Running, NEW why, Refuse(why),
           why \in {"stream", "path", "conflict", "unusable directory",
                    "read-only file"}
    PROVE  IInv'
BY DEF IInv, TypeOK, Accounting, Live, Running, Refuse, Fail

\* Storing a body, cut at the cap or whole, keeps the inductive invariant.
LEMMA StoreStep ==
    ASSUME IInv, Running, hdr # NoEntry, NEW p \in Paths,
           NEW n \in Nat, n = CopyLen(hdr.size, Cap), written + n <= IOBound,
           NEW m \in SUBSET PermBits, StoreFile(p, m, n)
    PROVE  IInv'
<1>1. n <= budget - total + 1
  BY CopyInBudget
<1>2. disk' \in [Paths -> Node]
  BY OpenedType DEF StoreFile, IInv
<1>3. written' = written + n /\ written' \in Nat /\ written' <= lim.total + 1
  BY <1>1 DEF StoreFile, IInv, TypeOK, Accounting, Live, Running, Int64
<1>4. Wrap(total + n) = total + n
  BY LimitsAssumption, ExtractionAssumption
     DEF Wrap, IInv, TypeOK, Accounting, Live, Running, Int64
<1>5. CASE Exceeds(n)
  BY <1>2, <1>3, <1>5
     DEF StoreFile, Fail, IInv, TypeOK, Accounting, Live, Running
<1>6. CASE ~Exceeds(n)
  <2>1. UNCHANGED <<route, lim, budget, layer, entries, status>> /\ hdr' = NoEntry
    BY <1>6 DEF StoreFile
  <2>2. total' = total + n /\ total' <= budget
    BY <1>4, <1>6, Numbers DEF StoreFile, Exceeds, IInv
  <2>3. wanted' \in [Paths -> Node]
    <3>1. hdr.size \in Nat
      BY Numbers DEF IInv
    <3>2. EntryId \in Nat \X Nat
      BY EntryIdType DEF IInv
    <3>3. File(m, EntryId, hdr.size) \in Node
      BY <3>1, <3>2 DEF File, Node
    <3>4. MkdirAll(wanted, Above[p], DefaultDirMode) \in [Paths -> Node]
      BY MkdirAllType, ModeTypes DEF IInv, TypeOK
    <3> QED
      BY <1>6, <3>3, <3>4 DEF StoreFile
  <2>4. TypeOK'
    <3>1. total' \in Int64
      BY <2>2, Numbers DEF IInv, Accounting, Int64
    <3> QED
      BY <1>2, <1>3, <2>1, <2>3, <3>1 DEF IInv, TypeOK
  <2>5. Accounting'
    BY <1>3, <2>1, <2>2 DEF IInv, TypeOK, Accounting, Live, Running, Int64
  <2> QED
    BY <2>4, <2>5 DEF IInv
<1> QED
  BY <1>5, <1>6

\* So does a write that fails part of the way.
LEMMA StoreFailsStep ==
    ASSUME IInv, Running, hdr # NoEntry, NEW p \in Paths,
           NEW n \in Nat, n = CopyLen(hdr.size, Cap),
           NEW m \in SUBSET PermBits, StoreFails(p, m, n)
    PROVE  IInv'
<1>1. n <= budget - total + 1
  BY CopyInBudget
<1>2. PICK k \in 0 .. n : disk' = Opened(p, m, k) /\ written' = written + k /\ Fail("io")
  BY DEF StoreFails
<1>3. disk' \in [Paths -> Node]
  BY <1>2, OpenedType DEF IInv
<1>4. written' \in Nat /\ written' <= lim.total + 1
  BY <1>1, <1>2 DEF IInv, TypeOK, Accounting, Live, Running, Int64
<1> QED
  BY <1>2, <1>3, <1>4 DEF Fail, IInv, TypeOK, Accounting, Live, Running

\* The inductive invariant holds of an empty staging directory.
LEMMA InitIInv == Init => IInv
<1> SUFFICES ASSUME Init PROVE IInv
  OBVIOUS
<1>1. lim \in [total : 1 .. MaxInt, file : 1 .. MaxInt, entries : Nat \ {0}]
  BY ResolvedLimits DEF Init
<1>2. Absent \in Node
  BY DEF Node
<1> QED
  BY <1>1, <1>2, LimitsAssumption, ExtractionAssumption
     DEF Init, IInv, TypeOK, Accounting, Live, Running, Int64

\* Every action keeps the inductive invariant.
LEMMA NextIInv == IInv /\ [Next]_vars => IInv'
<1> SUFFICES ASSUME IInv, [Next]_vars PROVE IInv'
  OBVIOUS
<1>1. CASE UNCHANGED vars
  BY <1>1 DEF vars, IInv, TypeOK, Accounting, Live, Running, Is, Exceeds
<1>2. ASSUME NEW e \in Entry, ReadEntry(e) PROVE IInv'
  <2>1. entries' \in Nat
    <3>1. entries \in Nat /\ entries' = entries + 1
      BY <1>2 DEF ReadEntry, Counted, IInv, TypeOK
    <3> QED
      BY <3>1
  <2>2. hdr' \in Entry \cup {NoEntry} /\ status' \in {status, "limit"}
    BY <1>2 DEF ReadEntry, IInv, TypeOK
  <2>3. UNCHANGED <<route, lim, budget, layer, total, disk, written, wanted>>
    BY <1>2 DEF ReadEntry
  <2> QED
    BY <1>2, <2>1, <2>2, <2>3
       DEF ReadEntry, IInv, TypeOK, Accounting, Live, Running
<1>3. CASE StreamFails
  BY <1>3, RefuseStep DEF StreamFails
<1>4. CASE EndOfLayer
  <2>1. TypeOK'
    <3>1. budget' \in Int64 /\ total' \in Int64
      BY <1>4, Numbers DEF EndOfLayer, BudgetLeft, IInv, Accounting, Int64
    <3>2. layer' \in 1 .. Layers + 1
      <4>1. Layers \in Nat /\ layer \in 1 .. Layers + 1
        BY ExtractionAssumption DEF IInv, TypeOK
      <4> QED
        BY <1>4, <4>1 DEF EndOfLayer, IInv, Accounting
    <3>3. entries' \in Nat /\ status' \in {status, "done"}
      BY <1>4 DEF EndOfLayer
    <3>4. UNCHANGED <<route, lim, hdr, disk, written, wanted>>
      BY <1>4 DEF EndOfLayer
    <3> QED
      BY <3>1, <3>2, <3>3, <3>4 DEF IInv, TypeOK
  <2>2. Accounting'
    BY <1>4, ExtractionAssumption
       DEF EndOfLayer, BudgetLeft, IInv, TypeOK, Accounting, Live, Running, Int64
  <2> QED
    BY <2>1, <2>2 DEF IInv
<1>5. CASE EndOfDir
  BY <1>5 DEF EndOfDir, IInv, TypeOK, Accounting, Live, Running
<1>6. CASE SkipEntry
  BY <1>6 DEF SkipEntry, IInv, TypeOK, Accounting, Live, Running
<1>7. CASE RejectEntry
  BY <1>7, RefuseStep DEF RejectEntry
<1>8. CASE MakeDir
  <2> DEFINE p == hdr.target
             mode == clampMode(Perm(hdr.mode), TRUE)
  <2>1. CASE Refuse("conflict")
    BY <1>8, <2>1, RefuseStep DEF MakeDir
  <2>2. CASE Refuse("unusable directory")
    BY <1>8, <2>2, RefuseStep DEF MakeDir
  <2>3. CASE /\ disk' = MkdirAll(disk, Above[p] \cup {p}, mode)
             /\ wanted' = [MkdirAll(wanted, Above[p], mode) EXCEPT ![p] = Dir(mode)]
             /\ hdr' = NoEntry
             /\ UNCHANGED <<route, lim, budget, layer, entries, total, status, written>>
    <3>1. mode \in SUBSET PermBits
      BY ModeTypes
    <3>2. disk' \in [Paths -> Node]
      BY <2>3, <3>1, MkdirAllType DEF IInv, TypeOK
    <3>3. Dir(mode) \in Node
      BY <3>1 DEF Dir, Node
    <3>4. MkdirAll(wanted, Above[p], mode) \in [Paths -> Node]
      BY <3>1, MkdirAllType DEF IInv, TypeOK
    <3>5. wanted' \in [Paths -> Node]
      BY <2>3, <3>3, <3>4
    <3> QED
      BY <2>3, <3>2, <3>5 DEF IInv, TypeOK, Accounting, Live, Running
  <2> QED
    BY <1>8, <2>1, <2>2, <2>3 DEF MakeDir
<1>9. CASE WriteFile
  <2> DEFINE p == hdr.target
             n == CopyLen(hdr.size, Cap)
  <2>1. Running /\ hdr # NoEntry /\ p \in Paths /\ n \in Nat
    BY <1>9, CopyInBudget DEF WriteFile
  <2>2. FileMode \in SUBSET PermBits
    BY ModeTypes
  <2>3. CASE OpenError(p) # "none" /\ Refuse(OpenError(p))
    BY <2>1, <2>3, RefuseStep DEF OpenError
  <2>4. CASE written + n <= IOBound /\ StoreFile(p, FileMode, n)
    BY <2>1, <2>2, <2>4, StoreStep
  <2>5. CASE StoreFails(p, FileMode, n)
    BY <2>1, <2>2, <2>5, StoreFailsStep
  <2> QED
    BY <1>9, <2>3, <2>4, <2>5 DEF WriteFile
<1> QED
  BY <1>1, <1>2, <1>3, <1>4, <1>5, <1>6, <1>7, <1>8, <1>9 DEF Next

\* The inductive invariant: types, and the accounting of every byte written.
THEOREM AccountingHolds == Spec => []IInv
BY InitIInv, NextIInv, PTL DEF Spec

\* extractTar, extractLayers and CopyFiles keep every variable in its type,
\* the counters within int64.
THEOREM TypeCorrect == Spec => []TypeOK
BY AccountingHolds, PTL DEF IInv

\* No run of extraction puts more than the byte limit and one byte on disk.
THEOREM DiskBounded == Spec => []DiskBound
<1>1. IInv => DiskBound
  BY DEF IInv, Accounting, DiskBound
<1> QED
  BY <1>1, AccountingHolds, PTL

-----------------------------------------------------------------------------
(* What a tree that is about to be published is like *)

\* While nothing has failed, every file is within --max-file-bytes.
FilesInLimit == Live => \A p \in Paths : Is(p, "file") => disk[p].len <= lim.file

\* An empty staging directory has no over-large file.
LEMMA InitFiles == Init => FilesInLimit
BY DEF Init, FilesInLimit, Is, Absent

\* No action leaves an over-large file and carries on.
LEMMA NextFiles == IInv /\ FilesInLimit /\ [Next]_vars => FilesInLimit'
<1> SUFFICES ASSUME IInv, FilesInLimit, [Next]_vars PROVE FilesInLimit'
  OBVIOUS
<1>1. CASE UNCHANGED <<disk, lim, status>>
  BY <1>1 DEF FilesInLimit, Live, Is
<1>2. CASE Live' => UNCHANGED <<disk, lim>> /\ Live
  BY <1>2 DEF FilesInLimit, Is
<1>3. CASE MakeDir
  <2> DEFINE dirs == Above[hdr.target] \cup {hdr.target}
             mode == clampMode(Perm(hdr.mode), TRUE)
  <2>1. CASE Refuse("conflict") \/ Refuse("unusable directory")
    BY <2>1 DEF Refuse, Fail, FilesInLimit, Live
  <2>2. CASE disk' = MkdirAll(disk, dirs, mode) /\ UNCHANGED <<lim, status>>
    <3>1. \A q \in Paths : Is(q, "file")' => disk'[q] = disk[q]
      BY <2>2 DEF MkdirAll, Dir, Is
    <3> QED
      BY <2>2, <3>1 DEF FilesInLimit, Live, Is
  <2> QED
    BY <1>3, <2>1, <2>2 DEF MakeDir
<1>4. CASE WriteFile
  <2> DEFINE p == hdr.target
             n == CopyLen(hdr.size, Cap)
  <2>1. CASE Refuse(OpenError(p)) \/ StoreFails(p, FileMode, n)
    BY <2>1 DEF Refuse, StoreFails, Fail, OpenError, FilesInLimit, Live
  <2>2. CASE StoreFile(p, FileMode, n)
    <3>1. CASE Exceeds(n)
      BY <2>2, <3>1 DEF StoreFile, Fail, FilesInLimit, Live
    <3>2. CASE ~Exceeds(n)
      <4>1. n <= lim.file /\ lim' = lim /\ Live /\ p \in Paths
        BY <1>4, <2>2, <3>2, CopyInBudget, Numbers
           DEF WriteFile, StoreFile, Exceeds, Live, Running, IInv
      <4>2. disk' = Opened(p, FileMode, n)
        BY <2>2 DEF StoreFile
      <4> HIDE DEF n
      <4> QED
        BY <4>1, <4>2 DEF Opened, MkdirAll, Dir, File, FilesInLimit, Is
    <3> QED
      BY <3>1, <3>2
  <2> QED
    BY <1>4, <2>1, <2>2 DEF WriteFile
<1>5. CASE UNCHANGED vars
  BY <1>1, <1>5 DEF vars
<1>6. ASSUME NEW e \in Entry, ReadEntry(e) PROVE FilesInLimit'
  BY <1>2, <1>6 DEF ReadEntry, Live, Running
<1>7. CASE StreamFails \/ RejectEntry
  BY <1>2, <1>7 DEF StreamFails, RejectEntry, Refuse, Fail, Live, Running
<1>8. CASE EndOfLayer \/ EndOfDir \/ SkipEntry
  BY <1>2, <1>8 DEF EndOfLayer, EndOfDir, SkipEntry, Live, Running
<1> QED
  BY <1>3, <1>4, <1>5, <1>6, <1>7, <1>8 DEF Next

\* A tree about to be published is within both byte limits.
THEOREM WithinLimits == Spec => []PublishedWithinLimits
<1>1. Spec => [](IInv /\ FilesInLimit)
  BY InitIInv, NextIInv, InitFiles, NextFiles, PTL DEF Spec
<1>2. IInv /\ FilesInLimit => PublishedWithinLimits
  <2> SUFFICES ASSUME IInv, FilesInLimit, Done PROVE PublishedWithinLimits
    BY DEF PublishedWithinLimits
  <2>1. written <= lim.total
    BY Numbers DEF IInv, Accounting, Live, Done
  <2> QED
    BY <2>1 DEF PublishedWithinLimits, FilesInLimit, Live, Done
<1> QED
  BY <1>1, <1>2, PTL

-----------------------------------------------------------------------------
(* What the tree holds.  The reader's cap is one byte past what is allowed,*)
(* which must not be past the largest int64: with both byte limits there,  *)
(* the cap wraps and every file is written empty.                          *)

RepresentableCap == \A l \in Flags : l.file < MaxInt \/ l.total < MaxInt

\* While nothing has failed the tree is the one an image would have, up to
\* modes, and one of the two limits leaves room for the extra byte.
TreeAsWanted ==
    /\ lim.file < MaxInt \/ lim.total < MaxInt
    /\ Live => \A p \in Paths :
                 /\ disk[p].kind = wanted[p].kind
                 /\ Is(p, "file") => /\ disk[p].from = wanted[p].from
                                    /\ disk[p].len = wanted[p].len

\* An empty staging directory is what an image of no entries has.
LEMMA InitTree == ASSUME RepresentableCap PROVE Init => TreeAsWanted
<1> SUFFICES ASSUME Init PROVE TreeAsWanted
  OBVIOUS
<1>1. PICK l \in Flags : lim = withDefaults(l)
  BY DEF Init
<1>2. l.file < MaxInt \/ l.total < MaxInt
  BY DEF RepresentableCap
<1>3. l.file \in Int /\ l.total \in Int
  BY LimitsAssumption, ExtractionAssumption DEF Int64
<1>4. lim.file < MaxInt \/ lim.total < MaxInt
  BY <1>1, <1>2, <1>3, LimitsAssumption DEF withDefaults, OrDefault
<1> QED
  BY <1>4 DEF Init, TreeAsWanted, Is, Absent

\* Every action that carries on lays its entry as the image would.
LEMMA NextTree == IInv /\ TreeAsWanted /\ [Next]_vars => TreeAsWanted'
<1> SUFFICES ASSUME IInv, TreeAsWanted, [Next]_vars PROVE TreeAsWanted'
  OBVIOUS
<1>1. lim' = lim
  BY DEF Next, vars, ReadEntry, StreamFails, EndOfLayer, EndOfDir, SkipEntry,
         RejectEntry, MakeDir, WriteFile, StoreFile, StoreFails, Refuse, Fail
<1>2. CASE Live' => UNCHANGED <<disk, wanted>> /\ Live
  BY <1>1, <1>2 DEF TreeAsWanted, Is
<1>3. CASE MakeDir
  <2> DEFINE p == hdr.target
             mode == clampMode(Perm(hdr.mode), TRUE)
  <2>1. CASE Refuse("conflict") \/ Refuse("unusable directory")
    BY <1>2, <2>1 DEF Refuse, Fail, Live
  <2>2. CASE /\ \A d \in Above[p] \cup {p} : ~Is(d, "file")
             /\ disk' = MkdirAll(disk, Above[p] \cup {p}, mode)
             /\ wanted' = [MkdirAll(wanted, Above[p], mode) EXCEPT ![p] = Dir(mode)]
             /\ status' = status
    <3>1. Live /\ p \in Paths
      BY <1>3 DEF MakeDir, Live, Running
    <3>2. disk[p].kind \in {"absent", "dir"}
      <4>1. disk[p] \in Node /\ disk[p].kind # "file"
        BY <2>2, <3>1 DEF IInv, TypeOK, Is
      <4> QED
        BY <4>1 DEF Node, Absent
    <3>3. ASSUME NEW q \in Paths, q # p
          PROVE  /\ disk'[q] = (IF q \in Above[p] /\ disk[q].kind = "absent"
                                THEN Dir(mode) ELSE disk[q])
                 /\ wanted'[q] = (IF q \in Above[p] /\ wanted[q].kind = "absent"
                                  THEN Dir(mode) ELSE wanted[q])
      BY <2>2, <3>3 DEF MkdirAll
    <3>4. disk'[p].kind = "dir" /\ wanted'[p].kind = "dir"
      BY <2>2, <3>1, <3>2 DEF MkdirAll, Dir
    <3> QED
      BY <1>1, <3>1, <3>3, <3>4 DEF TreeAsWanted, Is, Dir
  <2> QED
    BY <1>3, <2>1, <2>2 DEF MakeDir
<1>4. CASE WriteFile
  <2> DEFINE p == hdr.target
             n == CopyLen(hdr.size, Cap)
  <2>1. CASE Refuse(OpenError(p)) \/ StoreFails(p, FileMode, n)
    BY <1>2, <2>1 DEF Refuse, StoreFails, Fail, OpenError, Live
  <2>2. CASE OpenError(p) = "none" /\ written + n <= IOBound /\ StoreFile(p, FileMode, n)
    <3>1. CASE Exceeds(n)
      BY <1>2, <2>2, <3>1 DEF StoreFile, Fail, Live
    <3>2. CASE ~Exceeds(n)
      <4>1. Live /\ p \in Paths /\ status' = status
        BY <1>4, <2>2, <3>2 DEF WriteFile, StoreFile, Live, Running
      <4>2. n = hdr.size
        <5> DEFINE a == AllowedBytes(lim.file, budget - total)
        <5>1. a \in 0 .. MaxInt - 1 /\ n \in Nat /\ hdr.size \in Nat
          BY <1>4, Numbers, CopyInBudget
             DEF WriteFile, AllowedBytes, TreeAsWanted, IInv, Accounting
        <5>2. Wrap(total + n) = total + n
          BY <1>4, <2>2, <5>1, Numbers, LimitsAssumption, ExtractionAssumption
             DEF Wrap, WriteFile, IInv, Accounting, Live, Running
        <5>3. n <= lim.file /\ total + n <= budget
          <6>1. n \in Int /\ lim.file \in Int /\ total \in Int /\ budget \in Int
            BY <5>1, Numbers DEF IInv
          <6>2. ~(n > lim.file) /\ ~(Wrap(total + n) > budget)
            BY <3>2 DEF Exceeds
          <6> HIDE DEF n
          <6> QED
            BY <5>2, <6>1, <6>2
        <5>4. n <= a
          <6>1. n \in Int /\ lim.file \in Int /\ total \in Int /\ budget \in Int
            BY <5>1, Numbers DEF IInv
          <6> HIDE DEF n
          <6> QED
            BY <5>3, <6>1 DEF AllowedBytes
        <5>5. n = CopyLen(hdr.size, ReadCap(a))
          BY DEF Cap
        <5> HIDE DEF a, n
        <5> QED
          BY <5>1, <5>4, <5>5, CopyWhole
      <4> HIDE DEF n
      <4>3. /\ disk' = Opened(p, FileMode, n)
            /\ wanted' = [MkdirAll(wanted, Above[p], DefaultDirMode) EXCEPT
                             ![p] = File(FileMode, EntryId, hdr.size)]
        BY <2>2, <3>2 DEF StoreFile
      <4>4. ASSUME NEW q \in Paths, q # p
            PROVE  /\ disk'[q] = (IF q \in Above[p] /\ disk[q].kind = "absent"
                                  THEN Dir(DefaultDirMode) ELSE disk[q])
                   /\ wanted'[q] = (IF q \in Above[p] /\ wanted[q].kind = "absent"
                                    THEN Dir(DefaultDirMode) ELSE wanted[q])
        BY <4>3, <4>4 DEF Opened, MkdirAll
      <4>5. /\ disk'[p].kind = "file" /\ wanted'[p].kind = "file"
            /\ disk'[p].from = wanted'[p].from
            /\ disk'[p].len = wanted'[p].len
        BY <4>1, <4>2, <4>3 DEF Opened, MkdirAll, File
      <4> QED
        BY <1>1, <4>1, <4>4, <4>5 DEF TreeAsWanted, Is, Dir
    <3> QED
      BY <3>1, <3>2
  <2> QED
    BY <1>4, <2>1, <2>2 DEF WriteFile
<1>5. CASE UNCHANGED vars
  BY <1>2, <1>5 DEF vars, Live, TreeAsWanted, Is
<1>6. ASSUME NEW e \in Entry, ReadEntry(e) PROVE TreeAsWanted'
  BY <1>2, <1>6 DEF ReadEntry, Live, Running
<1>7. CASE StreamFails \/ RejectEntry
  BY <1>2, <1>7 DEF StreamFails, RejectEntry, Refuse, Fail, Live
<1>8. CASE EndOfLayer \/ EndOfDir \/ SkipEntry
  BY <1>2, <1>8 DEF EndOfLayer, EndOfDir, SkipEntry, Live, Running
<1> QED
  BY <1>3, <1>4, <1>5, <1>6, <1>7, <1>8 DEF Next

\* A finished tree is what the entries say, if no cap wraps.
LEMMA TreeFollows ==
    ASSUME RepresentableCap
    PROVE  Spec => [](IInv /\ TreeAsWanted)
BY InitIInv, NextIInv, InitTree, NextTree, PTL DEF Spec

\* A finished tree holds, for every path, what the last entry for it brought
\* (extractLayers, extractTar, CopyFiles).
THEOREM TreeComplete ==
    ASSUME RepresentableCap
    PROVE  Spec => []LastEntryWins
<1>1. TreeAsWanted => LastEntryWins
  BY DEF TreeAsWanted, LastEntryWins, Live, Done
<1> QED
  BY <1>1, TreeFollows, PTL

\* ... and all of it: no body is cut at a limit without an error.
THEOREM BodiesWhole ==
    ASSUME RepresentableCap
    PROVE  Spec => []NothingTruncated
<1>1. TreeAsWanted => NothingTruncated
  BY DEF TreeAsWanted, NothingTruncated, Live, Done
<1> QED
  BY <1>1, TreeFollows, PTL

-----------------------------------------------------------------------------
(* Modes *)

\* What a node's mode must have and must not have.
Proper(node) ==
    /\ node.kind = "dir" => {"uw", "ux"} \subseteq node.mode
    /\ node.kind = "file" => "ur" \in node.mode
    /\ node.kind # "absent" => node.mode \cap {"gw", "ow", "setuid"} = {}

ProperModes == status # "unusable directory" /\ \A p \in Paths : Proper(disk[p])

\* The modes clampMode and os.Create give are proper ones.
LEMMA ProperNodes ==
    ASSUME NEW m, NEW from, NEW len
    PROVE  /\ Proper(Dir(clampMode(Perm(m), TRUE)))
           /\ Proper(Dir(DefaultDirMode))
           /\ Proper(File(FileMode, from, len))
           /\ Proper(Absent)
BY DEF Proper, Dir, File, Absent, clampMode, Perm, PermBits, FileMode, CreateMode,
       DefaultDirMode

\* A file laid over another keeps the proper mode that was there.
LEMMA ProperOpened ==
    ASSUME IInv, ProperModes, NEW p \in Paths, NEW n
    PROVE  \A q \in Paths : Proper(Opened(p, FileMode, n)[q])
<1>1. ASSUME NEW q \in Paths, q # p
      PROVE  Opened(p, FileMode, n)[q] \in {disk[q], Dir(DefaultDirMode)}
  BY <1>1 DEF Opened, MkdirAll
<1>2. Opened(p, FileMode, n)[p] =
          File(IF Is(p, "file") THEN disk[p].mode ELSE FileMode, EntryId, n)
  BY DEF Opened, MkdirAll
<1>3. Proper(Opened(p, FileMode, n)[p])
  <2>1. CASE Is(p, "file")
    <3>1. "ur" \in disk[p].mode /\ disk[p].mode \cap {"gw", "ow", "setuid"} = {}
      BY <2>1 DEF Is, Proper, ProperModes
    <3>2. Opened(p, FileMode, n)[p] = File(disk[p].mode, EntryId, n)
      BY <1>2, <2>1
    <3>3. Proper(File(disk[p].mode, EntryId, n))
      BY <3>1 DEF Proper, File
    <3> QED
      BY <3>2, <3>3
  <2>2. CASE ~Is(p, "file")
    BY <1>2, <2>2, ProperNodes
  <2> QED
    BY <2>1, <2>2
<1> QED
  BY <1>1, <1>3, ProperNodes DEF ProperModes

\* Every action leaves proper modes, and so no directory is in the way.
LEMMA NextModes == IInv /\ ProperModes /\ [Next]_vars => ProperModes'
<1> SUFFICES ASSUME IInv, ProperModes, [Next]_vars PROVE ProperModes'
  OBVIOUS
<1>1. CASE disk' = disk /\ status' # "unusable directory"
  BY <1>1 DEF ProperModes
<1>2. \A d \in Paths : Is(d, "dir") => Usable(d)
  BY DEF ProperModes, Proper, Is, Usable
<1>3. CASE MakeDir
  <2> DEFINE p == hdr.target
             mode == clampMode(Perm(hdr.mode), TRUE)
  <2>1. p \in Paths /\ Above[p] \subseteq Paths
    BY <1>3, ExtractionAssumption DEF MakeDir
  <2>2. CASE Refuse("conflict")
    BY <1>1, <2>2 DEF Refuse, Fail
  <2>3. CASE disk' = MkdirAll(disk, Above[p] \cup {p}, mode) /\ status' = status
    <3>1. \A q \in Paths : disk'[q] \in {disk[q], Dir(mode)}
      BY <2>3 DEF MkdirAll
    <3> QED
      BY <2>3, <3>1, ProperNodes DEF ProperModes
  <2> QED
    BY <1>2, <1>3, <2>1, <2>2, <2>3 DEF MakeDir
<1>4. CASE WriteFile
  <2> DEFINE p == hdr.target
             n == CopyLen(hdr.size, Cap)
  <2>1. p \in Paths /\ Above[p] \subseteq Paths /\ status = "running"
    BY <1>4, ExtractionAssumption DEF WriteFile, Running
  <2>2. CASE Refuse(OpenError(p))
    <3>1. OpenError(p) # "unusable directory"
      BY <1>2, <2>1 DEF OpenError
    <3> QED
      BY <1>1, <2>2, <3>1 DEF Refuse, Fail
  <2>3. CASE StoreFile(p, FileMode, n) \/ StoreFails(p, FileMode, n)
    <3>1. status' # "unusable directory"
      BY <2>1, <2>3 DEF StoreFile, StoreFails, Fail
    <3>2. \E k : disk' = Opened(p, FileMode, k)
      BY <2>3 DEF StoreFile, StoreFails
    <3> QED
      BY <2>1, <3>1, <3>2, ProperOpened DEF ProperModes
  <2> QED
    BY <1>4, <2>2, <2>3 DEF WriteFile
<1>5. CASE UNCHANGED vars
  BY <1>1, <1>5 DEF vars, ProperModes
<1>6. ASSUME NEW e \in Entry, ReadEntry(e) PROVE ProperModes'
  BY <1>1, <1>6 DEF ReadEntry, ProperModes
<1>7. CASE StreamFails \/ RejectEntry
  BY <1>1, <1>7 DEF StreamFails, RejectEntry, Refuse, Fail
<1>8. CASE EndOfLayer \/ EndOfDir \/ SkipEntry
  BY <1>1, <1>8 DEF EndOfLayer, EndOfDir, SkipEntry, ProperModes
<1> QED
  BY <1>3, <1>4, <1>5, <1>6, <1>7, <1>8 DEF Next

\* Whatever modes archives carry, none locks the extraction out of its own
\* directories nor reaches the tree unclamped (clampMode).
THEOREM ModesHarmless == Spec => []TreeStaysUsable
<1>1. Init => ProperModes
  BY ProperNodes DEF Init, ProperModes
<1>2. ProperModes => TreeStaysUsable
  BY DEF ProperModes, Proper, TreeStaysUsable, Is
<1> QED
  BY <1>1, <1>2, NextModes, AccountingHolds, PTL DEF Spec

=============================================================================
