----------------------------- MODULE Extraction -----------------------------
(***************************************************************************)
(* What populates the staging directory once Unpack has chosen a path:     *)
(* extractLayers/extractTar over the allowed layers, or CopyFiles over     *)
(* tmp/ (internal/unpacker/unpack.go).  The archives are the environment:  *)
(* they bring any entry, in any order, for as long as they like.           *)
(*                                                                         *)
(* The directory is a tree of paths with the metadata that decides whether *)
(* a later entry can be laid over an earlier one.  Contents are named by   *)
(* the entry they came from; `written' and `wanted' only observe.          *)
(***************************************************************************)
EXTENDS Limits, FiniteSets

CONSTANTS
    Paths,       \* the paths an entry may resolve to inside the directory
    Above,       \* Above[p]: the directories strictly between the root and p
    Sizes,       \* how many bytes an entry's body holds
    Modes,       \* the permission bits a header may carry
    Layers,      \* how many allowed layers the manifest lists
    Flags,       \* the --max-* values a user may pass
    IOBound,     \* bytes one run can physically write: far below 2^63
    Privileged   \* TRUE when the process bypasses file permissions (root)

ASSUME ExtractionAssumption ==
    /\ Above \in [Paths -> SUBSET Paths]
    /\ Sizes \subseteq Nat
    /\ Layers \in Nat \ {0}
    /\ Flags \subseteq [total : Int64, file : Int64, entries : Int]
    /\ IOBound \in Nat /\ IOBound < MaxInt
    /\ Privileged \in BOOLEAN

VARIABLES
    route,    \* "extract" or "copy": the path unpackInto took
    lim,      \* the limits, resolved once by unpackInto
    budget,   \* MaxTotalBytes as the current archive sees it
    layer,    \* the layer being extracted
    hdr,      \* the entry just read, or NoEntry
    entries,  \* entries counted in the current archive
    total,    \* bytes counted in the current archive
    disk,     \* the staging directory
    status,   \* "running", "done", or why it failed
    written,  \* ghost: bytes this extraction put on disk, overwritten ones too
    wanted    \* ghost: the tree an image made of the same entries would have

vars == <<route, lim, budget, layer, hdr, entries, total, disk, status,
          written, wanted>>

-----------------------------------------------------------------------------
(* Modes, paths and entries *)

PermBits == {"ur", "uw", "ux", "gw", "ow"}  \* what FileMode.Perm() keeps
HeaderBits == PermBits \cup {"setuid"}

\* Mutation: no floor under a directory's mode.
clampMode_NoDirFloor(mode, isDir) ==
    (mode \ {"gw", "ow"}) \cup (IF isDir THEN {} ELSE {"ur"})

clampMode(mode, isDir) ==
    (mode \ {"gw", "ow"}) \cup (IF isDir THEN {"ur", "uw", "ux"} ELSE {"ur"})

\* Mutation: the header's mode is taken with its setuid bit.
Perm_KeepsSetuid(mode) == mode

Perm(mode) == mode \cap PermBits

\* "root" is the entry that resolves to the directory itself ("./"),
\* "outside" one that would resolve out of it.
Targets == Paths \cup {"root", "outside"}
Kinds == {"dir", "reg", "global", "other"}
Entry == [kind : Kinds, target : Targets, size : Sizes, mode : Modes]

NoEntry == [kind |-> "none"]
Absent == [kind |-> "absent"]
Dir(mode) == [kind |-> "dir", mode |-> mode]
File(mode, from, len) ==
    [kind |-> "file", mode |-> mode, from |-> from, len |-> len]

EntryId == <<layer, entries>>

Is(p, kind) == disk[p].kind = kind
Usable(d) == Privileged \/ {"uw", "ux"} \subseteq disk[d].mode

\* os.MkdirAll: missing directories are created, existing ones left as they are.
MkdirAll(tree, dirs, mode) ==
    [p \in Paths |-> IF p \in dirs /\ tree[p].kind = "absent"
                     THEN Dir(mode) ELSE tree[p]]

DefaultDirMode == {"ur", "uw", "ux"}  \* 0755
CreateMode == {"ur", "uw"}            \* os.Create under the usual umask

-----------------------------------------------------------------------------
Running == status = "running"

Fail(why) ==
    /\ status' = why
    /\ hdr' = NoEntry
    /\ UNCHANGED <<route, lim, budget, layer, entries, total, wanted>>

Refuse(why) == Fail(why) /\ UNCHANGED <<disk, written>>

\* Mutation: entries that are skipped are not counted.
Counted_WrittenOnly(n, e) == IF e.target \in Paths THEN n + 1 ELSE n

\* Every entry counts, the ones that are later skipped included.
Counted(n, e) == n + 1

TooMany(n) == n > lim.entries

\* os.ReadDir names each file of tmp/ once; CopyFiles steps over directories,
\* which leaves no trace.
DirEntry(e) ==
    /\ e.kind = "reg"
    /\ e.target \in {p \in Paths : Above[p] = {} /\ Is(p, "absent")}

ReadEntry(e) ==
    /\ Running /\ hdr = NoEntry
    /\ route = "extract" \/ DirEntry(e)
    /\ entries' = Counted(entries, e)
    /\ IF TooMany(entries')
       THEN /\ status' = "limit"
            /\ UNCHANGED hdr
       ELSE /\ hdr' = e
            /\ UNCHANGED status
    /\ UNCHANGED <<route, lim, budget, layer, total, disk, written, wanted>>

\* A blob that is missing, does not decompress, or stops short.
StreamFails ==
    /\ Running /\ hdr = NoEntry
    /\ Refuse("stream")

\* Mutation: an exhausted budget reads as "not configured".
BudgetLeft_Redefaulted == OrDefault(budget - total, DefaultMaxTotalBytes)

\* The next layer gets what this one left of the byte budget.
BudgetLeft == budget - total

EndOfLayer ==
    /\ Running /\ hdr = NoEntry
    /\ route = "extract"
    /\ budget' = BudgetLeft
    /\ layer' = layer + 1
    /\ entries' = 0
    /\ total' = 0
    /\ status' = IF layer = Layers THEN "done" ELSE status
    /\ UNCHANGED <<route, lim, hdr, disk, written, wanted>>

EndOfDir ==
    /\ Running /\ hdr = NoEntry
    /\ route = "copy"
    /\ status' = "done"
    /\ UNCHANGED <<route, lim, budget, layer, hdr, entries, total, disk,
                   written, wanted>>

SkipEntry ==
    /\ Running /\ hdr # NoEntry
    /\ \/ hdr.target = "root"
       \/ hdr.target \in Paths /\ hdr.kind \in {"global", "other"}
    /\ hdr' = NoEntry
    /\ UNCHANGED <<route, lim, budget, layer, entries, total, disk, status,
                   written, wanted>>

RejectEntry ==
    /\ Running /\ hdr # NoEntry
    /\ hdr.target = "outside"
    /\ Refuse("path")

MakeDir ==
    /\ Running /\ hdr # NoEntry
    /\ hdr.kind = "dir" /\ hdr.target \in Paths
    /\ LET p == hdr.target
           mode == clampMode(Perm(hdr.mode), TRUE)
       IN  \/ /\ \E d \in Above[p] \cup {p} : Is(d, "file")
              /\ Refuse("conflict")
           \/ /\ \E d \in Above[p] : Is(d, "dir") /\ ~Usable(d)
              /\ Is(p, "absent")
              /\ Refuse("unusable directory")
           \/ /\ \A d \in Above[p] \cup {p} : ~Is(d, "file")
              /\ \A d \in Above[p] : Is(d, "dir") /\ Is(p, "absent") => Usable(d)
              /\ disk' = MkdirAll(disk, Above[p] \cup {p}, mode)
              /\ wanted' = [MkdirAll(wanted, Above[p], mode) EXCEPT ![p] = Dir(mode)]
              /\ hdr' = NoEntry
              /\ UNCHANGED <<route, lim, budget, layer, entries, total, status,
                             written>>

\* Why the file of the current entry cannot be opened.
OpenError(p) ==
    IF (\E d \in Above[p] : Is(d, "file")) \/ Is(p, "dir") THEN "conflict"
    ELSE IF \E d \in Above[p] : Is(d, "dir") /\ ~Usable(d)
         THEN "unusable directory"
    ELSE IF Is(p, "file") /\ "uw" \notin disk[p].mode /\ ~Privileged
         THEN "read-only file"
    ELSE "none"

\* Mutation: O_TRUNC forgotten, a longer earlier file keeps its tail.
Opened_NoTrunc(p, mode, n) ==
    [MkdirAll(disk, Above[p], DefaultDirMode) EXCEPT
        ![p] = IF Is(p, "file") /\ disk[p].len > n
               THEN [disk[p] EXCEPT !.from = EntryId]
               ELSE File(mode, EntryId, n)]

\* O_CREATE|O_TRUNC: an existing file keeps its mode and loses its contents.
Opened(p, mode, n) ==
    [MkdirAll(disk, Above[p], DefaultDirMode) EXCEPT
        ![p] = File(IF Is(p, "file") THEN disk[p].mode ELSE mode, EntryId, n)]

\* Mutation: the reader stops at the limit instead of one byte past it.
Cap_AtLimit == AllowedBytes(lim.file, budget - total)

Cap == ReadCap(AllowedBytes(lim.file, budget - total))

\* Mutation: only the total is checked after the copy.
Exceeds_TotalOnly(n) == Wrap(total + n) > budget

Exceeds(n) == n > lim.file \/ Wrap(total + n) > budget

\* The body of the current entry goes to disk, n bytes of it.
StoreFile(p, mode, n) ==
    /\ disk' = Opened(p, mode, n)
    /\ written' = written + n
    /\ IF Exceeds(n)
       THEN Fail("limit")
       ELSE /\ total' = Wrap(total + n)
            /\ wanted' = [MkdirAll(wanted, Above[p], DefaultDirMode) EXCEPT
                             ![p] = File(mode, EntryId, hdr.size)]
            /\ hdr' = NoEntry
            /\ UNCHANGED <<route, lim, budget, layer, entries, status>>

\* A write, Sync or Close that fails part of the way.
StoreFails(p, mode, n) ==
    \E k \in 0 .. n :
        /\ written + k <= IOBound
        /\ disk' = Opened(p, mode, k)
        /\ written' = written + k
        /\ Fail("io")

FileMode == IF route = "copy" THEN CreateMode
            ELSE clampMode(Perm(hdr.mode), FALSE)

WriteFile ==
    /\ Running /\ hdr # NoEntry
    /\ hdr.kind = "reg" /\ hdr.target \in Paths
    /\ LET p == hdr.target
           n == CopyLen(hdr.size, Cap)
       IN  \/ OpenError(p) # "none" /\ Refuse(OpenError(p))
           \/ /\ OpenError(p) = "none"
              /\ written + n <= IOBound
              /\ StoreFile(p, FileMode, n)
           \/ OpenError(p) = "none" /\ StoreFails(p, FileMode, n)

-----------------------------------------------------------------------------
Init ==
    /\ route \in {"extract", "copy"}
    /\ lim \in {withDefaults(l) : l \in Flags}
    /\ budget = lim.total
    /\ layer = 1
    /\ hdr = NoEntry
    /\ entries = 0
    /\ total = 0
    /\ disk = [p \in Paths |-> Absent]
    /\ status = "running"
    /\ written = 0
    /\ wanted = [p \in Paths |-> Absent]

Next ==
    \/ \E e \in Entry : ReadEntry(e)
    \/ StreamFails
    \/ EndOfLayer
    \/ EndOfDir
    \/ SkipEntry
    \/ RejectEntry
    \/ MakeDir
    \/ WriteFile

\* extractTar and CopyFiles are loops in one goroutine: they keep going.
Spec == Init /\ [][Next]_vars /\ WF_vars(Next)

-----------------------------------------------------------------------------
(* Properties *)

Done == status = "done"

Node == {Absent}
        \cup [kind : {"dir"}, mode : SUBSET PermBits]
        \cup [kind : {"file"}, mode : SUBSET PermBits, from : Nat \X Nat, len : Nat]

\* The types, the range of every counter, and what a finished run has counted.
TypeOK ==
    /\ route \in {"extract", "copy"}
    /\ lim \in [total : 1 .. MaxInt, file : 1 .. MaxInt, entries : Nat \ {0}]
    /\ budget \in Int64
    /\ layer \in 1 .. Layers + 1
    /\ hdr \in Entry \cup {NoEntry}
    /\ entries \in Nat
    /\ total \in Int64
    /\ disk \in [Paths -> Node]
    /\ wanted \in [Paths -> Node]
    /\ status \in {"running", "done", "limit", "stream", "path", "conflict",
                  "unusable directory", "read-only file", "io"}
    /\ written \in Nat

\* However many layers there are and however often a path is overwritten, one
\* extraction never puts more than --max-total-bytes and one byte on disk: the
\* byte budget is shared by the layers (extractLayers) and an over-large body
\* is cut one byte past the limit that binds (extractTar, CopyFiles).
DiskBound == written <= lim.total + 1

\* A tree that is about to be published came from at most --max-total-bytes,
\* and none of its files is over --max-file-bytes.
PublishedWithinLimits ==
    Done => /\ written <= lim.total
            /\ \A p \in Paths : Is(p, "file") => disk[p].len <= lim.file

\* A successful extraction holds every byte of every file it names: cutting a
\* body at a limit is always followed by an error, never by a short file.
NothingTruncated ==
    Done => \A p \in Paths : Is(p, "file") => disk[p].len = wanted[p].len

\* When extraction succeeds the tree has what the last entry for each path
\* brought, whichever layer it was in, whole and not mixed with an earlier
\* entry's bytes.
LastEntryWins ==
    Done => \A p \in Paths :
                /\ disk[p].kind = wanted[p].kind
                /\ Is(p, "file") => /\ disk[p].from = wanted[p].from
                                   /\ disk[p].len = wanted[p].len

\* No mode in an archive can make the rest of the extraction fail for want of
\* permission on a directory, nor leave in the tree a file its owner cannot
\* read, an entry others can write, or a setuid bit (clampMode, Perm).
TreeStaysUsable ==
    /\ status # "unusable directory"
    /\ \A p \in Paths :
          /\ Is(p, "file") => "ur" \in disk[p].mode
          /\ ~Is(p, "absent") => disk[p].mode \cap {"gw", "ow", "setuid"} = {}

\* Extraction ends, on an archive with no end too: --max-entries cuts it off.
Terminates == <>(status # "running")

=============================================================================
