------------------------------- MODULE Limits -------------------------------
(***************************************************************************)
(* The arithmetic behind the --max-* flags: how an unset limit is resolved *)
(* (unpack.go), what the download phase may fetch (pull.go), and how many  *)
(* bytes one io.Copy may put on disk (unpack.go).  Byte counts are Go      *)
(* int64s, so the sums that can leave the type wrap.                       *)
(***************************************************************************)
EXTENDS Integers, Sequences

CONSTANTS
    MaxInt,                \* the largest int64; small in a model
    DefaultMaxTotalBytes,
    DefaultMaxFileBytes,
    DefaultMaxEntries,
    DefaultMaxReferrers

ASSUME LimitsAssumption ==
    /\ MaxInt \in Nat \ {0}
    /\ {DefaultMaxTotalBytes, DefaultMaxFileBytes} \subseteq 1 .. (MaxInt - 1)
    /\ DefaultMaxEntries \in Nat \ {0}
    /\ DefaultMaxReferrers \in Nat \ {0}

Int64 == -(MaxInt + 1) .. MaxInt

\* Two's complement, for a sum of two int64s.
Wrap(x) == IF x > MaxInt THEN x - 2 * (MaxInt + 1)
           ELSE IF x < -(MaxInt + 1) THEN x + 2 * (MaxInt + 1)
           ELSE x

OrDefault(value, default) == IF value <= 0 THEN default ELSE value

\* A zero or negative flag means "not configured", never "unlimited".
withDefaults(l) ==
    [total   |-> OrDefault(l.total, DefaultMaxTotalBytes),
     file    |-> OrDefault(l.file, DefaultMaxFileBytes),
     entries |-> OrDefault(l.entries, DefaultMaxEntries)]

maxReferrers(n) == OrDefault(n, DefaultMaxReferrers)

-----------------------------------------------------------------------------
(* The download budget: declared sizes are reserved before a byte moves.   *)

newDownloadBudget(l) ==
    [maxFile |-> withDefaults(l).file, remaining |-> withDefaults(l).total]

Affordable(b, size) == size <= b.maxFile /\ size <= b.remaining

\* Mutation: what a blob used is not taken off what remains.
charge_NotKept(b, size) == b

\* A size is taken as it was declared: a negative one adds to what remains.
charge(b, size) == [b EXCEPT !.remaining = Wrap(@ - size)]

-----------------------------------------------------------------------------
(* The extraction budget: one byte more than whichever limit binds first   *)
(* is read, so that an over-large file is noticed without being written.   *)

AllowedBytes(fileLimit, remaining) ==
    IF remaining < fileLimit THEN remaining ELSE fileLimit

ReadCap(allowed) == Wrap(allowed + 1)

\* io.Copy from an io.LimitReader, which is at EOF when its cap is not positive.
CopyLen(size, cap) == IF cap <= 0 THEN 0 ELSE IF size < cap THEN size ELSE cap

=============================================================================
