---------------------------- MODULE Filing_proofs ----------------------------
(***************************************************************************)
(* The referrers a run files stay within the download limits, all of them  *)
(* together, for all listings, attachments and limits, as long as nothing  *)
(* that was listed declares a negative size.                               *)
(***************************************************************************)
EXTENDS Referrers_proofs

-----------------------------------------------------------------------------
(* The invariant *)

Lim == withDefaults(cfg.lim)

\* The first k sizes lead from one sum to another, within the limits.
SumTo(sizes, k, from, to, lim) ==
    /\ \A i \in 1 .. k : sizes[i] <= lim.file
    /\ \E t \in [0 .. k -> 0 .. lim.total] :
          Sums(t, sizes, k, lim.total) /\ t[0] = from /\ t[k] = to

\* All of a referrer does.
Link(r, from, to, lim) ==
    LET sizes == ReferrerSizes(r)
    IN  /\ \A k \in DOMAIN sizes : sizes[k] <= lim.file
        /\ \E t \in RunningTotals(sizes, lim.total) : t[0] = from /\ t[Len(sizes)] = to

\* What is filed, one referrer after the other, adds up to "end".
ChainTo(filed, end, lim) ==
    \E sum \in [0 .. Len(filed) -> 0 .. lim.total] :
        /\ sum[Len(filed)] = end
        /\ \A i \in DOMAIN filed : Link(filed[i], sum[i - 1], sum[i], lim)

\* Nothing that was listed declares a negative size.
Plain == \A e \in ToSet(mem.listing) : NoneNegative(ReferrerSizes(e))

\* The budget has paid for what is filed, and for the files of the one at hand.
Within ==
    /\ pc \in {"download", "payload"} => Capped
    /\ \E end \in 0 .. Lim.total : ChainTo(mem.referrers, end, Lim)
    /\ pc = "download" =>
          \E n \in 0 .. Lim.total :
              Spent(n) /\ \E end \in 0 .. n : ChainTo(mem.referrers, end, Lim)
    /\ pc = "payload" =>
          /\ Len(mem.files) <= Len(Payload(Current)) + 1
          /\ \E n \in 0 .. Lim.total :
                Spent(n) /\ \E end \in 0 .. Lim.total, to \in 0 .. n :
                    /\ ChainTo(mem.referrers, end, Lim)
                    /\ SumTo(ReferrerSizes(Current), Len(mem.files), end, to, Lim)

Bounded == Plain => Within

-----------------------------------------------------------------------------
(* Sums *)

LEMMA EmptyChain ==
    ASSUME NEW lim, lim.total \in Nat
    PROVE  ChainTo(<<>>, 0, lim)
<1> DEFINE sum == [i \in 0 .. 0 |-> 0]
<1>1. sum \in [0 .. 0 -> 0 .. lim.total] /\ sum[0] = 0
  OBVIOUS
<1> HIDE DEF sum
<1>q. QED
  BY <1>1 DEF ChainTo

LEMMA NoSum ==
    ASSUME NEW sizes, NEW lim, lim.total \in Nat, NEW from \in 0 .. lim.total
    PROVE  SumTo(sizes, 0, from, from, lim)
<1> DEFINE t == [i \in 0 .. 0 |-> from]
<1>1. t \in [0 .. 0 -> 0 .. lim.total] /\ t[0] = from
  OBVIOUS
<1> HIDE DEF t
<1>q. QED
  BY <1>1 DEF SumTo, Sums

LEMMA SumGoesOn ==
    ASSUME NEW sizes, NEW k \in Nat, NEW from, NEW to \in Nat, NEW lim, lim.total \in Nat,
           SumTo(sizes, k, from, to, lim),
           sizes[k + 1] \in Nat, sizes[k + 1] <= lim.file, to + sizes[k + 1] <= lim.total
    PROVE  SumTo(sizes, k + 1, from, to + sizes[k + 1], lim)
<1>1. PICK t : Sums(t, sizes, k, lim.total) /\ t[0] = from /\ t[k] = to
  BY DEF SumTo
<1>2. PICK limit : limit = lim.total
  OBVIOUS
<1>3. PICK size \in Nat : size = sizes[k + 1] /\ t[k] + size <= limit
  BY <1>1, <1>2
<1> DEFINE more == OneMore(t, size, k)
<1>m. Sums(more, sizes, k + 1, limit)
  <2>1. Sums(t, sizes, k, limit) /\ limit \in Nat /\ sizes[k + 1] = size /\ t[k] + size <= limit
    BY <1>1, <1>2, <1>3
  <2>q. QED
    BY <2>1, SumOneMore, Zenon
<1>n. more[0] = t[0] /\ more[k + 1] = t[k] + size
  BY DEF OneMore
<1> HIDE DEF more
<1>4. \A i \in 1 .. k + 1 : sizes[i] <= lim.file
  <2>1. \A i \in 1 .. k + 1 : i \in 1 .. k \/ i = k + 1
    OBVIOUS
  <2>q. QED
    BY <2>1 DEF SumTo
<1>5. more \in [0 .. k + 1 -> 0 .. lim.total]
  BY <1>2, <1>m DEF Sums
<1>q. QED
  BY <1>1, <1>2, <1>3, <1>m, <1>n, <1>4, <1>5 DEF SumTo

\* The sizes of a referrer: its manifest's, then its payload's.
LEMMA ReferrerSizesAre ==
    ASSUME NEW e, e.of \in Referrer
    PROVE  LET sizes == ReferrerSizes(e)
               n == Len(Payload(e))
           IN  /\ n \in Nat /\ Len(sizes) = n + 1 /\ DOMAIN sizes = 1 .. n + 1
               /\ sizes[1] = Attached[e.of].size
               /\ \A k \in 1 .. n : sizes[k + 1] = Payload(e)[k].size
               /\ NoneNegative(sizes) => \A k \in 1 .. n + 1 : sizes[k] \in Nat
<1> DEFINE p == Payload(e)
           n == Len(p)
<1>0. Int64 \subseteq Int
  BY LimitsAssumption DEF Int64
<1>1. p \in Seq(ToSet(p)) /\ \A l \in ToSet(p) : l.size \in Int
  BY <1>0, WorkspaceAssumption, EmptyList DEF Payload, IsSeq
<1>2. Attached[e.of].size \in Int
  BY <1>0, WorkspaceAssumption
<1> HIDE DEF p
<1>3. n \in Nat /\ DOMAIN p = 1 .. n /\ \A k \in 1 .. n : p[k].size \in Int
  BY <1>1
<1>4. [i \in 1 .. n |-> p[i].size] \in Seq(Int)
  BY <1>3
<1>5. Sizes(p) \in Seq(Int) /\ Len(Sizes(p)) = n /\ \A k \in 1 .. n : Sizes(p)[k] = p[k].size
  BY <1>3, <1>4 DEF Sizes
<1>6. PICK s, size : s = Sizes(p) /\ size = Attached[e.of].size
  OBVIOUS
<1> DEFINE all == <<size>> \o s
<1>7. /\ all \in Seq(Int) /\ Len(all) = n + 1 /\ all[1] = size
      /\ \A k \in 1 .. n : all[k + 1] = s[k]
  BY <1>2, <1>3, <1>5, <1>6
<1>8. DOMAIN all = 1 .. n + 1 /\ \A k \in 1 .. n + 1 : all[k] \in Int
  BY <1>7
<1>9. ReferrerSizes(e) = all
  BY <1>6 DEF ReferrerSizes, p
<1> HIDE DEF all
<1>10. NoneNegative(all) => \A k \in 1 .. n + 1 : all[k] \in Nat
  BY <1>8 DEF NoneNegative
<1>q. QED
  BY <1>2, <1>3, <1>5, <1>6, <1>7, <1>8, <1>9, <1>10 DEF p

LEMMA SumIsLink ==
    ASSUME NEW e, e.of \in Referrer, NEW from, NEW to, NEW lim,
           SumTo(ReferrerSizes(e), Len(Payload(e)) + 1, from, to, lim)
    PROVE  Link(e, from, to, lim)
<1>1. PICK sizes, n : sizes = ReferrerSizes(e) /\ n = Len(Payload(e)) + 1
  OBVIOUS
<1>2. Len(sizes) = n /\ DOMAIN sizes = 1 .. n
  BY <1>1, ReferrerSizesAre
<1>3. SumTo(sizes, n, from, to, lim)
  BY <1>1
<1>4. PICK t \in [0 .. n -> 0 .. lim.total] :
          (\A i \in 1 .. n : t[i] = t[i - 1] + sizes[i]) /\ t[0] = from /\ t[n] = to
  BY <1>3 DEF SumTo, Sums
<1>5. t \in RunningTotals(sizes, lim.total)
  BY <1>2, <1>4 DEF RunningTotals
<1>q. QED
  BY <1>1, <1>2, <1>3, <1>4, <1>5 DEF Link, SumTo

LEMMA ChainGoesOn ==
    ASSUME NEW filed, IsSeq(filed), NEW lim, lim.total \in Nat, NEW end, ChainTo(filed, end, lim),
           NEW r, NEW to \in 0 .. lim.total, Link(r, end, to, lim)
    PROVE  ChainTo(Append(filed, r), to, lim)
<1> DEFINE n == Len(filed)
           more == Append(filed, r)
<1>1. PICK sum \in [0 .. n -> 0 .. lim.total] :
          sum[n] = end /\ \A i \in DOMAIN filed : Link(filed[i], sum[i - 1], sum[i], lim)
  BY DEF ChainTo
<1>2. /\ n \in Nat /\ DOMAIN filed = 1 .. n
      /\ Len(more) = n + 1 /\ DOMAIN more = 1 .. n + 1
      /\ more[n + 1] = r /\ \A i \in 1 .. n : more[i] = filed[i]
  <2>1. PICK S : filed \in Seq(S) /\ r \in S
    <3>1. filed \in Seq(ToSet(filed) \cup {r})
      BY DEF IsSeq
    <3>q. QED
      BY <3>1
  <2>2. Append(filed, r) \in Seq(S)
    BY <2>1
  <2>q. QED
    BY <2>1, <2>2
<1> HIDE DEF n, more
<1> DEFINE sums == [i \in 0 .. n + 1 |-> IF i = n + 1 THEN to ELSE sum[i]]
<1>3. sums[n + 1] = to /\ \A i \in 0 .. n : sums[i] = sum[i]
  BY <1>2
<1>4. sums \in [0 .. n + 1 -> 0 .. lim.total]
  <2>1. \A i \in 0 .. n + 1 : i = n + 1 \/ i \in 0 .. n
    BY <1>2
  <2>q. QED
    BY <1>1, <1>3, <2>1
<1> HIDE DEF sums
<1>5. ASSUME NEW i \in 1 .. n + 1 PROVE Link(more[i], sums[i - 1], sums[i], lim)
  <2>1. CASE i = n + 1
    <3>1. i - 1 = n /\ n \in 0 .. n
      BY <1>2, <2>1
    <3>2. sums[i - 1] = end /\ sums[i] = to /\ more[i] = r
      BY <1>1, <1>2, <1>3, <2>1, <3>1
    <3>q. QED
      BY <3>2
  <2>2. CASE i # n + 1
    <3>1. i \in 1 .. n /\ i \in 0 .. n /\ i - 1 \in 0 .. n
      BY <1>2, <2>2
    <3>2. sums[i - 1] = sum[i - 1] /\ sums[i] = sum[i] /\ more[i] = filed[i]
      BY <1>2, <1>3, <3>1
    <3>3. Link(filed[i], sum[i - 1], sum[i], lim)
      BY <1>1, <1>2, <3>1
    <3>q. QED
      BY <3>2, <3>3
  <2>q. QED
    BY <2>1, <2>2
<1>6. ChainTo(more, to, lim)
  BY <1>2, <1>3, <1>4, <1>5 DEF ChainTo
<1>q. QED
  BY <1>6 DEF more

LEMMA TotalsNatural == \A c \in Configs : withDefaults(c.lim).total \in Nat
<1>1. /\ Int64 \subseteq Int
      /\ DefaultMaxTotalBytes \in Nat
  BY LimitsAssumption DEF Int64
<1>2. \A v \in Int, d \in Nat : OrDefault(v, d) \in Nat
  BY DEF OrDefault
<1>q. QED
  BY <1>1, <1>2, RunAssumption DEF withDefaults

LEMMA LimNatural ==
    ASSUME Typed
    PROVE  EnvTyped /\ Lim.total \in Nat
BY TotalsNatural DEF Typed, EnvTyped, Lim

\* A size that is affordable is paid for, and within the limits.
LEMMA Spending ==
    ASSUME Typed, Capped, NEW n \in 0 .. Lim.total, Spent(n), NEW size \in Nat,
           Affordable(mem.budget, size), mem'.budget = charge(mem.budget, size), cfg' = cfg
    PROVE  n + size \in 0 .. Lim.total /\ size <= Lim.file /\ Spent(n + size)' /\ Capped'
<1>1. n \in Nat /\ EnvTyped /\ Lim.total \in Nat
  BY LimNatural
<1>2. /\ n + size <= Lim.total
      /\ Wrap(mem.budget.remaining - size) = Lim.total - (n + size)
  BY <1>1, Charged DEF Lim
<1>3. PICK left : mem.budget = [maxFile |-> Lim.file, remaining |-> left]
  BY DEF Capped, Lim
<1>4. PICK left2 : left2 = Wrap(mem.budget.remaining - size)
  OBVIOUS
<1>5. size <= Lim.file /\ mem'.budget = [maxFile |-> Lim.file, remaining |-> left2]
  BY <1>3, <1>4 DEF Affordable, charge
<1>6. Capped'
  BY <1>5 DEF Capped, Lim
<1>7. Spent(n + size)'
  BY <1>2, <1>4, <1>5 DEF Spent, Lim
<1>q. QED
  BY <1>1, <1>2, <1>5, <1>6, <1>7

-----------------------------------------------------------------------------
(* One step at a time *)

LEMMA NothingFiled ==
    ASSUME NEW c \in Configs
    PROVE  \E end \in 0 .. withDefaults(c.lim).total : ChainTo(<<>>, end, withDefaults(c.lim))
<1>1. PICK lim : lim = withDefaults(c.lim)
  OBVIOUS
<1>2. lim.total \in Nat
  BY <1>1, TotalsNatural
<1>3. ChainTo(<<>>, 0, lim) /\ 0 \in 0 .. lim.total
  BY <1>2, EmptyChain
<1>q. QED
  BY <1>1, <1>3

\* The entry at hand is one of the listing's.
LEMMA AtHand ==
    ASSUME Typed, Gate, Downloading \/ pc = "payload"
    PROVE  /\ Current \in ToSet(mem.listing)
           /\ Current.of \in Referrer /\ IsSeq(mem.referrers)
           /\ pc = "payload" => IsSeq(mem.files) /\ Len(mem.files) \in Nat \ {0}
<1>1. /\ mem.listing \in Listings /\ mem.next \in Nat \ {0} /\ IsSeq(mem.referrers)
      /\ mem.next <= Len(mem.listing)
  BY DEF Gate, Downloading
<1>2. Current \in ToSet(mem.listing)
  BY <1>1, PayloadsAre DEF Current, IsSeq, ToSet
<1>3. pc = "payload" => IsSeq(mem.files) /\ mem.files # <<>>
  BY DEF Gate
<1>4. pc = "payload" => Len(mem.files) \in Nat \ {0}
  BY <1>3 DEF IsSeq
<1>q. QED
  BY <1>1, <1>2, <1>3, <1>4, PayloadsAre

LEMMA BoundedStep ==
    ASSUME Typed, Typed', Gate, Bounded, [Next]_vars
    PROVE  Bounded'
<1>d. DOMAIN mem = DOMAIN FreshMemory
  BY DEF Typed, MemTyped
<1>t. Lim.total \in Nat
  BY LimNatural
\* Nothing more is filed.
<1>k. ASSUME pc' \notin {"download", "payload"}, mem'.referrers = mem.referrers,
             mem'.listing = mem.listing, cfg' = cfg
      PROVE  Bounded'
  BY <1>k DEF Bounded, Within, Plain, Lim
<1>e. ASSUME pc' \notin {"download", "payload"}, mem'.referrers = <<>> PROVE Bounded'
  <2>1. (\E end \in 0 .. Lim.total : ChainTo(mem.referrers, end, Lim))'
    BY <1>e, NothingFiled DEF Typed, EnvTyped, Lim
  <2>q. QED
    BY <1>e, <2>1 DEF Bounded, Within
<1>f. ASSUME mem' = FreshMemory, pc' \in {"idle", "oras"} PROVE Bounded'
  BY <1>e, <1>f DEF FreshMemory
<1>1. CASE PullStep
  BY <1>1, <1>k, PullQuiet DEF BeforeListing
<1>2. CASE ReferrersStep
  <2>c. cfg' = cfg /\ Lim' = Lim
    BY <1>2 DEF ReferrersStep, ReferrersNetwork, ReferrersLocal, Query, RejectReferrer,
       SkipReferrer, OpenReferrer, FetchPayload, FileReferrer, Downloaded, RecordLanded,
       WriteListing, ReferrersFrame, Lim
  <2>r. ASSUME NEW err, ReferrerFails(err) PROVE Bounded'
    BY <1>d, <1>k, <2>c, <2>r DEF ReferrerFails, FreshMemory
  <2>f. ASSUME NEW err, FetchFails(err) PROVE Bounded'
    BY <1>d, <1>e, <2>f DEF FetchFails, FreshMemory
  <2>1. CASE Query
    <3>1. CASE pc' = "list" /\ mem' = mem
      BY <1>k, <2>c, <3>1
    <3>2. CASE pc' = "download" /\ mem'.budget = newDownloadBudget(cfg.lim) /\ mem'.referrers = mem.referrers
      <4>1. mem.referrers = <<>>
        BY <2>1 DEF Query, Gate, BeforeListing
      <4>2. Spent(0)' /\ Capped'
        <5>1. mem'.budget = [maxFile |-> Lim.file, remaining |-> Lim.total]
          BY <3>2 DEF newDownloadBudget, Lim
        <5>2. Capped'
          BY <2>c, <5>1 DEF Capped, Lim
        <5>q. QED
          BY <1>t, <2>c, <5>1, <5>2 DEF Spent, Lim
      <4>3. PICK lim : lim = Lim
        OBVIOUS
      <4>4. ChainTo(<<>>, 0, lim) /\ 0 \in 0 .. lim.total /\ 0 \in 0 .. 0
        BY <1>t, <4>3, EmptyChain
      <4>q. QED
        BY <2>c, <3>2, <4>1, <4>2, <4>3, <4>4 DEF Bounded, Within
    <3>q. QED
      BY <1>d, <2>1, <2>f, <3>1, <3>2 DEF Query, FreshMemory
  <2>2. CASE RejectReferrer
    BY <2>2, <2>r DEF RejectReferrer
  <2>p. ASSUME Downloading \/ pc = "payload"
        PROVE  LET sizes == ReferrerSizes(Current)
                   n == Len(Payload(Current))
               IN  /\ n \in Nat
                   /\ sizes[1] = Attached[Current.of].size
                   /\ \A k \in 1 .. n : sizes[k + 1] = Payload(Current)[k].size
                   /\ Plain => \A k \in 1 .. n + 1 : sizes[k] \in Nat
    BY <2>p, AtHand, ReferrerSizesAre DEF Plain
  <2>i. \A e \in Referrer : Attached[e].size \in Int
    BY WorkspaceAssumption, LimitsAssumption DEF Int64
  <2>s. ASSUME mem'.listing = mem.listing, Plain => Within' PROVE Bounded'
    BY <2>s DEF Bounded, Plain
  <2>3. CASE SkipReferrer
    <3> SUFFICES ASSUME Plain, Within PROVE Within'
      BY <1>d, <2>3, <2>s DEF SkipReferrer, FreshMemory, Bounded
    <3>1. /\ Downloading /\ pc = "download" /\ pc' = "download" /\ mem'.referrers = mem.referrers
          /\ Capped
          /\ Affordable(mem.budget, Attached[Current.of].size)
          /\ mem'.budget = charge(mem.budget, Attached[Current.of].size)
      BY <1>d, <2>3 DEF SkipReferrer, Fetchable, Downloading, FreshMemory, Within
    <3>2. PICK n \in 0 .. Lim.total :
              Spent(n) /\ \E end \in 0 .. n : ChainTo(mem.referrers, end, Lim)
      BY <3>1 DEF Within
    <3>3. PICK size : size = Attached[Current.of].size
      OBVIOUS
    <3>4. size \in Nat
      BY <2>i, <2>3, <3>1, <3>3, AtHand DEF SkipReferrer, Fetchable
    <3>5. n + size \in 0 .. Lim.total /\ Spent(n + size)' /\ Capped'
      BY <2>c, <3>1, <3>2, <3>3, <3>4, Spending
    <3>6. PICK end \in 0 .. n : ChainTo(mem.referrers, end, Lim)
      BY <3>2
    <3>7. end \in 0 .. n + size /\ end \in 0 .. Lim.total
      BY <1>t, <3>4
    <3>8. ChainTo(mem.referrers, end, Lim)'
      BY <2>c, <3>1, <3>6
    <3>q. QED
      BY <2>c, <3>1, <3>5, <3>7, <3>8 DEF Within
  <2>4. CASE OpenReferrer
    <3>1. CASE /\ pc' = "payload" /\ mem' = [mem EXCEPT !.files = <<ManifestName>>,
                                                        !.budget = charge(@, Attached[Current.of].size)]
      <4> SUFFICES ASSUME Plain, Within PROVE Within'
        BY <1>d, <2>s, <3>1 DEF FreshMemory, Bounded
      <4>1. /\ Downloading /\ pc = "download" /\ mem'.referrers = mem.referrers /\ Capped
            /\ mem'.files = <<ManifestName>> /\ Current' = Current
            /\ Affordable(mem.budget, Attached[Current.of].size)
            /\ mem'.budget = charge(mem.budget, Attached[Current.of].size)
        BY <1>d, <2>4, <3>1 DEF OpenReferrer, Fetchable, Downloading, FreshMemory, Current, Within
      <4>2. PICK n \in 0 .. Lim.total :
                Spent(n) /\ \E end \in 0 .. n : ChainTo(mem.referrers, end, Lim)
        BY <4>1 DEF Within
      <4>3. PICK end \in 0 .. n : ChainTo(mem.referrers, end, Lim)
        BY <4>2
      <4>4. PICK sizes, size, lim : sizes = ReferrerSizes(Current) /\ lim = Lim
                                    /\ size = Attached[Current.of].size
        OBVIOUS
      <4>5. size \in Nat /\ sizes[1] = size /\ Len(Payload(Current)) \in Nat
        BY <2>i, <2>p, <2>4, <4>1, <4>4, AtHand DEF OpenReferrer, Fetchable
      <4>6. n + size \in 0 .. lim.total /\ size <= lim.file /\ Spent(n + size)' /\ Capped'
        BY <2>c, <4>1, <4>2, <4>4, <4>5, Spending
      <4>7. /\ end \in 0 .. lim.total /\ end \in Nat /\ lim.total \in Nat
            /\ end + size \in 0 .. n + size /\ end + size <= lim.total
        BY <1>t, <4>4, <4>5, <4>6
      <4>8. SumTo(sizes, 0, end, end, lim)
        BY <4>7, NoSum
      <4>9. SumTo(sizes, 1, end, end + size, lim)
        <5>1. SumTo(sizes, 0 + 1, end, end + sizes[0 + 1], lim)
          BY <4>5, <4>6, <4>7, <4>8, SumGoesOn
        <5>q. QED
          BY <4>5, <5>1
      <4>10. Len(mem'.files) = 1
        BY <4>1
      <4>11. /\ ChainTo(mem.referrers, end, Lim)'
             /\ SumTo(ReferrerSizes(Current), Len(mem.files), end, end + size, Lim)'
             /\ Len(mem'.files) <= Len(Payload(Current))' + 1
             /\ Lim' = lim
        <5>1. ReferrerSizes(Current)' = sizes /\ Payload(Current)' = Payload(Current)
          BY <4>1, <4>4
        <5>q. QED
          BY <2>c, <4>1, <4>3, <4>4, <4>5, <4>9, <4>10, <5>1
      <4>q. QED
        BY <3>1, <4>6, <4>7, <4>11 DEF Within
    <3>q. QED
      BY <2>4, <2>r, <3>1 DEF OpenReferrer
  <2>5. CASE FetchPayload
    <3>1. CASE /\ pc' = pc /\ Affordable(mem.budget, NextPayload.size)
               /\ mem' = [mem EXCEPT !.files = Append(@, FileName(NextPayload)),
                                     !.budget = charge(@, NextPayload.size)]
      <4> SUFFICES ASSUME Plain, Within PROVE Within'
        BY <1>d, <2>s, <3>1 DEF FreshMemory, Bounded
      <4>1. /\ pc = "payload" /\ mem'.referrers = mem.referrers /\ Current' = Current /\ Capped
            /\ mem'.files = Append(mem.files, FileName(NextPayload))
            /\ mem'.budget = charge(mem.budget, NextPayload.size)
            /\ Len(mem.files) <= Len(Payload(Current))
        BY <1>d, <2>5, <3>1 DEF FetchPayload, PayloadLeft, FreshMemory, Current, Within
      <4>2. PICK n \in 0 .. Lim.total :
                Spent(n) /\ \E end \in 0 .. Lim.total, to \in 0 .. n :
                    /\ ChainTo(mem.referrers, end, Lim)
                    /\ SumTo(ReferrerSizes(Current), Len(mem.files), end, to, Lim)
        BY <4>1 DEF Within
      <4>3. PICK end \in 0 .. Lim.total, to \in 0 .. n :
                /\ ChainTo(mem.referrers, end, Lim)
                /\ SumTo(ReferrerSizes(Current), Len(mem.files), end, to, Lim)
        BY <4>2
      <4>4. PICK sizes, size, lim, k : sizes = ReferrerSizes(Current) /\ lim = Lim
                                       /\ size = NextPayload.size /\ k = Len(mem.files)
        OBVIOUS
      <4>5. /\ k \in Nat \ {0} /\ Len(mem'.files) = k + 1 /\ k <= Len(Payload(Current))
            /\ Len(Payload(Current)) \in Nat
        BY <2>p, <4>1, <4>4, AtHand DEF IsSeq
      <4>6. size \in Nat /\ sizes[k + 1] = size
        <5>1. k \in 1 .. Len(Payload(Current)) /\ k + 1 \in 1 .. Len(Payload(Current)) + 1
          BY <4>5
        <5>q. QED
          BY <2>p, <4>1, <4>4, <5>1 DEF NextPayload
      <4>7. n + size \in 0 .. lim.total /\ size <= lim.file /\ Spent(n + size)' /\ Capped'
        BY <2>c, <3>1, <4>1, <4>2, <4>4, <4>6, Spending
      <4>8. /\ to \in Nat /\ lim.total \in Nat
            /\ to + size \in 0 .. n + size /\ to + size <= lim.total
        BY <1>t, <4>4, <4>6, <4>7
      <4>9. SumTo(sizes, k + 1, end, to + size, lim)
        <5>1. SumTo(sizes, k, end, to, lim)
          BY <4>3, <4>4
        <5>2. SumTo(sizes, k + 1, end, to + sizes[k + 1], lim)
          BY <4>5, <4>6, <4>7, <4>8, <5>1, SumGoesOn
        <5>q. QED
          BY <4>6, <5>2
      <4>10. /\ ChainTo(mem.referrers, end, Lim)'
             /\ SumTo(ReferrerSizes(Current), Len(mem.files), end, to + size, Lim)'
             /\ Len(mem'.files) <= Len(Payload(Current))' + 1
             /\ Lim' = lim /\ end \in 0 .. lim.total
        <5>1. ReferrerSizes(Current)' = sizes /\ Payload(Current)' = Payload(Current)
          BY <4>1, <4>4
        <5>q. QED
          BY <2>c, <4>1, <4>3, <4>4, <4>5, <4>9, <5>1
      <4>q. QED
        BY <3>1, <4>1, <4>7, <4>8, <4>10 DEF Within
    <3>q. QED
      BY <2>5, <2>r, <3>1 DEF FetchPayload
  <2>6. CASE FileReferrer
    <3> SUFFICES ASSUME Plain, Within PROVE Within'
      BY <1>d, <2>6, <2>s DEF FileReferrer, FreshMemory, Bounded
    <3>1. /\ pc = "payload" /\ pc' = "download" /\ Capped /\ Len(mem.files) > Len(Payload(Current))
          /\ mem'.referrers = Append(mem.referrers, Opened) /\ mem'.budget = mem.budget
      BY <1>d, <2>6 DEF FileReferrer, FreshMemory, Within
    <3>2. PICK n \in 0 .. Lim.total :
              Spent(n) /\ \E end \in 0 .. Lim.total, to \in 0 .. n :
                  /\ ChainTo(mem.referrers, end, Lim)
                  /\ SumTo(ReferrerSizes(Current), Len(mem.files), end, to, Lim)
      BY <3>1 DEF Within
    <3>3. PICK end \in 0 .. Lim.total, to \in 0 .. n :
              /\ ChainTo(mem.referrers, end, Lim)
              /\ SumTo(ReferrerSizes(Current), Len(mem.files), end, to, Lim)
      BY <3>2
    <3>4. Len(mem.files) = Len(Payload(Current)) + 1
      <4>1. /\ Len(mem.files) <= Len(Payload(Current)) + 1
            /\ Len(mem.files) \in Nat /\ Len(Payload(Current)) \in Nat
        BY <2>p, <3>1, AtHand DEF Within
      <4>q. QED
        BY <3>1, <4>1
    <3>5. PICK r, e, lim, filed : r = Opened /\ e = Current /\ lim = Lim /\ filed = mem.referrers
      OBVIOUS
    <3>6. Link(e, end, to, lim)
      BY <3>1, <3>3, <3>4, <3>5, AtHand, SumIsLink
    <3>7. Link(r, end, to, lim)
      <4>1. r.of = e.of
        BY <3>5 DEF Opened
      <4>2. ReferrerSizes(r) = ReferrerSizes(e)
        BY <4>1 DEF ReferrerSizes, Payload
      <4>q. QED
        BY <3>6, <4>2 DEF Link
    <3>8. IsSeq(filed) /\ ChainTo(filed, end, lim) /\ lim.total \in Nat /\ to \in 0 .. lim.total
      BY <1>t, <3>1, <3>3, <3>5, AtHand
    <3>9. ChainTo(Append(filed, r), to, lim)
      BY <3>7, <3>8, ChainGoesOn
    <3>10. ChainTo(mem.referrers, to, Lim)' /\ Spent(n)' /\ Capped' /\ Lim' = lim
      BY <2>c, <3>1, <3>2, <3>5, <3>9 DEF Spent, Capped
    <3>q. QED
      BY <3>1, <3>5, <3>8, <3>10 DEF Within
  <2>7. CASE Downloaded
    BY <1>k, <2>7, <2>c DEF Downloaded
  <2>8. CASE RecordLanded
    BY <2>8, <2>f DEF RecordLanded
  <2>9. CASE WriteListing
    BY <1>k, <2>9, <2>c, <2>f DEF WriteListing
  <2>q. QED
    BY <1>2, <2>1, <2>2, <2>3, <2>4, <2>5, <2>6, <2>7, <2>8, <2>9
       DEF ReferrersStep, ReferrersNetwork, ReferrersLocal
<1>3. CASE VerifyStep
  BY <1>3, <1>f, <1>k, VerifyQuiet DEF Untouched, SameQuestion
<1>4. CASE UnpackNext
  BY <1>4, <1>f, <1>k, UnpackQuiet DEF UnpackStages, SameQuestion
<1>5. CASE AfterPull
  <2>1. /\ cfg' = cfg
        /\ \/ mem' = mem /\ pc' \in {"query", "verify", "clear"}
           \/ mem' = FreshMemory /\ pc' = "idle"
    BY <1>5 DEF AfterPull, Exits
  <2>q. QED
    BY <1>f, <1>k, <2>1
<1>6. CASE WriteFailure \/ Start \/ StartRefused \/ Crash
  BY <1>6, <1>f, Afresh
<1>7. CASE TagMoves \/ UNCHANGED vars
  <2>1. UNCHANGED <<pc, cfg, mem>>
    BY <1>7, Standstill
  <2>2. Lim' = Lim /\ Current' = Current /\ Capped' = Capped /\ \A n : Spent(n)' = Spent(n)
    BY <2>1 DEF Lim, Current, Spent, Capped
  <2>q. QED
    BY <2>1, <2>2 DEF Bounded, Within, Plain
<1>q. QED
  BY <1>1, <1>2, <1>3, <1>4, <1>5, <1>6, <1>7, Parts

\* All the referrers a run files, manifests and payloads together, are within
\* --max-file and --max-total (FetchReferrers' one budget), as long as nothing
\* that was listed declares a negative size, which charge would add to the budget.
THEOREM FilingIsLimited == Spec => []FiledWithinLimits
<1>1. Typed /\ Init => Bounded
  <2> SUFFICES ASSUME Typed, Init PROVE Bounded
    OBVIOUS
  <2>1. pc = "idle" /\ mem.referrers = <<>> /\ cfg \in Configs
    BY DEF Init, FreshMemory, Typed, EnvTyped
  <2>2. \E end \in 0 .. Lim.total : ChainTo(mem.referrers, end, Lim)
    BY <2>1, NothingFiled DEF Lim
  <2>q. QED
    BY <2>1, <2>2 DEF Bounded, Within
<1>2. Typed /\ Typed' /\ Gate /\ Bounded /\ [Next]_vars => Bounded'
  BY BoundedStep
<1>3. Bounded => FiledWithinLimits
  BY DEF Bounded, Within, Plain, FiledWithinLimits, ChainTo, Link, Lim
<1>q. QED
  BY <1>1, <1>2, <1>3, AlwaysTyped, GateAlways, PTL DEF Spec

=============================================================================
