----------------------------- MODULE HostProofs -----------------------------
(***************************************************************************)
(* Proofs about what a host runs and keeps beside its conversation: Shell and *)
(* the ring its jobs' output waits in, PluginDisk and FileTools, for every    *)
(* value of their constants.                                               *)
(***************************************************************************)
EXTENDS Shell, PluginDisk, FileTools, SequenceTheorems, FiniteSetTheorems, TLAPS

-----------------------------------------------------------------------------
(* Lists                                                                   *)

Load == INSTANCE ListFacts WITH Step <- Imported

\* The models' operators are those the laws are about.
LEMMA PicksAre ==
    /\ \A S : IsFiniteSet(S) <=> Load!IsFiniteSet(S)
    /\ \A S : Cardinality(S) = Load!Cardinality(S)
    /\ \A S : Ascending(S) = Load!Ascending(S)
    /\ \A list, P : ItemsAt(list, P) = Load!ItemsAt(list, P)
    /\ \A f : Range(f) = Load!Range(f)
<1>1. \A S : IsFiniteSet(S) <=> Load!IsFiniteSet(S)
  BY DEF IsFiniteSet, Load!IsFiniteSet
<1>2. \A S : Cardinality(S) = Load!Cardinality(S)
  BY DEF Cardinality, Load!Cardinality
<1>3. ASSUME NEW S PROVE Ascending(S) = Load!Ascending(S)
  <2> DEFINE Nth(n) == CHOOSE x \in S : Cardinality({y \in S : y <= x}) = n
             Other(n) == CHOOSE x \in S : Load!Cardinality({y \in S : y <= x}) = n
  <2>1. ASSUME NEW n PROVE Nth(n) = Other(n)
    <3>1. \A x \in S : Cardinality({y \in S : y <= x}) = n
                      <=> Load!Cardinality({y \in S : y <= x}) = n
      BY <1>2
    <3> QED
      BY <3>1
  <2>2. /\ Ascending(S) = [n \in 1 .. Cardinality(S) |-> Nth(n)]
        /\ Load!Ascending(S) = [n \in 1 .. Cardinality(S) |-> Other(n)]
    BY <1>2 DEF Ascending, Load!Ascending
  <2> HIDE DEF Nth, Other
  <2> QED
    BY <2>1, <2>2
<1>4. \A list, P : ItemsAt(list, P) = Load!ItemsAt(list, P)
  BY <1>2, <1>3 DEF ItemsAt, Load!ItemsAt
<1>5. \A f : Range(f) = Load!Range(f)
  BY DEF Range, Load!Range
<1> QED
  BY <1>1, <1>2, <1>3, <1>4, <1>5

LEMMA AscendingLists ==
    ASSUME NEW S \in SUBSET Nat, IsFiniteSet(S)
    PROVE  /\ Ascending(S) \in [1 .. Cardinality(S) -> S]
           /\ \A x \in S : \E n \in 1 .. Cardinality(S) : Ascending(S)[n] = x
           /\ \A i, k \in 1 .. Cardinality(S) : i < k => Ascending(S)[i] < Ascending(S)[k]
BY PicksAre, Load!AscendingLists

LEMMA PickedAre ==
    ASSUME NEW list, NEW P \in SUBSET Nat, IsFiniteSet(P)
    PROVE  /\ \A x \in Range(ItemsAt(list, P)) : \E i \in P : x = list[i]
           /\ IsFiniteSet(DOMAIN ItemsAt(list, P)) /\ DOMAIN ItemsAt(list, P) \in SUBSET Nat
BY PicksAre, Load!PickedAre

-----------------------------------------------------------------------------
(* The ring                                                                *)

Increasing(lines) == \A a, b \in DOMAIN lines : a < b => lines[a] < lines[b]

\* The positions a filter matches are as many as the lines allow.
LEMMA PositionsFinite ==
    ASSUME NEW lines \in Seq(Nat), NEW P \in SUBSET DOMAIN lines
    PROVE  /\ P \in SUBSET Nat /\ IsFiniteSet(P)
           /\ Cardinality(P) \in Nat /\ Cardinality(P) <= Len(lines)
           /\ Cardinality(DOMAIN lines \ P) = Len(lines) - Cardinality(P)
<1>1. DOMAIN lines = 1 .. Len(lines) /\ Len(lines) \in Nat
  OBVIOUS
<1>2. 1 \in Int /\ Len(lines) \in Int
  BY <1>1
<1>3. IsFiniteSet(1 .. Len(lines))
      /\ Cardinality(1 .. Len(lines)) = IF 1 > Len(lines) THEN 0 ELSE Len(lines) - 1 + 1
  BY ONLY <1>2, FS_Interval
<1>4. IsFiniteSet(DOMAIN lines) /\ Cardinality(DOMAIN lines) = Len(lines)
  BY <1>1, <1>3
<1>5. IsFiniteSet(P) /\ Cardinality(P) <= Cardinality(DOMAIN lines) /\ Cardinality(P) \in Nat
  BY <1>4, FS_Subset, FS_CardinalityType
<1>6. DOMAIN lines \cap P = P
  OBVIOUS
<1>7. Cardinality(DOMAIN lines \ P) = Cardinality(DOMAIN lines) - Cardinality(DOMAIN lines \cap P)
  BY <1>4, FS_Difference
<1>8. Cardinality(DOMAIN lines \ P) = Len(lines) - Cardinality(P)
  BY <1>4, <1>6, <1>7
<1>9. P \in SUBSET Nat
  BY <1>1
<1> QED
  BY <1>4, <1>5, <1>8, <1>9

\* The lines at some positions are that many, are lines, and keep their order.
LEMMA ItemsAtAre ==
    ASSUME NEW T \in SUBSET Nat, NEW lines \in Seq(T), NEW P \in SUBSET DOMAIN lines
    PROVE  /\ ItemsAt(lines, P) \in Seq(T)
           /\ Len(ItemsAt(lines, P)) = Cardinality(P)
           /\ Increasing(lines) => Increasing(ItemsAt(lines, P))
           /\ Bytes(ItemsAt(lines, P)) <= Bytes(lines)
           /\ Bytes(ItemsAt(lines, P)) \in Nat
<1> DEFINE at == Ascending(P)
           kept == ItemsAt(lines, P)
<1>a. ASSUME NEW s \in Seq(T) PROVE s \in Seq(Nat) /\ DOMAIN s = 1 .. Len(s)
  <2>1. Len(s) \in Nat /\ s \in [1 .. Len(s) -> T]
    OBVIOUS
  <2>2. s \in [1 .. Len(s) -> Nat]
    BY <2>1
  <2> QED
    BY <2>1, <2>2
<1>1. lines \in Seq(Nat) /\ DOMAIN lines = 1 .. Len(lines)
  BY <1>a
<1>2. P \in SUBSET Nat /\ IsFiniteSet(P) /\ Cardinality(P) \in Nat /\ Cardinality(P) <= Len(lines)
  BY <1>1, PositionsFinite
<1>3. /\ at \in [1 .. Cardinality(P) -> P]
      /\ \A i, k \in 1 .. Cardinality(P) : i < k => at[i] < at[k]
  BY <1>2, AscendingLists
<1> HIDE DEF at
<1>4. /\ kept = [n \in 1 .. Cardinality(P) |-> lines[at[n]]]
      /\ \A n \in 1 .. Cardinality(P) : at[n] \in DOMAIN lines
  BY <1>3 DEF ItemsAt, at
<1> HIDE DEF kept
<1>5. kept \in Seq(T) /\ Len(kept) = Cardinality(P) /\ DOMAIN kept = 1 .. Cardinality(P)
  BY <1>1, <1>2, <1>4
<1>6. Increasing(lines) => Increasing(kept)
  BY <1>3, <1>4, <1>5 DEF Increasing
<1>7. /\ Cardinality(PositionsIn(kept, Long)) <= Cardinality(PositionsIn(lines, Long))
      /\ Cardinality(PositionsIn(kept, Long)) \in Nat
      /\ Cardinality(PositionsIn(lines, Long)) \in Nat
  <2> DEFINE K == PositionsIn(kept, Long)
             L == PositionsIn(lines, Long)
             f == [n \in K |-> at[n]]
  <2>1. /\ K \in SUBSET DOMAIN kept /\ L \in SUBSET DOMAIN lines
    BY DEF PositionsIn
  <2>2. kept \in Seq(Nat)
    BY <1>a, <1>5
  <2>3. IsFiniteSet(K) /\ IsFiniteSet(L) /\ Cardinality(K) \in Nat /\ Cardinality(L) \in Nat
    BY <1>1, <2>1, <2>2, PositionsFinite
  <2>4. f \in [K -> L]
    BY <1>4, <1>5 DEF PositionsIn
  <2>5. ASSUME NEW i \in K, NEW k \in K, f[i] = f[k] PROVE i = k
    <3>1. /\ i \in 1 .. Cardinality(P) /\ k \in 1 .. Cardinality(P) /\ at[i] = at[k]
          /\ at[i] \in Nat
      BY <1>1, <1>4, <1>5, <2>5 DEF PositionsIn
    <3>2. i < k \/ k < i \/ i = k
      BY <3>1
    <3> QED
      BY <1>2, <1>3, <3>1, <3>2
  <2>6. f \in Injection(K, L)
    BY <2>4, <2>5 DEF Injection, IsInjective
  <2> QED
    BY <2>3, <2>6, FS_Injection
<1>8. Bytes(kept) <= Bytes(lines) /\ Bytes(kept) \in Nat
  BY <1>1, <1>2, <1>5, <1>7 DEF Bytes
<1> QED
  BY <1>5, <1>6, <1>8 DEF kept

\* The bytes of one more line.
LEMMA BytesOfAppend ==
    ASSUME NEW lines \in Seq(Nat), NEW line \in Nat
    PROVE  Bytes(Append(lines, line)) = Bytes(lines) + Size(line)
<1> DEFINE all == Append(lines, line)
           n == Len(lines) + 1
<1>1. /\ all \in Seq(Nat) /\ Len(all) = n /\ all[n] = line /\ Len(lines) \in Nat
      /\ \A i \in 1 .. Len(lines) : all[i] = lines[i]
      /\ DOMAIN all = 1 .. n /\ DOMAIN lines = 1 .. Len(lines)
  BY AppendProperties
<1> HIDE DEF all
<1>2. PositionsIn(lines, Long) \in SUBSET DOMAIN lines
  BY DEF PositionsIn
<1>3. IsFiniteSet(PositionsIn(lines, Long)) /\ Cardinality(PositionsIn(lines, Long)) \in Nat
  BY <1>2, PositionsFinite
<1>4. n \notin PositionsIn(lines, Long)
  BY <1>1 DEF PositionsIn
<1>5. CASE line \in Long
  <2>1. PositionsIn(all, Long) = PositionsIn(lines, Long) \union {n}
    BY <1>1, <1>5 DEF PositionsIn
  <2>2. Cardinality(PositionsIn(all, Long)) = Cardinality(PositionsIn(lines, Long)) + 1
    BY <1>3, <1>4, <2>1, FS_AddElement
  <2>3. Bytes(all) = Bytes(lines) + Size(line)
    BY <1>1, <1>3, <1>5, <2>2 DEF Bytes, Size
  <2> QED
    BY <2>3 DEF all
<1>6. CASE line \notin Long
  <2>1. PositionsIn(all, Long) = PositionsIn(lines, Long)
    BY <1>1, <1>6 DEF PositionsIn
  <2>2. Bytes(all) = Bytes(lines) + Size(line)
    BY <1>1, <1>3, <1>6, <2>1 DEF Bytes, Size
  <2> QED
    BY <2>2 DEF all
<1> QED
  BY <1>5, <1>6

\* What is left of a sequence without its first k elements.
LEMMA Suffix ==
    ASSUME NEW T, NEW s \in Seq(T), NEW k \in 0 .. Len(s)
    PROVE  /\ SubSeq(s, k + 1, Len(s)) \in Seq(T)
           /\ Len(SubSeq(s, k + 1, Len(s))) = Len(s) - k
           /\ DOMAIN SubSeq(s, k + 1, Len(s)) = 1 .. Len(s) - k
           /\ \A i \in 1 .. Len(s) - k : SubSeq(s, k + 1, Len(s))[i] = s[k + i]
<1> DEFINE rest == SubSeq(s, k + 1, Len(s))
           n == Len(s)
<1>1. n \in Nat /\ k \in Nat /\ k <= n
  OBVIOUS
<1>2. \A i \in k + 1 .. n : s[i] \in T
  BY <1>1
<1>3. k + 1 \in Int /\ n \in Int
  BY <1>1
<1>4. /\ SubSeq(s, k + 1, n) \in Seq(T)
      /\ Len(SubSeq(s, k + 1, n)) = IF k + 1 <= n THEN n - (k + 1) + 1 ELSE 0
      /\ \A i \in 1 .. n - (k + 1) + 1 : SubSeq(s, k + 1, n)[i] = s[k + 1 + i - 1]
  BY ONLY <1>2, <1>3, SubSeqProperties
<1> HIDE DEF n
<1>5. n - (k + 1) + 1 = n - k /\ (~(k + 1 <= n) => n - k = 0)
  BY <1>1
<1>6. Len(SubSeq(s, k + 1, n)) = n - k
  BY <1>4, <1>5
<1>7. \A i \in 1 .. n - k : SubSeq(s, k + 1, n)[i] = s[k + i]
  <2> TAKE i \in 1 .. n - k
  <2>1. k + 1 + i - 1 = k + i
    BY <1>1
  <2> QED
    BY <1>4, <1>5, <2>1
<1>8. DOMAIN SubSeq(s, k + 1, n) = 1 .. n - k
  BY <1>4, <1>6
<1> QED
  BY <1>4, <1>6, <1>7, <1>8 DEF n

\* The bytes of a sequence are those of its two parts.
LEMMA BytesOfParts ==
    ASSUME NEW lines \in Seq(Nat), NEW k \in 0 .. Len(lines)
    PROVE  /\ Bytes(SubSeq(lines, 1, k)) + Bytes(SubSeq(lines, k + 1, Len(lines))) = Bytes(lines)
           /\ Bytes(SubSeq(lines, 1, k)) \in Nat
           /\ Bytes(SubSeq(lines, k + 1, Len(lines))) \in Nat
           /\ Bytes(lines) \in Nat
<1> DEFINE head == SubSeq(lines, 1, k)
           rest == SubSeq(lines, k + 1, Len(lines))
           H == PositionsIn(head, Long)
           R == PositionsIn(rest, Long)
           L == PositionsIn(lines, Long)
           Low == {i \in L : i <= k}
           High == {i \in L : i > k}
<1>1. Len(lines) \in Nat /\ k \in Nat /\ k <= Len(lines) /\ DOMAIN lines = 1 .. Len(lines)
  OBVIOUS
<1>2. /\ head \in Seq(Nat) /\ Len(head) = k /\ DOMAIN head = 1 .. k
      /\ \A i \in 1 .. k : head[i] = lines[i]
  BY <1>1, SubSeqProperties
<1>3. /\ rest \in Seq(Nat) /\ Len(rest) = Len(lines) - k /\ DOMAIN rest = 1 .. Len(lines) - k
      /\ \A i \in 1 .. Len(lines) - k : rest[i] = lines[k + i]
  BY Suffix
<1> HIDE DEF head, rest
<1>4. H \in SUBSET DOMAIN head /\ R \in SUBSET DOMAIN rest /\ L \in SUBSET DOMAIN lines
      /\ Low \in SUBSET DOMAIN lines /\ High \in SUBSET DOMAIN lines
  BY DEF PositionsIn
<1>5. /\ IsFiniteSet(H) /\ Cardinality(H) \in Nat /\ IsFiniteSet(R) /\ Cardinality(R) \in Nat
      /\ IsFiniteSet(L) /\ Cardinality(L) \in Nat
      /\ IsFiniteSet(Low) /\ Cardinality(Low) \in Nat
      /\ IsFiniteSet(High) /\ Cardinality(High) \in Nat
  <2>1. IsFiniteSet(H) /\ Cardinality(H) \in Nat /\ IsFiniteSet(R) /\ Cardinality(R) \in Nat
    BY <1>2, <1>3, <1>4, PositionsFinite
  <2>2. IsFiniteSet(L) /\ Cardinality(L) \in Nat
    BY <1>4, PositionsFinite
  <2>3. /\ IsFiniteSet(Low) /\ Cardinality(Low) \in Nat
        /\ IsFiniteSet(High) /\ Cardinality(High) \in Nat
    BY <1>4, PositionsFinite
  <2> QED
    BY <2>1, <2>2, <2>3
<1>6. Low = H
  BY <1>1, <1>2 DEF PositionsIn
<1>7. Cardinality(High) = Cardinality(R)
  <2> DEFINE f == [i \in R |-> k + i]
  <2>1. f \in [R -> High]
    BY <1>1, <1>3 DEF PositionsIn
  <2>2. \A i, j \in R : f[i] = f[j] => i = j
    BY <1>1, <1>3 DEF PositionsIn
  <2>3. ASSUME NEW h \in High PROVE \E i \in R : f[i] = h
    <3>1. h \in Nat /\ h > k /\ h <= Len(lines) /\ lines[h] \in Long
      BY <1>1 DEF PositionsIn
    <3>2. h - k \in 1 .. Len(lines) - k /\ k + (h - k) = h
      BY <1>1, <3>1
    <3>3. h - k \in R
      BY <1>3, <3>1, <3>2 DEF PositionsIn
    <3> QED
      BY <3>2, <3>3
  <2>4. f \in Injection(R, High) /\ f \in Surjection(R, High)
    BY <2>1, <2>2, <2>3 DEF Injection, IsInjective, Surjection
  <2> QED
    BY <1>5, <2>4, FS_Injection
<1>8. Cardinality(L) = Cardinality(Low) + Cardinality(High)
  <2>1. L = Low \union High /\ Low \cap High = {}
    BY <1>1, <1>4
  <2>2. Cardinality(Low \union High)
          = Cardinality(Low) + Cardinality(High) - Cardinality(Low \cap High)
    BY <1>5, FS_Union
  <2>3. Cardinality(Low \cap High) = 0
    BY <2>1, FS_EmptySet
  <2> HIDE DEF Low, High, L
  <2> QED
    BY <1>5, <2>1, <2>2, <2>3
<1>9. Cardinality(L) = Cardinality(H) + Cardinality(R)
  BY <1>6, <1>7, <1>8
<1> HIDE DEF H, R, L
<1>10. /\ Bytes(head) + Bytes(rest) = Bytes(lines)
       /\ Bytes(head) \in Nat /\ Bytes(rest) \in Nat /\ Bytes(lines) \in Nat
  <2>1. Bytes(head) = k + Cardinality(H) /\ Bytes(rest) = (Len(lines) - k) + Cardinality(R)
        /\ Bytes(lines) = Len(lines) + Cardinality(L)
    BY <1>2, <1>3 DEF Bytes, H, R, L
  <2> QED
    BY <1>1, <1>5, <1>9, <2>1
<1> QED
  BY <1>10 DEF head, rest
\* A set of numbers has a least member.
LEMMA LeastMember ==
    ASSUME NEW S \in SUBSET Nat, IsFiniteSet(S), S # {}
    PROVE  \E m \in S : \A x \in S : m <= x
<1> DEFINE at == Ascending(S)
           n == Cardinality(S)
<1>1. n \in Nat /\ n # 0
  BY FS_EmptySet, FS_CardinalityType
<1>2. /\ at \in [1 .. n -> S]
      /\ \A x \in S : \E i \in 1 .. n : at[i] = x
      /\ \A i, k \in 1 .. n : i < k => at[i] < at[k]
  BY AscendingLists
<1> HIDE DEF at, n
<1>3. 1 \in 1 .. n /\ at[1] \in S
  BY <1>1, <1>2
<1>4. ASSUME NEW x \in S PROVE at[1] <= x
  <2>1. PICK i \in 1 .. n : at[i] = x
    BY <1>2
  <2>2. i = 1 \/ 1 < i
    BY <1>1
  <2>3. at[1] \in Nat /\ x \in Nat
    BY <1>3
  <2>4. CASE i = 1
    BY <2>1, <2>3, <2>4
  <2>5. CASE 1 < i
    <3>1. at[1] < at[i]
      BY <1>2, <1>3, <2>5
    <3> QED
      BY <2>1, <2>3, <3>1
  <2> QED
    BY <2>2, <2>4, <2>5
<1> QED
  BY <1>3, <1>4

\* What holds of the ring of a job that has printed n lines: the lines are in
\* order, within both bounds, and the byte account is theirs.
RingOK(ring, n) ==
    /\ ring \in [lines : Seq(1 .. n), bytes : Nat, discarded : Nat]
    /\ Increasing(ring.lines)
    /\ Len(ring.lines) <= MaxLines
    /\ ring.bytes = Bytes(ring.lines)
    /\ ring.bytes <= MaxBytes

\* Lines of a shorter output are lines of a longer one.
LEMMA LongerOutput ==
    ASSUME NEW n \in Nat, NEW m \in Nat, n <= m, NEW s \in Seq(1 .. n)
    PROVE  s \in Seq(1 .. m) /\ s \in Seq(Nat)
<1>1. Len(s) \in Nat /\ s \in [1 .. Len(s) -> 1 .. n]
  OBVIOUS
<1>2. s \in [1 .. Len(s) -> 1 .. m] /\ s \in [1 .. Len(s) -> Nat]
  BY <1>1
<1> QED
  BY <1>1, <1>2

LEMMA NoBytes == Bytes(<<>>) = 0
<1>1. PositionsIn(<<>>, Long) = {}
  BY DEF PositionsIn
<1> QED
  BY <1>1, FS_EmptySet DEF Bytes

\* append() keeps the ring in order and within its bounds, and every line it
\* drops is counted.
LEMMA AppendedKeeps ==
    ASSUME NEW n \in Nat, NEW ring, RingOK(ring, n)
    PROVE  /\ RingOK(Appended(ring, n + 1), n + 1)
           /\ Len(Appended(ring, n + 1).lines) + Appended(ring, n + 1).discarded
                = Len(ring.lines) + ring.discarded + 1
<1> DEFINE line == n + 1
           all == Append(ring.lines, line)
           size == Len(all)
           total == ring.bytes + Size(line)
           Rest(k) == SubSeq(all, k + 1, size)
           Weight(k) == total - Bytes(SubSeq(all, 1, k))
           Fits == {k \in 0 .. size : ~Overfull(Rest(k), Weight(k))}
           Stops(k) == /\ ~Overfull(Rest(k), Weight(k))
                      /\ \A i \in 0 .. (k - 1) : Overfull(Rest(i), Weight(i))
           e == CHOOSE k \in 0 .. size : Stops(k)
<1>1. ring.lines \in Seq(1 .. n) /\ ring.lines \in Seq(1 .. line) /\ ring.lines \in Seq(Nat)
  BY LongerOutput DEF RingOK
<1>2. /\ all \in Seq(1 .. line) /\ size = Len(ring.lines) + 1 /\ all[size] = line
      /\ \A i \in 1 .. Len(ring.lines) : all[i] = ring.lines[i]
      /\ Len(ring.lines) \in Nat /\ size \in Nat
  BY <1>1, AppendProperties
<1>3. all \in Seq(Nat) /\ DOMAIN all = 1 .. size
  BY <1>2, LongerOutput
<1>4. \A a, b \in 1 .. size : a < b => all[a] < all[b]
  <2> TAKE a \in 1 .. size, b \in 1 .. size
  <2>1. CASE b = size
    <3>1. a < b => a \in 1 .. Len(ring.lines)
      BY <1>2, <2>1
    <3>2. \A i \in 1 .. Len(ring.lines) : ring.lines[i] < line
      BY <1>1
    <3> QED
      BY <1>2, <2>1, <3>1, <3>2
  <2>2. CASE b # size
    <3>1. a < b => a \in 1 .. Len(ring.lines) /\ b \in 1 .. Len(ring.lines)
      BY <1>2, <2>2
    <3> QED
      BY <1>1, <1>2, <3>1 DEF RingOK, Increasing
  <2> QED
    BY <2>1, <2>2
<1>5. total = Bytes(all)
  BY <1>1, BytesOfAppend DEF RingOK
<1>6. \A k \in 0 .. size : Weight(k) = Bytes(Rest(k)) /\ Bytes(Rest(k)) \in Nat
  <2> TAKE k \in 0 .. size
  <2>1. Bytes(SubSeq(all, 1, k)) + Bytes(Rest(k)) = Bytes(all)
        /\ Bytes(SubSeq(all, 1, k)) \in Nat /\ Bytes(Rest(k)) \in Nat
    BY <1>3, BytesOfParts
  <2> QED
    BY <1>5, <2>1
<1>7. Appended(ring, line) = [lines |-> Rest(e), bytes |-> Weight(e), discarded |-> ring.discarded + e]
  BY DEF Appended
<1> HIDE DEF all, size, total
<1>8. Rest(size) = <<>>
  BY <1>2, SubSeqEmpty
<1>9. Fits \in SUBSET Nat /\ IsFiniteSet(Fits) /\ Fits # {}
  <2>1. size \in Fits
    BY <1>2, <1>8 DEF Overfull
  <2>2. 0 \in Int /\ size \in Int
    BY <1>2
  <2>3. IsFiniteSet(0 .. size)
    BY ONLY <2>2, FS_Interval
  <2>4. Fits \in SUBSET (0 .. size) /\ (0 .. size) \in SUBSET Nat
    BY <1>2
  <2>5. IsFiniteSet(Fits)
    BY <2>3, <2>4, FS_Subset
  <2> QED
    BY <2>1, <2>4, <2>5
<1>10. PICK m \in Fits : \A x \in Fits : m <= x
  BY <1>9, LeastMember
<1>11. m \in 0 .. size /\ Stops(m)
  <2>1. m \in 0 .. size /\ ~Overfull(Rest(m), Weight(m))
    OBVIOUS
  <2>2. ASSUME NEW i \in 0 .. (m - 1) PROVE Overfull(Rest(i), Weight(i))
    <3>1. i \in 0 .. size /\ ~(m <= i)
      BY <1>2, <2>1
    <3> QED
      BY <1>10, <3>1
  <2> QED
    BY <2>1, <2>2
<1> HIDE DEF Rest, Weight
<1>12. e \in 0 .. size /\ ~Overfull(Rest(e), Weight(e))
  BY <1>11
<1> HIDE DEF e
<1>13. /\ Rest(e) \in Seq(1 .. line) /\ Len(Rest(e)) = size - e
       /\ DOMAIN Rest(e) = 1 .. size - e
       /\ \A i \in 1 .. size - e : Rest(e)[i] = all[e + i]
  BY <1>2, <1>12, Suffix DEF Rest, size
<1>14. Increasing(Rest(e))
  <2> SUFFICES ASSUME NEW a \in 1 .. size - e, NEW b \in 1 .. size - e, a < b
               PROVE  Rest(e)[a] < Rest(e)[b]
    BY <1>13 DEF Increasing
  <2>1. e + a \in 1 .. size /\ e + b \in 1 .. size /\ e + a < e + b
    BY <1>2, <1>12
  <2> QED
    BY <1>4, <1>13, <2>1
<1>15. Weight(e) = Bytes(Rest(e)) /\ Weight(e) \in Nat
  BY <1>6, <1>12
<1>16. Len(Rest(e)) <= MaxLines /\ Weight(e) <= MaxBytes
  <2>1. CASE Rest(e) = <<>>
    BY <1>15, <2>1, NoBytes, RingAssumption
  <2>2. CASE Rest(e) # <<>>
    <3>1. ~(Len(Rest(e)) > MaxLines) /\ ~(Weight(e) > MaxBytes)
      BY <1>12, <2>2 DEF Overfull
    <3>2. Len(Rest(e)) \in Nat
      BY <1>2, <1>12, <1>13
    <3> QED
      BY <1>15, <3>1, <3>2, RingAssumption
  <2> QED
    BY <2>1, <2>2
<1>17. ring.discarded \in Nat /\ ring.discarded + e \in Nat
  BY <1>12 DEF RingOK
<1>18. RingOK(Appended(ring, line), line)
  BY <1>7, <1>13, <1>14, <1>15, <1>16, <1>17 DEF RingOK
<1>19. Len(Appended(ring, line).lines) + Appended(ring, line).discarded = Len(ring.lines) + ring.discarded + 1
  BY <1>2, <1>7, <1>12, <1>13, <1>17
<1> QED
  BY <1>18, <1>19

\* A read consumes what it returns, keeps the rest in order, and loses nothing.
LEMMA ReadKeeps ==
    ASSUME NEW n \in Nat, NEW ring, RingOK(ring, n), NEW matching
    PROVE  /\ RingOK(Kept(ring, matching), n)
           /\ Kept(ring, matching).discarded = ring.discarded
           /\ Len(Taken(ring, matching)) \in Nat
           /\ Len(Taken(ring, matching)) + Len(Kept(ring, matching).lines) = Len(ring.lines)
<1> DEFINE lines == ring.lines
           P == PositionsIn(lines, matching)
           Q == DOMAIN lines \ P
<1>1. lines \in Seq(1 .. n) /\ lines \in Seq(Nat) /\ (1 .. n) \in SUBSET Nat /\ Len(lines) \in Nat
  BY LongerOutput DEF RingOK
<1>2. P \in SUBSET DOMAIN lines /\ Q \in SUBSET DOMAIN lines
  BY DEF PositionsIn
<1>3. /\ Cardinality(P) \in Nat /\ Cardinality(P) <= Len(lines)
      /\ Cardinality(Q) = Len(lines) - Cardinality(P)
  BY <1>1, <1>2, PositionsFinite
<1>4. /\ ItemsAt(lines, Q) \in Seq(1 .. n) /\ Len(ItemsAt(lines, Q)) = Cardinality(Q)
      /\ Increasing(ItemsAt(lines, Q))
      /\ Bytes(ItemsAt(lines, Q)) <= Bytes(lines) /\ Bytes(ItemsAt(lines, Q)) \in Nat
  BY <1>1, <1>2, ItemsAtAre DEF RingOK
<1>5. Len(ItemsAt(lines, P)) = Cardinality(P)
  BY <1>1, <1>2, ItemsAtAre
<1>6. Unmatched(ring, matching) = ItemsAt(lines, Q) /\ Taken(ring, matching) = ItemsAt(lines, P)
  BY DEF Unmatched, Taken
<1> HIDE DEF P, Q
<1>7. /\ Kept(ring, matching) \in [lines : Seq(1 .. n), bytes : Nat, discarded : Nat]
      /\ Kept(ring, matching).lines = ItemsAt(lines, Q)
      /\ Kept(ring, matching).bytes = Bytes(ItemsAt(lines, Q))
      /\ Kept(ring, matching).discarded = ring.discarded
  BY <1>4, <1>6 DEF Kept, RingOK
<1>8. Bytes(ItemsAt(lines, Q)) <= MaxBytes /\ Len(ItemsAt(lines, Q)) <= MaxLines
  <2>1. Bytes(lines) \in Nat /\ Bytes(lines) <= MaxBytes /\ Len(lines) <= MaxLines
    BY DEF RingOK
  <2> QED
    BY <1>1, <1>3, <1>4, <2>1, RingAssumption
<1> QED
  BY <1>1, <1>3, <1>4, <1>5, <1>6, <1>7, <1>8 DEF RingOK
\* A plain read takes every line.
LEMMA DrainKeeps ==
    ASSUME NEW n \in Nat, NEW ring, RingOK(ring, n)
    PROVE  /\ RingOK(Drained(ring), n)
           /\ Drained(ring).discarded = ring.discarded
           /\ Len(Drained(ring).lines) = 0
           /\ Len(Taken(ring, 1 .. n)) = Len(ring.lines)
<1> DEFINE lines == ring.lines
           P == PositionsIn(lines, 1 .. n)
<1>1. lines \in Seq(1 .. n) /\ lines \in Seq(Nat) /\ (1 .. n) \in SUBSET Nat
      /\ DOMAIN lines = 1 .. Len(lines) /\ Len(lines) \in Nat
  BY LongerOutput DEF RingOK
<1>2. P = DOMAIN lines
  BY <1>1 DEF PositionsIn
<1>3. Cardinality(DOMAIN lines \ P) = Len(lines) - Cardinality(P) /\ Cardinality(P) \in Nat
  BY <1>1, <1>2, PositionsFinite
<1>4. Cardinality(DOMAIN lines \ P) = 0
  <2>1. DOMAIN lines \ P = {}
    BY <1>2
  <2> QED
    BY <2>1, FS_EmptySet
<1>5. Len(Taken(ring, 1 .. n)) = Cardinality(P)
  BY <1>1, <1>2, ItemsAtAre DEF Taken
<1>6. /\ Drained(ring) \in [lines : Seq(1 .. n), bytes : Nat, discarded : Nat]
      /\ Drained(ring).lines = <<>> /\ Drained(ring).bytes = 0
      /\ Drained(ring).discarded = ring.discarded
  <2>1. <<>> \in Seq(1 .. n)
    OBVIOUS
  <2> QED
    BY <2>1 DEF Drained, RingOK
<1>7. Len(<<>>) = 0 /\ Increasing(<<>>)
  BY DEF Increasing
<1>8. RingOK(Drained(ring), n)
  BY <1>6, <1>7, NoBytes, RingAssumption DEF RingOK
<1> HIDE DEF P
<1> QED
  BY <1>1, <1>3, <1>4, <1>5, <1>6, <1>7, <1>8

-----------------------------------------------------------------------------
(* One job                                                                 *)

RingType == [lines : Seq(Nat), bytes : Nat, discarded : Nat]
Counts == 0 .. MaxPrinted
JobType == [proc: {"alive", "doomed", "exited"},
            status: {"running", "completed", "killed", "timed_out"},
            done: BOOLEAN, watched: BOOLEAN, listed: BOOLEAN,
            ring: RingType, printed: Counts, taken: Nat, asked: BOOLEAN, overdue: BOOLEAN]

\* Every line a job printed was read, is buffered, or was discarded and counted.
Accounted(job) ==
    /\ RingOK(job.ring, job.printed)
    /\ job.printed = job.taken + Len(job.ring.lines) + job.ring.discarded

\* How a job's process, its end and its status go together: it is done only
\* behind its process, leaves the session's list only signalled, and its status
\* is the trace of who signalled it.
EndsWell(job) ==
    /\ job.done => job.proc = "exited" /\ ~job.watched /\ job.status # "running"
    /\ ~job.listed => job.proc # "alive"
    /\ job.status = "killed" => job.asked
    /\ job.status = "timed_out" => job.overdue
    /\ job.status \in {"running", "completed"} => ~job.asked /\ ~job.overdue
    /\ job.status = "completed" => job.done

JobOK(job) == job \in JobType /\ Accounted(job) /\ EndsWell(job)

\* What no step does to a job: its end is final, its process is not revived.
Moves(old, new) ==
    /\ JobOK(new)
    /\ old.done => new.done /\ new.status = old.status /\ new.printed = old.printed
    /\ old.proc # "alive" => new.proc # "alive"

\* A change that touches neither the output nor the end.
LEMMA SignalMoves ==
    ASSUME NEW job, JobOK(job)
    PROVE  /\ Moves(job, job)
           /\ Moves(job, KilledNow(job)) /\ KilledNow(job).proc # "alive"
           /\ Moves(job, Overdue(job)) \/ job.done
           /\ job.proc \in {"alive", "doomed"} => Moves(job, [job EXCEPT !.proc = "exited"])
           /\ ~job.done => Moves(job, [job EXCEPT !.status = "killed", !.proc = Signalled(@), !.asked = TRUE])
           /\ ~job.done /\ job.proc = "exited" => Moves(job, Settled(job)) /\ Settled(job).done
<1> USE DEF JobOK, Moves
<1>1. Moves(job, job)
  OBVIOUS
<1>2. Signalled(job.proc) \in {"doomed", "exited"}
  BY DEF JobType, Signalled
<1>3. Moves(job, KilledNow(job)) /\ KilledNow(job).proc # "alive"
  <2> DEFINE new == KilledNow(job)
  <2>1. /\ new \in JobType /\ new.ring = job.ring /\ new.printed = job.printed /\ new.taken = job.taken
        /\ new.done = job.done /\ ~new.watched /\ ~new.listed /\ new.overdue = job.overdue
        /\ job.done => new.status = job.status /\ new.asked = job.asked /\ new.proc = job.proc
        /\ ~job.done => new.status = "killed" /\ new.asked /\ new.proc = Signalled(job.proc)
    BY <1>2 DEF KilledNow, JobType
  <2> HIDE DEF new
  <2>2. Accounted(new)
    BY <2>1 DEF Accounted
  <2>3. EndsWell(new) /\ new.proc # "alive"
    BY <1>2, <2>1 DEF EndsWell
  <2> QED
    BY <2>1, <2>2, <2>3 DEF new, EndsWell
<1>4. Moves(job, Overdue(job)) \/ job.done
  <2> SUFFICES ASSUME ~job.done PROVE Moves(job, Overdue(job))
    OBVIOUS
  <2> DEFINE new == Overdue(job)
  <2>1. /\ new \in JobType /\ new.ring = job.ring /\ new.printed = job.printed /\ new.taken = job.taken
        /\ new.done = job.done /\ ~new.watched /\ new.listed = job.listed /\ new.asked = job.asked
        /\ job.proc = "exited" => new.status = job.status /\ new.overdue = job.overdue /\ new.proc = "exited"
        /\ job.proc # "exited" => new.status = "timed_out" /\ new.overdue /\ new.proc = Signalled(job.proc)
    BY <1>2 DEF Overdue, JobType
  <2> HIDE DEF new
  <2>2. Accounted(new)
    BY <2>1 DEF Accounted
  <2>3. EndsWell(new) /\ (job.proc # "alive" => new.proc # "alive")
    BY <1>2, <2>1 DEF EndsWell
  <2> QED
    BY <2>1, <2>2, <2>3 DEF new
<1>5. ASSUME job.proc \in {"alive", "doomed"} PROVE Moves(job, [job EXCEPT !.proc = "exited"])
  <2> DEFINE new == [job EXCEPT !.proc = "exited"]
  <2>1. /\ new \in JobType /\ new.ring = job.ring /\ new.printed = job.printed /\ new.taken = job.taken
        /\ new.done = job.done /\ new.watched = job.watched /\ new.listed = job.listed
        /\ new.asked = job.asked /\ new.overdue = job.overdue /\ new.status = job.status /\ new.proc = "exited"
    BY DEF JobType
  <2> HIDE DEF new
  <2>2. Accounted(new)
    BY <2>1 DEF Accounted
  <2>3. EndsWell(new)
    BY <2>1 DEF EndsWell
  <2> QED
    BY <2>1, <2>2, <2>3 DEF new
<1>6. ASSUME ~job.done
      PROVE  Moves(job, [job EXCEPT !.status = "killed", !.proc = Signalled(@), !.asked = TRUE])
  <2> DEFINE new == [job EXCEPT !.status = "killed", !.proc = Signalled(@), !.asked = TRUE]
  <2>1. /\ new \in JobType /\ new.ring = job.ring /\ new.printed = job.printed /\ new.taken = job.taken
        /\ new.done = job.done /\ new.watched = job.watched /\ new.listed = job.listed
        /\ new.asked /\ new.overdue = job.overdue /\ new.status = "killed" /\ new.proc = Signalled(job.proc)
    BY <1>2 DEF JobType
  <2> HIDE DEF new
  <2>2. Accounted(new)
    BY <2>1 DEF Accounted
  <2>3. EndsWell(new) /\ new.proc # "alive"
    BY <1>2, <1>6, <2>1 DEF EndsWell
  <2> QED
    BY <1>6, <2>1, <2>2, <2>3 DEF new
<1>7. ASSUME ~job.done, job.proc = "exited" PROVE Moves(job, Settled(job)) /\ Settled(job).done
  <2> DEFINE new == Settled(job)
  <2>1. /\ new \in JobType /\ new.ring = job.ring /\ new.printed = job.printed /\ new.taken = job.taken
        /\ new.done /\ ~new.watched /\ new.listed = job.listed
        /\ new.asked = job.asked /\ new.overdue = job.overdue /\ new.proc = "exited"
        /\ new.status = IF job.status = "running" THEN "completed" ELSE job.status
    BY <1>7 DEF JobType, Settled
  <2> HIDE DEF new
  <2>2. Accounted(new)
    BY <2>1 DEF Accounted
  <2>3. EndsWell(new)
    BY <2>1 DEF EndsWell
  <2> QED
    BY <1>7, <2>1, <2>2, <2>3 DEF new
<1> QED
  BY <1>1, <1>3, <1>4, <1>5, <1>6, <1>7

\* A line that arrives before the end, and a read at any time.
LEMMA OutputMoves ==
    ASSUME NEW job, JobOK(job)
    PROVE  /\ ~job.done /\ job.printed < MaxPrinted =>
                Moves(job, [job EXCEPT !.printed = @ + 1, !.ring = Appended(@, job.printed + 1)])
           /\ \A all \in BOOLEAN : Moves(job, Consumed(job, all))
<1> USE DEF JobOK, Moves
<1>1. job.printed \in Nat /\ job.taken \in Nat /\ job.ring.discarded \in Nat /\ Len(job.ring.lines) \in Nat
      /\ RingOK(job.ring, job.printed) /\ job.printed <= MaxPrinted
  BY ShellAssumption DEF JobType, RingType, Counts, Accounted
<1>2. ASSUME NEW r, RingOK(r, job.printed + 1) \/ RingOK(r, job.printed)
      PROVE  r \in RingType
  <2>1. PICK n \in Nat : RingOK(r, n)
    BY <1>1, <1>2
  <2>2. r.lines \in Seq(Nat)
    BY <2>1, LongerOutput DEF RingOK
  <2> QED
    BY <2>1, <2>2 DEF RingOK, RingType
<1>3. ASSUME ~job.done, job.printed < MaxPrinted
      PROVE  Moves(job, [job EXCEPT !.printed = @ + 1, !.ring = Appended(@, job.printed + 1)])
  <2> DEFINE r == Appended(job.ring, job.printed + 1)
             new == [job EXCEPT !.printed = @ + 1, !.ring = r]
  <2>1. RingOK(r, job.printed + 1) /\ Len(r.lines) + r.discarded = Len(job.ring.lines) + job.ring.discarded + 1
    BY <1>1, AppendedKeeps
  <2>2. r \in RingType
    BY <1>2, <2>1
  <2> HIDE DEF r
  <2>3. /\ new \in JobType /\ new.ring = r /\ new.printed = job.printed + 1 /\ new.taken = job.taken
        /\ new.done = job.done /\ new.watched = job.watched /\ new.listed = job.listed
        /\ new.asked = job.asked /\ new.overdue = job.overdue /\ new.status = job.status /\ new.proc = job.proc
    <3>1. job.printed + 1 \in Counts
      BY <1>1, <1>3, ShellAssumption DEF Counts
    <3> QED
      BY <2>2, <3>1 DEF JobType
  <2>4. new = [job EXCEPT !.printed = @ + 1, !.ring = Appended(@, job.printed + 1)]
    BY DEF r, JobType
  <2> HIDE DEF new
  <2>5. Accounted(new)
    <3>1. Len(r.lines) \in Nat /\ r.discarded \in Nat
      BY <2>2 DEF RingType
    <3>2. job.printed = job.taken + Len(job.ring.lines) + job.ring.discarded
      BY DEF Accounted
    <3> DEFINE a == Len(job.ring.lines)
               b == Len(r.lines)
               c == job.ring.discarded
               d == r.discarded
               t == job.taken
               n == job.printed
    <3>3. /\ a \in Nat /\ b \in Nat /\ c \in Nat /\ d \in Nat /\ t \in Nat /\ n \in Nat
          /\ b + d = a + c + 1 /\ n = t + a + c
      BY <1>1, <2>1, <3>1, <3>2
    <3> HIDE DEF a, b, c, d, t, n
    <3>4. n + 1 = t + b + d
      BY <3>3
    <3> QED
      BY <2>1, <2>3, <3>4 DEF Accounted, b, d, t, n
  <2>6. EndsWell(new)
    BY <2>3 DEF EndsWell
  <2> QED
    BY <1>3, <2>3, <2>4, <2>5, <2>6
<1>4. ASSUME NEW all \in BOOLEAN PROVE Moves(job, Consumed(job, all))
  <2> DEFINE wanted == IF all THEN 1..job.printed ELSE Filter
             r == IF all THEN Drained(job.ring) ELSE Kept(job.ring, wanted)
             got == Len(Taken(job.ring, wanted))
             new == Consumed(job, all)
  <2>1. /\ RingOK(r, job.printed) /\ r.discarded = job.ring.discarded /\ got \in Nat
        /\ got + Len(r.lines) = Len(job.ring.lines)
    <3>1. CASE all
      <4>1. r = Drained(job.ring) /\ wanted = 1 .. job.printed
        BY <3>1
      <4>2. /\ RingOK(Drained(job.ring), job.printed) /\ Drained(job.ring).discarded = job.ring.discarded
            /\ Len(Drained(job.ring).lines) = 0
            /\ Len(Taken(job.ring, 1 .. job.printed)) = Len(job.ring.lines)
        BY <1>1, DrainKeeps
      <4>3. got = Len(job.ring.lines)
        BY <4>1, <4>2
      <4> HIDE DEF got, r
      <4> QED
        BY <1>1, <4>1, <4>2, <4>3
    <3>2. CASE ~all
      BY <1>1, <3>2, ReadKeeps
    <3> QED
      BY <3>1, <3>2
  <2>2. r \in RingType
    BY <1>2, <2>1
  <2>3. new = [job EXCEPT !.taken = @ + got, !.ring = r]
    BY DEF Consumed
  <2> HIDE DEF wanted, r, got, new
  <2>4. /\ new \in JobType /\ new.ring = r /\ new.printed = job.printed /\ new.taken = job.taken + got
        /\ new.done = job.done /\ new.watched = job.watched /\ new.listed = job.listed
        /\ new.asked = job.asked /\ new.overdue = job.overdue /\ new.status = job.status /\ new.proc = job.proc
    <3>1. job.taken + got \in Nat
      BY <1>1, <2>1
    <3> QED
      BY <2>2, <2>3, <3>1 DEF JobType
  <2>5. Accounted(new)
    <3>1. Len(r.lines) \in Nat /\ r.discarded \in Nat
      BY <2>2 DEF RingType
    <3>2. job.printed = job.taken + Len(job.ring.lines) + job.ring.discarded
      BY DEF Accounted
    <3> QED
      BY <1>1, <2>1, <2>4, <3>1, <3>2 DEF Accounted
  <2>6. EndsWell(new)
    BY <2>4 DEF EndsWell
  <2> QED
    BY <2>4, <2>5, <2>6 DEF new
<1> QED
  BY <1>3, <1>4
-----------------------------------------------------------------------------
(* The jobs of a session                                                   *)

TurnType == [no : 0 .. MaxTurns, stopped : BOOLEAN]
CallType == [op : {"idle", "spawn", "kill", "wait"}, job : 0 .. MaxJobs]

\* The types, and what holds of every job.
JobsInv ==
    /\ turn \in TurnType
    /\ turns \in 0 .. MaxTurns
    /\ doing \in [Callers -> CallType]
    /\ jobs \in Seq(JobType) /\ Len(jobs) <= MaxJobs
    /\ \A j \in JobIds : JobOK(jobs[j])
    /\ queue \in Seq(1 .. MaxJobs)
    /\ notifier \in {"none", "waiting", "speaking"}
    /\ closed \in BOOLEAN

\* A step moves every job it finds on, and loses none.
JobsMove ==
    /\ jobs' \in Seq(JobType) /\ Len(jobs') <= MaxJobs
    /\ \A j \in JobIds : j \in DOMAIN jobs' /\ Moves(jobs[j], jobs'[j])
    /\ \A j \in DOMAIN jobs' : JobOK(jobs'[j])

\* Jobs that keep their number, each of which moves.
LEMMA EachMoves ==
    ASSUME JobsInv, NEW next \in [JobIds -> JobType], jobs' = next,
           \A j \in JobIds : Moves(jobs[j], next[j])
    PROVE  JobsMove
<1>1. JobIds = 1 .. Len(jobs) /\ Len(jobs) \in Nat /\ Len(jobs) <= MaxJobs
  BY DEF JobsInv, JobIds
<1>2. jobs' \in Seq(JobType) /\ Len(jobs') = Len(jobs) /\ DOMAIN jobs' = JobIds
  BY <1>1
<1> QED
  BY <1>1, <1>2 DEF JobsMove, Moves

LEMMA OneMoves ==
    ASSUME JobsInv, NEW j \in JobIds, NEW new, Moves(jobs[j], new), jobs' = [jobs EXCEPT ![j] = new]
    PROVE  JobsMove
<1>1. jobs \in [JobIds -> JobType] /\ new \in JobType
  BY DEF JobsInv, JobIds, Moves, JobOK
<1> DEFINE next == [jobs EXCEPT ![j] = new]
<1>2. next \in [JobIds -> JobType] /\ \A i \in JobIds : next[i] = IF i = j THEN new ELSE jobs[i]
  BY <1>1
<1> HIDE DEF next
<1>3. \A i \in JobIds : Moves(jobs[i], next[i])
  BY <1>2, SignalMoves DEF JobsInv
<1>4. jobs' = next
  BY DEF next
<1> QED
  BY <1>2, <1>3, <1>4, EachMoves

LEMMA NoneMoves ==
    ASSUME JobsInv, jobs' = jobs PROVE JobsMove
<1>1. jobs \in [JobIds -> JobType]
  BY DEF JobsInv, JobIds
<1>2. ASSUME NEW j \in JobIds PROVE Moves(jobs[j], jobs[j])
  <2>1. JobOK(jobs[j])
    BY DEF JobsInv
  <2> QED
    BY <2>1, SignalMoves
<1> QED
  BY <1>1, <1>2, EachMoves

\* shutdown() leaves no process alone that was alive.
LEMMA ShutdownMoves ==
    ASSUME JobsInv, Shutdown
    PROVE  JobsMove /\ \A j \in DOMAIN jobs' : jobs'[j].proc # "alive"
<1> DEFINE next == [j \in JobIds |-> IF jobs[j].listed THEN KilledNow(jobs[j]) ELSE jobs[j]]
<1>1. jobs' = next
  BY DEF Shutdown
<1>2. ASSUME NEW j \in JobIds
      PROVE  Moves(jobs[j], next[j]) /\ next[j].proc # "alive" /\ next[j] \in JobType
  <2>1. JobOK(jobs[j])
    BY DEF JobsInv
  <2>2. CASE jobs[j].listed
    BY <2>1, <2>2, SignalMoves DEF Moves, JobOK
  <2>3. CASE ~ jobs[j].listed
    BY <2>1, <2>3, SignalMoves DEF Moves, JobOK, EndsWell
  <2> QED
    BY <2>2, <2>3
<1>3. next \in [JobIds -> JobType] /\ DOMAIN jobs' = JobIds
  BY <1>1, <1>2
<1> HIDE DEF next
<1> QED
  BY <1>1, <1>2, <1>3, EachMoves

\* A new job is well formed.
LEMMA SpawnedMoves ==
    ASSUME JobsInv, NEW c \in Callers, Spawned(c)
    PROVE  JobsMove
<1> DEFINE job == [proc |-> "alive", status |-> "running", done |-> FALSE,
                   watched |-> TRUE, listed |-> TRUE, ring |-> EmptyRing,
                   printed |-> 0, taken |-> 0, asked |-> FALSE, overdue |-> FALSE]
<1>1. jobs' = Append(jobs, job) /\ Len(jobs) < MaxJobs
  BY DEF Spawned
<1>2. JobOK(job)
  <2>1. EmptyRing \in RingType /\ 0 \in Counts /\ 0 \in Nat
    BY ShellAssumption DEF EmptyRing, RingType, Counts
  <2>2. job \in JobType
    BY <2>1 DEF JobType
  <2>3. RingOK(EmptyRing, 0)
    <3>1. <<>> \in Seq(1 .. 0)
      OBVIOUS
    <3> QED
      BY <3>1, NoBytes, RingAssumption DEF RingOK, EmptyRing, Increasing
  <2>4. Accounted(job)
    BY <2>3 DEF Accounted, EmptyRing
  <2>5. EndsWell(job)
    BY DEF EndsWell
  <2> QED
    BY <2>2, <2>4, <2>5 DEF JobOK
<1> HIDE DEF job
<1>3. jobs \in Seq(JobType) /\ job \in JobType /\ Len(jobs) \in Nat /\ JobIds = 1 .. Len(jobs)
  BY <1>2 DEF JobsInv, JobOK, JobIds
<1>4. /\ jobs' \in Seq(JobType) /\ Len(jobs') = Len(jobs) + 1 /\ jobs'[Len(jobs) + 1] = job
      /\ \A j \in 1 .. Len(jobs) : jobs'[j] = jobs[j]
      /\ DOMAIN jobs' = 1 .. Len(jobs) + 1
  BY <1>1, <1>3, AppendProperties
<1>5. Len(jobs') <= MaxJobs
  BY <1>1, <1>3, <1>4, ShellAssumption
<1>6. ASSUME NEW j \in JobIds PROVE j \in DOMAIN jobs' /\ Moves(jobs[j], jobs'[j])
  <2>1. JobOK(jobs[j])
    BY DEF JobsInv
  <2>2. Moves(jobs[j], jobs[j])
    BY <2>1, SignalMoves
  <2>3. j \in DOMAIN jobs' /\ jobs'[j] = jobs[j]
    BY <1>3, <1>4
  <2> QED
    BY <2>2, <2>3
<1>7. \A j \in DOMAIN jobs' : JobOK(jobs'[j])
  <2> TAKE j \in DOMAIN jobs'
  <2>1. j \in JobIds \/ j = Len(jobs) + 1
    BY <1>3, <1>4
  <2> QED
    BY <1>2, <1>4, <1>6, <2>1 DEF Moves
<1> QED
  BY <1>4, <1>5, <1>6, <1>7 DEF JobsMove

\* Every step of the session.
LEMMA JobsStep ==
    ASSUME JobsInv, Next PROVE JobsMove
<1>1. ASSUME TurnStarts \/ TurnEnds \/ CancelTurn \/ Speak \/ Spoken PROVE JobsMove
  BY <1>1, NoneMoves DEF TurnStarts, TurnEnds, CancelTurn, Speak, Spoken
<1>2. ASSUME Close PROVE JobsMove
  BY <1>2, ShutdownMoves DEF Close
<1>3. ASSUME NEW c \in Callers, CallStep(c) PROVE JobsMove
  <2>1. CASE StartBackground(c) \/ SpawnFails(c) \/ KillReturns(c) \/ Interrupt(c)
    BY <2>1, NoneMoves DEF StartBackground, SpawnFails, KillReturns, Interrupt
  <2>2. CASE Spawned(c)
    BY <2>2, SpawnedMoves
  <2>3. CASE Restart(c)
    BY <2>3, ShutdownMoves DEF Restart
  <2>4. CASE WaitReturns(c)
    <3>1. PICK all \in BOOLEAN : jobs' = [jobs EXCEPT ![doing[c].job] = Consumed(@, all)]
      BY <2>4 DEF WaitReturns
    <3>2. CASE doing[c].job \in JobIds
      <4>1. Moves(jobs[doing[c].job], Consumed(jobs[doing[c].job], all))
        BY <3>2, OutputMoves DEF JobsInv
      <4> QED
        BY <3>1, <3>2, <4>1, OneMoves
    <3>3. CASE doing[c].job \notin JobIds
      <4>1. jobs' = jobs
        BY <3>1, <3>3 DEF JobIds, JobsInv
      <4> QED
        BY <4>1, NoneMoves
    <3> QED
      BY <3>2, <3>3
  <2>5. ASSUME NEW j \in JobIds, Kill(c, j) PROVE JobsMove
    <3> DEFINE new == [jobs[j] EXCEPT !.status = "killed", !.proc = Signalled(@), !.asked = TRUE]
    <3>1. JobOK(jobs[j]) /\ ~ jobs[j].done
      BY <2>5 DEF JobsInv, Kill, Running
    <3>2. Moves(jobs[j], new)
      BY <3>1, SignalMoves
    <3>3. jobs' = [jobs EXCEPT ![j] = new]
      BY <2>5 DEF Kill, JobsInv, JobIds
    <3> HIDE DEF new
    <3> QED
      BY <3>2, <3>3, OneMoves
  <2>6. ASSUME NEW j \in JobIds, Read(c, j) PROVE JobsMove
    <3>1. PICK all \in BOOLEAN : jobs' = [jobs EXCEPT ![j] = Consumed(@, all)]
      BY <2>6 DEF Read
    <3>2. Moves(jobs[j], Consumed(jobs[j], all))
      BY OutputMoves DEF JobsInv
    <3> QED
      BY <3>1, <3>2, OneMoves
  <2>7. ASSUME NEW j \in JobIds, Wait(c, j) PROVE JobsMove
    BY <2>7, NoneMoves DEF Wait
  <2> QED
    BY <1>3, <2>1, <2>2, <2>3, <2>4, <2>5, <2>6, <2>7 DEF CallStep
<1>4. ASSUME NEW j \in JobIds, JobStep(j) PROVE JobsMove
  <2>1. JobOK(jobs[j])
    BY DEF JobsInv
  <2>2. CASE Prints(j)
    <3> DEFINE new == [jobs[j] EXCEPT !.printed = @ + 1, !.ring = Appended(@, jobs[j].printed + 1)]
    <3>1. Moves(jobs[j], new)
      BY <2>1, <2>2, OutputMoves DEF Prints, Running
    <3>2. jobs' = [jobs EXCEPT ![j] = new]
      BY <2>2 DEF Prints, JobsInv, JobIds
    <3> HIDE DEF new
    <3> QED
      BY <3>1, <3>2, OneMoves
  <2>3. CASE Exits(j)
    <3> DEFINE new == [jobs[j] EXCEPT !.proc = "exited"]
    <3>1. Moves(jobs[j], new)
      BY <2>1, <2>3, SignalMoves DEF Exits
    <3>2. jobs' = [jobs EXCEPT ![j] = new]
      BY <2>3 DEF Exits, JobsInv, JobIds
    <3> HIDE DEF new
    <3> QED
      BY <3>1, <3>2, OneMoves
  <2>4. CASE Settle(j)
    <3>1. Moves(jobs[j], Settled(jobs[j]))
      BY <2>1, <2>4, SignalMoves DEF Settle, Running
    <3>2. jobs' = [jobs EXCEPT ![j] = Settled(jobs[j])]
      BY <2>4 DEF Settle
    <3> QED
      BY <3>1, <3>2, OneMoves
  <2>5. CASE WatchdogFires(j)
    <3>1. ~ jobs[j].done
      BY <2>1, <2>5 DEF WatchdogFires, JobOK, EndsWell
    <3>2. Moves(jobs[j], Overdue(jobs[j]))
      BY <2>1, <3>1, SignalMoves
    <3>3. jobs' = [jobs EXCEPT ![j] = Overdue(jobs[j])]
      BY <2>5 DEF WatchdogFires
    <3> QED
      BY <3>2, <3>3, OneMoves
  <2> QED
    BY <1>4, <2>2, <2>3, <2>4, <2>5 DEF JobStep
<1> QED
  BY <1>1, <1>2, <1>3, <1>4 DEF Next

LEMMA JobsInit == Init => JobsInv
<1> SUFFICES ASSUME Init PROVE JobsInv
  OBVIOUS
<1>1. jobs = <<>> /\ queue = <<>> /\ JobIds = {} /\ Len(jobs) = 0
  BY DEF Init, JobIds
<1>2. jobs \in Seq(JobType) /\ queue \in Seq(1 .. MaxJobs) /\ Len(jobs) <= MaxJobs
  BY <1>1, ShellAssumption
<1>3. NoTurn \in TurnType /\ Idle \in CallType
  BY ShellAssumption DEF NoTurn, Idle, TurnType, CallType
<1>4. 0 \in 0 .. MaxTurns
  BY ShellAssumption
<1> QED
  BY <1>1, <1>2, <1>3, <1>4 DEF Init, JobsInv

\* What a call is doing stays well typed.
LEMMA DoingType ==
    ASSUME JobsInv, Next PROVE doing' \in [Callers -> CallType]
<1>1. CASE TurnStarts \/ TurnEnds \/ CancelTurn \/ Close \/ Speak \/ Spoken
  BY <1>1 DEF TurnStarts, TurnEnds, CancelTurn, Close, Speak, Spoken, JobsInv
<1>2. ASSUME NEW j \in JobIds, JobStep(j) PROVE doing' = doing
  BY <1>2 DEF JobStep, Prints, Exits, Settle, WatchdogFires
<1>3. ASSUME NEW c \in Callers, CallStep(c)
      PROVE  doing' \in [Callers -> CallType]
  <2>1. doing \in [Callers -> CallType] /\ Idle \in CallType
    BY ShellAssumption DEF JobsInv, Idle, CallType
  <2>2. CASE Returns(c)
    BY <2>1, <2>2 DEF Returns
  <2>3. CASE Goes(c, "spawn")
    <3>1. [doing[c] EXCEPT !.op = "spawn"] \in CallType
      BY <2>1 DEF CallType
    <3> QED
      BY <2>1, <2>3, <3>1 DEF Goes
  <2>4. CASE doing' = doing
    BY <2>1, <2>4
  <2>5. ASSUME NEW j \in JobIds, Kill(c, j) \/ Wait(c, j) PROVE doing' \in [Callers -> CallType]
    <3>1. j \in 0 .. MaxJobs
      BY ShellAssumption DEF JobsInv, JobIds
    <3>2. [Idle EXCEPT !.op = "kill", !.job = j] \in CallType /\ [Idle EXCEPT !.op = "wait", !.job = j] \in CallType
      BY <3>1 DEF Idle, CallType
    <3> QED
      BY <2>1, <2>5, <3>2 DEF Kill, Wait
  <2> QED
    BY <1>3, <2>2, <2>3, <2>4, <2>5
       DEF CallStep, StartBackground, Spawned, SpawnFails, KillReturns, WaitReturns, Restart, Interrupt, Read
<1> QED
  BY <1>1, <1>2, <1>3 DEF Next, JobsInv

\* So do the jobs that wait to be announced.
LEMMA QueueType ==
    ASSUME JobsInv, Next PROVE queue' \in Seq(1 .. MaxJobs)
<1>1. queue \in Seq(1 .. MaxJobs) /\ <<>> \in Seq(1 .. MaxJobs)
  BY DEF JobsInv
<1>2. CASE TurnStarts \/ TurnEnds \/ CancelTurn \/ Close \/ Speak \/ Spoken
  BY <1>1, <1>2 DEF TurnStarts, TurnEnds, CancelTurn, Close, Shutdown, Speak, Spoken
<1>3. ASSUME NEW c \in Callers, CallStep(c) PROVE queue' = queue \/ queue' = <<>>
  BY <1>3 DEF CallStep, StartBackground, Spawned, SpawnFails, KillReturns, WaitReturns, Restart, Interrupt,
              Kill, Read, Wait, Shutdown
<1>4. ASSUME NEW j \in JobIds, JobStep(j) PROVE queue' = queue \/ queue' = Append(queue, j)
  BY <1>4 DEF JobStep, Prints, Exits, Settle, WatchdogFires, Enqueued
<1>5. ASSUME NEW j \in JobIds PROVE Append(queue, j) \in Seq(1 .. MaxJobs)
  <2>1. j \in 1 .. MaxJobs
    BY ShellAssumption DEF JobsInv, JobIds
  <2> QED
    BY <1>1, <2>1, AppendProperties
<1> QED
  BY <1>1, <1>2, <1>3, <1>4, <1>5 DEF Next

LEMMA JobsKept == JobsInv /\ [Next]_vars => JobsInv'
<1> SUFFICES ASSUME JobsInv, [Next]_vars PROVE JobsInv'
  OBVIOUS
<1>1. CASE UNCHANGED vars
  BY <1>1 DEF vars, JobsInv, JobIds
<1>2. CASE Next
  <2>1. JobsMove /\ doing' \in [Callers -> CallType] /\ queue' \in Seq(1 .. MaxJobs)
    BY <1>2, JobsStep, DoingType, QueueType
  <2>2. turn' \in TurnType /\ turns' \in 0 .. MaxTurns
    <3>1. CASE TurnStarts
      <4>1. turns + 1 \in 0 .. MaxTurns
        BY <3>1, ShellAssumption DEF TurnStarts, JobsInv
      <4> QED
        BY <3>1, <4>1 DEF TurnStarts, TurnType
    <3>2. CASE TurnEnds \/ CancelTurn \/ Close \/ Speak \/ Spoken
      <4>1. NoTurn \in TurnType
        BY ShellAssumption DEF NoTurn, TurnType
      <4>2. \A b \in BOOLEAN : [turn EXCEPT !.stopped = b] \in TurnType
        BY DEF JobsInv, TurnType
      <4>3. (turn.no > 0) \in BOOLEAN
        OBVIOUS
      <4> QED
        BY <3>2, <4>1, <4>2, <4>3 DEF TurnEnds, CancelTurn, Close, Speak, Spoken, JobsInv
    <3>3. ASSUME NEW c \in Callers, CallStep(c) PROVE UNCHANGED <<turn, turns>>
      BY <3>3 DEF CallStep, StartBackground, Spawned, SpawnFails, KillReturns, WaitReturns, Restart, Interrupt,
                  Kill, Read, Wait
    <3>4. ASSUME NEW j \in JobIds, JobStep(j) PROVE UNCHANGED <<turn, turns>>
      BY <3>4 DEF JobStep, Prints, Exits, Settle, WatchdogFires
    <3> QED
      BY <1>2, <3>1, <3>2, <3>3, <3>4 DEF Next, JobsInv
  <2>3. notifier' \in {"none", "waiting", "speaking"} /\ closed' \in BOOLEAN
    <3>1. CASE TurnStarts \/ TurnEnds \/ CancelTurn \/ Close
      BY <3>1 DEF TurnStarts, TurnEnds, CancelTurn, Close, Shutdown, JobsInv
    <3>2. CASE Speak \/ Spoken
      BY <3>2 DEF Speak, Spoken, JobsInv
    <3>3. ASSUME NEW c \in Callers, CallStep(c) PROVE UNCHANGED closed /\ notifier' \in {notifier, "none"}
      BY <3>3 DEF CallStep, StartBackground, Spawned, SpawnFails, KillReturns, WaitReturns, Restart, Interrupt,
                  Kill, Read, Wait, Shutdown
    <3>4. ASSUME NEW j \in JobIds, JobStep(j) PROVE UNCHANGED closed /\ notifier' \in {notifier, "waiting"}
      BY <3>4 DEF JobStep, Prints, Exits, Settle, WatchdogFires, Enqueued
    <3> QED
      BY <1>2, <3>1, <3>2, <3>3, <3>4 DEF Next, JobsInv
  <2> QED
    BY <2>1, <2>2, <2>3 DEF JobsInv, JobsMove, JobIds
<1> QED
  BY <1>1, <1>2

\* The inductive invariant of the background jobs: the stage of each job's
\* process, its ring's account and what is still to be announced.
THEOREM JobsAlways == Spec => []JobsInv
<1> QED
  BY JobsInit, JobsKept, PTL DEF Spec

\* For every bound of a ring, every filter and any number of calls: each line
\* a job printed was read once, is buffered in order, or was discarded and
\* counted, and the byte account is that of the buffered lines (ring.py:21).
THEOREM OutputKept == Spec => []OutputAccounted
<1>1. JobsInv => OutputAccounted
  <2> SUFFICES ASSUME JobsInv, NEW j \in JobIds
               PROVE  LET ring == jobs[j].ring
                      IN  /\ jobs[j].printed = jobs[j].taken + Len(ring.lines) + ring.discarded
                          /\ Increasing(ring.lines)
                          /\ ring.bytes = Bytes(ring.lines)
    BY DEF OutputAccounted, Increasing
  <2>1. Accounted(jobs[j])
    BY DEF JobsInv, JobOK
  <2> QED
    BY <2>1 DEF Accounted, RingOK
<1> QED
  BY <1>1, JobsAlways, PTL

\* Whatever the calls, the signals and the deadlines do, a job that is done
\* keeps its status and prints no more (session.py:382).
THEOREM EndIsFinal == Spec => DoneIsFinal
<1> DEFINE Final == \A j \in JobIds : jobs[j].done =>
                       jobs'[j].done /\ jobs'[j].status = jobs[j].status
                       /\ jobs'[j].printed = jobs[j].printed
<1>1. JobsInv /\ [Next]_vars => [Final]_vars
  <2> SUFFICES ASSUME JobsInv, Next PROVE Final
    OBVIOUS
  <2>1. JobsMove
    BY JobsStep
  <2> QED
    BY <2>1 DEF JobsMove, Moves
<1>2. Spec => [][Final]_vars
  BY <1>1, JobsAlways, PTL DEF Spec
<1> QED
  BY <1>2 DEF DoneIsFinal

-----------------------------------------------------------------------------
(* The end of the session                                                  *)

\* A call is only in the middle of something while its turn runs, and a turn
\* that close() found running is a cancelled one: no call starts anything
\* behind close().
CloseInv ==
    /\ \A c \in Callers : doing[c].op # "idle" => turn.no > 0
    /\ closed /\ turn.no > 0 => turn.stopped
    /\ NothingOutlivesClose

LEMMA CloseKept == JobsInv /\ CloseInv /\ [Next]_vars => CloseInv'
<1> SUFFICES ASSUME JobsInv, CloseInv, [Next]_vars PROVE CloseInv'
  OBVIOUS
<1>1. CASE UNCHANGED vars
  BY <1>1 DEF vars, CloseInv, NothingOutlivesClose, JobIds
<1>a. turn \in TurnType /\ doing \in [Callers -> CallType] /\ closed \in BOOLEAN
  BY DEF JobsInv
<1>2. ASSUME Next
      PROVE  /\ \A c \in Callers : doing'[c].op # "idle" => turn'.no > 0
             /\ closed' /\ turn'.no > 0 => turn'.stopped
  <2>1. CASE TurnStarts
    <3>1. turn'.no > 0 /\ ~closed' /\ doing' = doing
      BY <2>1, ShellAssumption DEF TurnStarts, JobsInv
    <3> QED
      BY <3>1
  <2>2. CASE TurnEnds
    BY <2>2 DEF TurnEnds, NoTurn
  <2>3. CASE CancelTurn \/ Close
    BY <1>a, <2>3 DEF CancelTurn, Close, CloseInv, TurnType
  <2>4. CASE Speak \/ Spoken
    BY <2>4 DEF Speak, Spoken, CloseInv
  <2>5. ASSUME NEW c \in Callers, CallStep(c)
        PROVE  /\ UNCHANGED <<turn, closed>>
               /\ \A d \in Callers : d # c => doing'[d] = doing[d]
               /\ doing'[c].op # "idle" => doing[c].op # "idle" \/ turn.no > 0
    <3> USE <1>a DEF CallType
    <3>1. CASE StartBackground(c)
      BY <3>1 DEF StartBackground, Free, Goes
    <3>2. CASE Spawned(c) \/ SpawnFails(c) \/ KillReturns(c) \/ WaitReturns(c) \/ Interrupt(c)
      BY <3>2 DEF Spawned, SpawnFails, KillReturns, WaitReturns, Interrupt, Returns, Idle
    <3>3. CASE Restart(c)
      BY <3>3 DEF Restart
    <3>4. ASSUME NEW j \in JobIds, Kill(c, j) \/ Read(c, j) \/ Wait(c, j)
          PROVE  /\ UNCHANGED <<turn, closed>>
                 /\ \A d \in Callers : d # c => doing'[d] = doing[d]
                 /\ turn.no > 0
      BY <3>4 DEF Kill, Read, Wait, Free
    <3> QED
      BY <2>5, <3>1, <3>2, <3>3, <3>4 DEF CallStep
  <2>6. ASSUME NEW c \in Callers, CallStep(c)
        PROVE  /\ \A d \in Callers : doing'[d].op # "idle" => turn'.no > 0
               /\ closed' /\ turn'.no > 0 => turn'.stopped
    BY <2>5, <2>6 DEF CloseInv
  <2>7. ASSUME NEW j \in JobIds, JobStep(j) PROVE UNCHANGED <<turn, closed, doing>>
    BY <2>7 DEF JobStep, Prints, Exits, Settle, WatchdogFires
  <2> QED
    BY <1>2, <2>1, <2>2, <2>3, <2>4, <2>6, <2>7 DEF Next, CloseInv
<1>3. ASSUME Next PROVE NothingOutlivesClose'
  <2>1. JobsMove
    BY <1>3, JobsStep
  <2>2. CASE closed' = closed /\ (closed => DOMAIN jobs' = JobIds)
    BY <2>1, <2>2 DEF CloseInv, NothingOutlivesClose, JobsMove, Moves, JobIds
  <2>3. CASE Shutdown
    BY <2>3, ShutdownMoves DEF NothingOutlivesClose, JobIds
  <2>4. ASSUME NEW c \in Callers, Spawned(c) PROVE closed' = closed /\ ~closed
    <3>1. doing[c].op = "spawn" /\ ~turn.stopped /\ closed' = closed
      BY <2>4 DEF Spawned, At
    <3> QED
      BY <3>1 DEF CloseInv
  <2>5. ASSUME NEW c \in Callers, NEW j \in JobIds, Kill(c, j) \/ Read(c, j) \/ Wait(c, j)
        PROVE  closed' = closed /\ DOMAIN jobs' = JobIds
    BY <2>5 DEF Kill, Read, Wait, JobIds
  <2>6. ASSUME NEW c \in Callers, CallStep(c)
        PROVE  Shutdown \/ (closed' = closed /\ (closed => DOMAIN jobs' = JobIds))
    <3>1. CASE StartBackground(c) \/ SpawnFails(c) \/ KillReturns(c) \/ Interrupt(c)
      BY <3>1 DEF StartBackground, SpawnFails, KillReturns, Interrupt, JobIds
    <3>2. CASE WaitReturns(c)
      BY <3>2 DEF WaitReturns, JobIds
    <3>3. CASE Restart(c)
      BY <3>3 DEF Restart
    <3> QED
      BY <2>4, <2>5, <2>6, <3>1, <3>2, <3>3 DEF CallStep
  <2>7. ASSUME NEW j \in JobIds, JobStep(j) PROVE closed' = closed /\ DOMAIN jobs' = JobIds
    BY <2>7 DEF JobStep, Prints, Exits, Settle, WatchdogFires, JobIds
  <2>8. ASSUME TurnStarts \/ TurnEnds \/ CancelTurn \/ Speak \/ Spoken
        PROVE  closed' = closed /\ DOMAIN jobs' = JobIds
    BY <2>8 DEF TurnStarts, TurnEnds, CancelTurn, Speak, Spoken, JobIds
  <2>9. ASSUME Close PROVE Shutdown
    BY <2>9 DEF Close
  <2> QED
    BY <1>3, <2>2, <2>3, <2>6, <2>7, <2>8, <2>9 DEF Next
<1> QED
  BY <1>1, <1>2, <1>3 DEF CloseInv

LEMMA CloseInit == Init => CloseInv
  BY DEF Init, CloseInv, NothingOutlivesClose, Idle

-----------------------------------------------------------------------------
(* The announcements                                                       *)

\* A job that may be announced.
Ended(j) == j \in JobIds /\ jobs[j].done /\ jobs[j].status # "killed"

\* Each job that ended waits at most once, or was announced once; what was
\* announced does not wait any more.
NewsInv ==
    /\ \A i, k \in DOMAIN queue : i # k => queue[i] # queue[k]
    /\ told \in Seq(Seq(Nat))
    /\ \A a \in DOMAIN told : Increasing(told[a])
    /\ \A a, b \in DOMAIN told : a # b => ToSet(told[a]) \cap ToSet(told[b]) = {}
    /\ \A a \in DOMAIN told : ToSet(told[a]) \cap ToSet(queue) = {}
    /\ \A j \in ToSet(queue) : Ended(j)
    /\ \A a \in DOMAIN told : \A j \in ToSet(told[a]) : Ended(j)

LEMMA NewsInit == Init => NewsInv
<1> SUFFICES ASSUME Init PROVE NewsInv
  OBVIOUS
<1>1. queue = <<>> /\ told = <<>> /\ ToSet(queue) = {}
  BY DEF Init, ToSet
<1> QED
  BY <1>1 DEF NewsInv

\* A job that ended has still ended after any step.
LEMMA EndedStays ==
    ASSUME JobsMove PROVE \A j : Ended(j) => Ended(j)'
  BY DEF JobsMove, Moves, Ended, JobIds

\* Announcing empties the queue into one list in start order.
LEMMA SpeakNews ==
    ASSUME JobsInv, NewsInv, JobsMove, queue' = <<>>, told' = Append(told, Ascending(ToSet(queue)))
    PROVE  NewsInv'
<1> DEFINE news == Ascending(ToSet(queue))
           n == Len(told) + 1
           size == Cardinality(ToSet(queue))
<1>1. queue \in [1 .. Len(queue) -> 1 .. MaxJobs] /\ DOMAIN queue = 1 .. Len(queue)
  <2>1. queue \in Seq(1 .. MaxJobs)
    BY DEF JobsInv
  <2> QED
    BY <2>1, LenProperties
<1>2. ToSet(queue) \in SUBSET (1 .. MaxJobs)
  BY <1>1 DEF ToSet
<1>3. IsFiniteSet(1 .. MaxJobs)
  <2>1. 1 \in Int /\ MaxJobs \in Int
    BY ShellAssumption
  <2> QED
    BY ONLY <2>1, FS_Interval
<1>4. ToSet(queue) \in SUBSET Nat /\ IsFiniteSet(ToSet(queue)) /\ size \in Nat
  <2>1. (1 .. MaxJobs) \in SUBSET Nat
    BY ShellAssumption
  <2>2. IsFiniteSet(ToSet(queue))
    BY <1>2, <1>3, FS_Subset
  <2> QED
    BY <1>2, <2>1, <2>2, FS_CardinalityType
<1>5. /\ news \in [1 .. size -> ToSet(queue)]
      /\ \A i, k \in 1 .. size : i < k => news[i] < news[k]
  BY <1>4, AscendingLists
<1> HIDE DEF news, size
<1>6. news \in Seq(Nat) /\ DOMAIN news = 1 .. size
  BY <1>4, <1>5
<1>7. Increasing(news) /\ ToSet(news) \in SUBSET ToSet(queue)
  BY <1>5, <1>6 DEF Increasing, ToSet
<1>8. /\ told' \in Seq(Seq(Nat)) /\ DOMAIN told' = 1 .. n /\ told'[n] = news
      /\ \A a \in DOMAIN told : a \in 1 .. n /\ a # n /\ told'[a] = told[a]
      /\ \A a \in 1 .. n : a \in DOMAIN told \/ a = n
      /\ n \in Nat
  <2>1. told \in Seq(Seq(Nat)) /\ told' = Append(told, news)
    BY DEF NewsInv, news
  <2> QED
    BY <1>6, <2>1, AppendProperties
<1>9. ToSet(queue') = {} /\ DOMAIN queue' = {}
  BY DEF ToSet
<1> HIDE DEF n
<1>10. \A a \in DOMAIN told' : Increasing(told'[a])
  BY <1>7, <1>8 DEF NewsInv
<1>11. \A a, b \in DOMAIN told' : a # b => ToSet(told'[a]) \cap ToSet(told'[b]) = {}
  <2> TAKE a \in DOMAIN told', b \in DOMAIN told'
  <2>1. CASE a \in DOMAIN told /\ b \in DOMAIN told
    BY <1>8, <2>1 DEF NewsInv
  <2>2. CASE a \in DOMAIN told /\ b = n
    <3>1. ToSet(told[a]) \cap ToSet(queue) = {} /\ told'[a] = told[a] /\ told'[b] = news
      BY <1>8, <2>2 DEF NewsInv
    <3> QED
      BY <1>7, <3>1
  <2>3. CASE a = n /\ b \in DOMAIN told
    <3>1. ToSet(told[b]) \cap ToSet(queue) = {} /\ told'[b] = told[b] /\ told'[a] = news
      BY <1>8, <2>3 DEF NewsInv
    <3> QED
      BY <1>7, <3>1
  <2> QED
    BY <1>8, <2>1, <2>2, <2>3
<1>12. ASSUME NEW a \in DOMAIN told', NEW j \in ToSet(told'[a]) PROVE Ended(j)'
  <2>1. Ended(j)
    BY <1>7, <1>8 DEF NewsInv
  <2> QED
    BY <2>1, EndedStays
<1> QED
  BY <1>8, <1>9, <1>10, <1>11, <1>12 DEF NewsInv

\* A settled job joins the queue as a job that was not done before.
LEMMA SettleNews ==
    ASSUME JobsInv, NewsInv, JobsMove, NEW j \in JobIds, ~jobs[j].done, Ended(j)',
           queue' = Append(queue, j), told' = told
    PROVE  NewsInv'
<1>1. queue \in Seq(1 .. MaxJobs)
  BY DEF JobsInv
<1>2. j \notin ToSet(queue) /\ \A a \in DOMAIN told : j \notin ToSet(told[a])
  BY DEF NewsInv, Ended
<1> DEFINE n == Len(queue) + 1
<1>3. /\ DOMAIN queue' = 1 .. n /\ queue'[n] = j /\ DOMAIN queue = 1 .. Len(queue)
      /\ \A i \in DOMAIN queue : i \in 1 .. n /\ i # n /\ queue'[i] = queue[i]
      /\ \A i \in 1 .. n : i \in DOMAIN queue \/ i = n
  <2>1. j \in 1 .. MaxJobs
    BY ShellAssumption DEF JobsInv, JobIds
  <2> QED
    BY <1>1, <2>1, AppendProperties
<1> HIDE DEF n
<1>4. ToSet(queue') = ToSet(queue) \union {j}
  <2>1. n \in 1 .. n
    BY <1>1 DEF n
  <2> QED
    BY <1>3, <2>1 DEF ToSet
<1>5. \A i, k \in DOMAIN queue' : i # k => queue'[i] # queue'[k]
  BY <1>2, <1>3 DEF NewsInv, ToSet
<1>6. \A a \in DOMAIN told : ToSet(told[a]) \cap ToSet(queue') = {}
  BY <1>2, <1>4 DEF NewsInv
<1>7. \A i \in ToSet(queue') : Ended(i)'
  BY <1>4, EndedStays DEF NewsInv
<1>8. \A a \in DOMAIN told : \A i \in ToSet(told[a]) : Ended(i)'
  BY EndedStays DEF NewsInv
<1> QED
  BY <1>5, <1>6, <1>7, <1>8 DEF NewsInv

\* Every other step announces nothing and adds nothing.
LEMMA QuietNews ==
    ASSUME NewsInv, JobsMove, queue' = queue \/ queue' = <<>>, told' = told
    PROVE  NewsInv'
<1>1. \A a \in DOMAIN told : \A i \in ToSet(told[a]) : Ended(i)'
  BY EndedStays DEF NewsInv
<1>2. CASE queue' = queue
  <2>1. \A i \in ToSet(queue) : Ended(i)'
    BY EndedStays DEF NewsInv
  <2> QED
    BY <1>1, <1>2, <2>1 DEF NewsInv
<1>3. CASE queue' = <<>>
  <2>1. ToSet(queue') = {} /\ DOMAIN queue' = {}
    BY <1>3 DEF ToSet
  <2> QED
    BY <1>1, <2>1 DEF NewsInv
<1> QED
  BY <1>2, <1>3

LEMMA NewsKept == JobsInv /\ NewsInv /\ [Next]_vars => NewsInv'
<1> SUFFICES ASSUME JobsInv, NewsInv, [Next]_vars PROVE NewsInv'
  OBVIOUS
<1>1. CASE UNCHANGED vars
  <2>1. JobsMove
    BY <1>1, NoneMoves DEF vars
  <2> QED
    BY <1>1, <2>1, QuietNews DEF vars
<1>2. CASE Next
  <2>1. JobsMove
    BY <1>2, JobsStep
  <2>2. CASE TurnStarts \/ TurnEnds \/ CancelTurn \/ Close \/ Spoken
    BY <2>1, <2>2, QuietNews DEF TurnStarts, TurnEnds, CancelTurn, Close, Shutdown, Spoken
  <2>3. CASE Speak
    <3>1. CASE queue = <<>>
      BY <2>1, <2>3, <3>1, QuietNews DEF Speak
    <3>2. CASE queue # <<>>
      BY <2>1, <2>3, <3>2, SpeakNews DEF Speak
    <3> QED
      BY <3>1, <3>2
  <2>4. ASSUME NEW c \in Callers, CallStep(c) PROVE NewsInv'
    <3>1. told' = told /\ (queue' = queue \/ queue' = <<>>)
      BY <2>4 DEF CallStep, StartBackground, Spawned, SpawnFails, KillReturns, WaitReturns, Restart, Interrupt,
                  Kill, Read, Wait, Shutdown
    <3> QED
      BY <2>1, <3>1, QuietNews
  <2>5. ASSUME NEW j \in JobIds, JobStep(j) PROVE NewsInv'
    <3>1. CASE Settle(j)
      <4>1. ~jobs[j].done /\ jobs'[j] = Settled(jobs[j]) /\ j \in DOMAIN jobs' /\ told' = told
        BY <3>1 DEF Settle, Running, JobIds
      <4>2. Settled(jobs[j]).done
        BY <3>1, SignalMoves DEF Settle, Running, JobsInv
      <4>3. CASE queue' = queue
        BY <2>1, <4>1, <4>3, QuietNews
      <4>4. CASE jobs'[j].status # "killed" /\ queue' = Append(queue, j)
        <5>1. Ended(j)'
          BY <4>1, <4>2, <4>4 DEF Ended, JobIds
        <5> QED
          BY <2>1, <4>1, <4>4, <5>1, SettleNews
      <4> QED
        BY <3>1, <4>3, <4>4 DEF Settle, Enqueued
    <3>2. CASE Prints(j) \/ Exits(j) \/ WatchdogFires(j)
      BY <2>1, <3>2, QuietNews DEF Prints, Exits, WatchdogFires
    <3> QED
      BY <2>5, <3>1, <3>2 DEF JobStep
  <2> QED
    BY <1>2, <2>2, <2>3, <2>4, <2>5 DEF Next
<1> QED
  BY <1>1, <1>2

-----------------------------------------------------------------------------
(* What is said of a job's end                                             *)

\* The ring of a job is typed by what the job printed.
LEMMA JobTyped ==
    ASSUME NEW job, JobOK(job) PROVE job \in Job /\ Len(job.ring.lines) <= MaxLines
<1>1. /\ job \in JobType /\ RingOK(job.ring, job.printed)
      /\ job.printed = job.taken + Len(job.ring.lines) + job.ring.discarded
  BY DEF JobOK, Accounted
<1>2. job.printed \in Nat /\ job.printed <= MaxPrinted /\ job.taken \in Nat
  BY <1>1, ShellAssumption DEF JobType, Counts
<1>3. /\ job.ring \in [lines : Seq(1 .. job.printed), bytes : Nat, discarded : Nat]
      /\ Len(job.ring.lines) <= MaxLines /\ job.ring.bytes <= MaxBytes
  BY <1>1 DEF RingOK
<1>4. Len(job.ring.lines) \in Nat /\ job.ring.discarded \in Nat /\ job.ring.bytes \in Nat
  BY <1>3
<1>5. job.taken \in 0 .. MaxPrinted /\ job.ring.discarded \in 0 .. MaxPrinted
  BY <1>1, <1>2, <1>4, ShellAssumption
<1>6. job.ring.lines \in Seq(1 .. MaxPrinted)
  BY <1>2, <1>3, LongerOutput, ShellAssumption
<1>7. job.ring.bytes \in 0 .. MaxBytes
  BY <1>3, <1>4, RingAssumption
<1> DEFINE Bounded == [lines: Seq(1..MaxPrinted), bytes: 0..MaxBytes, discarded: 0..MaxPrinted]
<1>8. job.ring \in Bounded
  BY <1>3, <1>5, <1>6, <1>7
<1> HIDE DEF Bounded
<1>9. job \in [proc: {"alive", "doomed", "exited"},
               status: {"running", "completed", "killed", "timed_out"},
               done: BOOLEAN, watched: BOOLEAN, listed: BOOLEAN, ring: Bounded,
               printed: 0..MaxPrinted, taken: 0..MaxPrinted, asked: BOOLEAN, overdue: BOOLEAN]
  BY <1>1, <1>5, <1>8 DEF JobType, Counts
<1> QED
  BY <1>3, <1>9 DEF Job, Bounded

\* For every number of calls, jobs and turns: a job is reported killed only if
\* somebody asked, timed out only if its deadline signalled it, and completed
\* only if neither had; each end is announced at most once and in order
\* (session.py:588); and behind close() no process is alive (plugin.py:50).
THEOREM EndsTold == Spec => []EndingsTrue
<1>1. JobsInv => TypeOK
  <2> SUFFICES ASSUME JobsInv PROVE TypeOK
    OBVIOUS
  <2>1. ASSUME NEW j \in JobIds PROVE jobs[j] \in Job /\ Len(jobs[j].ring.lines) <= MaxLines
    BY JobTyped DEF JobsInv
  <2>2. JobIds = 1 .. Len(jobs) /\ Len(jobs) \in Nat /\ jobs \in [1 .. Len(jobs) -> JobType]
    BY DEF JobsInv, JobIds
  <2>3. jobs \in [1 .. Len(jobs) -> Job]
    BY <2>1, <2>2
  <2>4. jobs \in Seq(Job)
    BY <2>2, <2>3
  <2> QED
    BY <2>1, <2>4 DEF TypeOK, JobsInv, TurnType, CallType
<1>2. JobsInv => StatusTrue
  <2> SUFFICES ASSUME JobsInv, NEW j \in JobIds, jobs[j].done
               PROVE  CASE jobs[j].status = "killed" -> jobs[j].asked
                        [] jobs[j].status = "timed_out" -> jobs[j].overdue
                        [] OTHER -> jobs[j].status = "completed" /\ ~jobs[j].asked /\ ~jobs[j].overdue
    BY DEF StatusTrue
  <2>1. jobs[j] \in JobType /\ EndsWell(jobs[j])
    BY DEF JobsInv, JobOK
  <2>2. jobs[j].status \in {"completed", "killed", "timed_out"}
    BY <2>1 DEF EndsWell, JobType
  <2> QED
    BY <2>1, <2>2 DEF EndsWell
<1>3. NewsInv => AnnouncedOnce
  BY DEF NewsInv, AnnouncedOnce, Increasing, Ended
<1>4. Spec => [](JobsInv /\ CloseInv /\ NewsInv)
  BY JobsInit, JobsKept, CloseInit, CloseKept, NewsInit, NewsKept, PTL DEF Spec
<1>5. JobsInv /\ CloseInv /\ NewsInv => EndingsTrue
  BY <1>1, <1>2, <1>3 DEF EndingsTrue, CloseInv
<1> QED
  BY <1>4, <1>5, PTL

-----------------------------------------------------------------------------
(* Discovery                                                               *)

\* What is discovered for a project is on disk.
LEMMA DiscoveredAre ==
    ASSUME NEW p \in DOMAIN Projects, NEW reserved
    PROVE  LET specs == Discover(Projects[p], reserved)
           IN  /\ Range(specs) \subseteq DOMAIN disk
               /\ IsFiniteSet(DOMAIN specs) /\ DOMAIN specs \in SUBSET Nat
<1> DEFINE at == Searched(Projects[p])
           found == {i \in DOMAIN at : at[i] \in DOMAIN disk /\ Has(disk[at[i]], "manifest")}
           first == {i \in found : /\ NameAt(at[i]) \notin reserved
                                   /\ \A j \in found : NameAt(at[j]) = NameAt(at[i]) => i <= j}
<1>1. Len(Projects[p]) \in Int /\ Len(Directories) \in Int
  BY PluginDiskAssumption, LenProperties
<1>2. Len(Projects[p]) * Len(Directories) \in Int
  BY <1>1
<1>3. DOMAIN at = 1 .. Len(Projects[p]) * Len(Directories)
  BY DEF Searched
<1>4. IsFiniteSet(DOMAIN at) /\ DOMAIN at \in SUBSET Nat
  BY <1>2, <1>3, FS_Interval
<1>5. first \in SUBSET DOMAIN at
  OBVIOUS
<1>6. IsFiniteSet(first) /\ first \in SUBSET Nat
  BY <1>4, <1>5, FS_Subset
<1>7. Discover(Projects[p], reserved) = ItemsAt(at, first)
  BY DEF Discover
<1>8. \A i \in first : at[i] \in DOMAIN disk
  OBVIOUS
<1> HIDE DEF at, first
<1>9. /\ \A x \in Range(ItemsAt(at, first)) : \E i \in first : x = at[i]
      /\ IsFiniteSet(DOMAIN ItemsAt(at, first)) /\ DOMAIN ItemsAt(at, first) \in SUBSET Nat
  BY <1>6, PickedAre
<1>10. Range(ItemsAt(at, first)) \subseteq DOMAIN disk
  BY <1>8, <1>9
<1> QED
  BY <1>7, <1>9, <1>10

\* What a load takes of it is, too.
LEMMA TakenAre ==
    ASSUME NEW p \in DOMAIN Projects, NEW codes
    PROVE  LET specs == Discover(Projects[p], Reserved)
           IN  Range(ItemsAt(specs, {n \in DOMAIN specs : CodeAt(specs[n]) \in codes})) \subseteq DOMAIN disk
<1> DEFINE specs == Discover(Projects[p], Reserved)
           at == {n \in DOMAIN specs : CodeAt(specs[n]) \in codes}
<1>1. /\ Range(specs) \subseteq DOMAIN disk
      /\ IsFiniteSet(DOMAIN specs) /\ DOMAIN specs \in SUBSET Nat
  BY DiscoveredAre
<1>2. at \in SUBSET DOMAIN specs /\ \A n \in at : specs[n] \in Range(specs)
  BY DEF Range
<1>3. IsFiniteSet(at) /\ at \in SUBSET Nat
  BY <1>1, <1>2, FS_Subset
<1> HIDE DEF specs, at
<1>4. Range(ItemsAt(specs, at)) \subseteq DOMAIN disk
  BY <1>1, <1>2, <1>3, PickedAre
<1> QED
  BY <1>4 DEF specs, at

-----------------------------------------------------------------------------
(* What is on disk                                                         *)

Whole(tree) == \E s \in Sources : tree.parts = Parts(s)
Unmixed(tree) == \E s \in Sources : tree.parts \subseteq Parts(s)

\* The command that is making the plugin at a place, or removing it.
InHand(place) == command.op \in {"copy", "remove"} /\ command.place = place

DiskTyped ==
    /\ DOMAIN disk \subseteq Places
    /\ \A place \in DOMAIN disk : disk[place] \in Trees /\ Unmixed(disk[place])

\* A copy brings what is missing of one source; other commands have a place.
CommandOk ==
    \/ command = NoCommand
    \/ \E place \in DOMAIN disk :
           \/ command \in [op : {"sync", "remove"}, place : {place}]
           \/ \E s \in Sources : \E left \in SUBSET Parts(s) :
                  /\ command = [op |-> "copy", place |-> place, left |-> left]
                  /\ disk[place].parts \union left = Parts(s)

WholeOrNot == \A place \in DOMAIN disk : place \in cut \/ InHand(place) \/ Whole(disk[place])
LoadedTyped == \A p \in DOMAIN loaded : Range(loaded[p]) \subseteq Places

\* The inductive invariant.
DiskInv == DiskTyped /\ CommandOk /\ WholeOrNot /\ LoadedTyped

LEMMA DiskStarts == DiskInit => DiskInv
<1> SUFFICES ASSUME DiskInit PROVE DiskInv
  OBVIOUS
<1>1. DiskTyped /\ WholeOrNot
  BY PlacedAssumption DEF DiskInit, DiskTyped, WholeOrNot, Whole, Unmixed
<1>2. CommandOk /\ LoadedTyped
  BY DEF DiskInit, CommandOk, LoadedTyped
<1> QED
  BY <1>1, <1>2 DEF DiskInv

\* The commands change the disk at most at one place, those that load not.
LEMMA InstallKeeps ==
    ASSUME DiskInv, NEW source \in Sources, NEW root \in Roots, Install(source, root)
    PROVE  DiskInv'
<1> DEFINE place == <<root, source.name>>
           empty == [parts |-> {}, env |-> "none"]
<1>1. /\ place \notin DOMAIN disk /\ command = NoCommand
      /\ command' = [op |-> "copy", place |-> place, left |-> Parts(source)]
      /\ DOMAIN disk' = DOMAIN disk \union {place}
      /\ disk'[place] = empty /\ \A other \in DOMAIN disk : disk'[other] = disk[other]
      /\ cut' = cut /\ loaded' = loaded
  BY DEF Install, Starts, Put, Quiet
<1>2. place \in Places /\ empty \in Trees /\ Unmixed(empty)
  BY PluginDiskAssumption DEF Places, Trees, Unmixed
<1> HIDE DEF place
<1>3. DiskTyped'
  BY <1>1, <1>2 DEF DiskInv, DiskTyped, Unmixed
<1>4. CommandOk'
  <2>1. Parts(source) \in SUBSET Parts(source) /\ disk'[place].parts \union Parts(source) = Parts(source)
    BY <1>1
  <2> QED
    BY <1>1, <2>1 DEF CommandOk
<1>5. WholeOrNot'
  BY <1>1 DEF DiskInv, WholeOrNot, InHand, Whole, NoCommand
<1>6. LoadedTyped'
  BY <1>1 DEF DiskInv, LoadedTyped
<1> QED
  BY <1>3, <1>4, <1>5, <1>6 DEF DiskInv

LEMMA CopiesKeeps ==
    ASSUME DiskInv, command # NoCommand, Doing("copy"), NEW part \in command.left, Copies(part)
    PROVE  DiskInv'
<1>0. PICK place \in DOMAIN disk, source \in Sources : \E left \in SUBSET Parts(source) :
           /\ command = [op |-> "copy", place |-> place, left |-> left]
           /\ disk[place].parts \union left = Parts(source)
  BY DEF DiskInv, CommandOk, Doing, NoCommand
<1>1. PICK left :
           /\ left \in SUBSET Parts(source)
           /\ command = [op |-> "copy", place |-> place, left |-> left]
           /\ disk[place].parts \union left = Parts(source)
  BY <1>0
<1> DEFINE tree == [disk[place] EXCEPT !.parts = @ \union {part}]
           rest == left \ {part}
<1>2. /\ disk[place] \in Trees /\ place \in Places /\ part \in Parts(source)
  BY <1>1 DEF DiskInv, DiskTyped
<1>3. /\ tree \in Trees /\ tree.parts = disk[place].parts \union {part}
      /\ tree.parts \union rest = Parts(source)
  BY <1>1, <1>2 DEF Trees
<1>4. /\ DOMAIN disk' = DOMAIN disk
      /\ disk'[place] = tree /\ \A other \in DOMAIN disk \ {place} : disk'[other] = disk[other]
      /\ command' = IF rest # {} THEN [op |-> "copy", place |-> place, left |-> rest]
                    ELSE IF Has(tree, "pyproject") THEN [op |-> "sync", place |-> place]
                    ELSE NoCommand
      /\ cut' = cut /\ loaded' = loaded
  BY <1>1 DEF Copies, Put, Quiet
<1> HIDE DEF tree, rest
<1>5. DiskTyped'
  BY <1>2, <1>3, <1>4 DEF DiskInv, DiskTyped, Unmixed
<1>6. CommandOk'
  <2>1. rest \in SUBSET Parts(source)
    BY <1>3
  <2>2. CASE rest # {}
    BY <1>3, <1>4, <2>1, <2>2 DEF CommandOk
  <2>3. CASE rest = {}
    BY <1>4, <2>3 DEF CommandOk
  <2> QED
    BY <2>2, <2>3
<1>7. WholeOrNot'
  <2>1. ASSUME NEW other \in DOMAIN disk \ {place} PROVE other \in cut' \/ Whole(disk'[other])
    BY <1>1, <1>4 DEF DiskInv, WholeOrNot, InHand
  <2>2. CASE rest # {}
    BY <1>4, <2>1, <2>2 DEF WholeOrNot, InHand
  <2>3. CASE rest = {}
    BY <1>3, <1>4, <2>1, <2>3 DEF WholeOrNot, Whole
  <2> QED
    BY <2>2, <2>3
<1>8. LoadedTyped'
  BY <1>4 DEF DiskInv, LoadedTyped
<1> QED
  BY <1>5, <1>6, <1>7, <1>8 DEF DiskInv

\* A command that addresses a plugin by its name starts at its place.
LEMMA AddressKeeps ==
    ASSUME DiskInv, NEW project \in DOMAIN Projects, NEW name,
           Sync(project, name) \/ RemovePlugin(project, name)
    PROVE  DiskInv'
<1>1. PICK place \in Addressed(project, name), op \in {"sync", "remove"} :
           Starts([op |-> op, place |-> place]) /\ UNCHANGED <<disk, cut, loaded>>
  BY DEF Sync, RemovePlugin, Quiet
<1>2. place \in DOMAIN disk
  BY DiscoveredAre DEF Addressed
<1>3. command = NoCommand /\ command' = [op |-> op, place |-> place] /\ disk' = disk /\ cut' = cut /\ loaded' = loaded
  BY <1>1 DEF Starts
<1>4. CommandOk'
  BY <1>2, <1>3 DEF CommandOk
<1>5. DiskTyped' /\ WholeOrNot' /\ LoadedTyped'
  BY <1>3 DEF DiskInv, DiskTyped, WholeOrNot, InHand, LoadedTyped, NoCommand, Whole, Unmixed
<1> QED
  BY <1>4, <1>5 DEF DiskInv

\* An environment that is made or filled leaves the plugin's files alone.
LEMMA EnvironmentKeeps ==
    ASSUME DiskInv, MakesEnv \/ SyncEnds
    PROVE  DiskInv'
<1>1. PICK place \in DOMAIN disk : command = [op |-> "sync", place |-> place]
  BY DEF DiskInv, CommandOk, MakesEnv, SyncEnds, Doing, NoCommand
<1>2. /\ DOMAIN disk' = DOMAIN disk /\ cut' = cut /\ loaded' = loaded
      /\ command' \in {command, NoCommand}
      /\ \A other \in DOMAIN disk : /\ disk'[other].parts = disk[other].parts
                                    /\ disk'[other] \in Trees
  <2>1. \A other \in DOMAIN disk : disk[other] \in Trees
    BY DEF DiskInv, DiskTyped
  <2>2. disk' = disk \/ \E env \in {"made", "filled"} : disk' = [disk EXCEPT ![place].env = env]
    BY <1>1 DEF MakesEnv, SyncEnds
  <2>3. cut' = cut /\ loaded' = loaded /\ command' \in {command, NoCommand}
    BY DEF MakesEnv, SyncEnds, Quiet
  <2> QED
    BY <2>1, <2>2, <2>3 DEF Trees
<1>3. DiskTyped'
  BY <1>2 DEF DiskInv, DiskTyped, Unmixed
<1>4. CommandOk'
  BY <1>1, <1>2 DEF CommandOk
<1>5. WholeOrNot' /\ LoadedTyped'
  BY <1>1, <1>2 DEF DiskInv, WholeOrNot, InHand, Whole, LoadedTyped
<1> QED
  BY <1>3, <1>4, <1>5 DEF DiskInv

LEMMA DeletesKeeps ==
    ASSUME DiskInv, Deletes
    PROVE  DiskInv'
<1>1. PICK place \in DOMAIN disk : command = [op |-> "remove", place |-> place]
  BY DEF DiskInv, CommandOk, Deletes, Doing, NoCommand
<1>2. cut' = cut \intersect DOMAIN disk' /\ loaded' = loaded
  BY DEF Deletes, Quiet
<1>3. CASE command' = command
  <2>1. /\ DOMAIN disk' = DOMAIN disk
        /\ \A other \in DOMAIN disk \ {place} : disk'[other] = disk[other]
        /\ disk'[place].parts \subseteq disk[place].parts /\ disk'[place] \in Trees
    <3>1. disk[place] \in Trees
      BY DEF DiskInv, DiskTyped
    <3>2. \/ \E part \in disk[place].parts : disk' = [disk EXCEPT ![place].parts = @ \ {part}]
          \/ disk' = [disk EXCEPT ![place].env = "none"]
      BY <1>1, <1>3 DEF Deletes, NoCommand
    <3> QED
      BY <3>1, <3>2 DEF Trees
  <2>2. DiskTyped'
    BY <2>1 DEF DiskInv, DiskTyped, Unmixed
  <2>3. CommandOk'
    BY <1>1, <1>3, <2>1 DEF CommandOk
  <2>4. WholeOrNot'
    BY <1>1, <1>2, <1>3, <2>1 DEF DiskInv, WholeOrNot, InHand, Whole
  <2> QED
    BY <1>2, <2>2, <2>3, <2>4 DEF DiskInv, LoadedTyped
<1>4. CASE command' # command
  <2>1. /\ command' = NoCommand
        /\ disk' = [other \in DOMAIN disk \ {place} |-> disk[other]]
    BY <1>1, <1>4 DEF Deletes, Restrict
  <2>2. DiskTyped' /\ CommandOk' /\ WholeOrNot' /\ LoadedTyped'
    BY <1>1, <1>2, <2>1
       DEF DiskInv, DiskTyped, CommandOk, WholeOrNot, InHand, LoadedTyped, Whole, Unmixed
  <2> QED
    BY <2>2 DEF DiskInv
<1> QED
  BY <1>3, <1>4

LEMMA CutShortKeeps ==
    ASSUME DiskInv, CutShort
    PROVE  DiskInv'
<1>1. /\ command # NoCommand /\ command' = NoCommand /\ disk' = disk /\ loaded' = loaded
      /\ cut' = IF Doing("sync") THEN cut ELSE cut \union {command.place}
  BY DEF CutShort, Quiet
<1>2. DiskTyped' /\ CommandOk' /\ LoadedTyped'
  BY <1>1 DEF DiskInv, DiskTyped, CommandOk, LoadedTyped, Unmixed
<1>3. WholeOrNot'
  BY <1>1 DEF DiskInv, WholeOrNot, InHand, Doing, Whole
<1> QED
  BY <1>2, <1>3 DEF DiskInv

\* What a process loads and imports is no matter of the disk's.
LEMMA ProcessKeeps ==
    ASSUME DiskInv,
           Restarts \/ \E project \in DOMAIN Projects : Loads(project) \/ LoadFails(project)
    PROVE  DiskInv'
<1>1. disk' = disk /\ command' = command /\ cut' = cut
  BY DEF Restarts, Loads, LoadFails
<1>2. DiskTyped' /\ CommandOk' /\ WholeOrNot'
  BY <1>1 DEF DiskInv, DiskTyped, CommandOk, WholeOrNot, InHand, Whole, Unmixed
<1>3. CASE Restarts
  <2>1. LoadedTyped'
    BY <1>3 DEF Restarts, LoadedTyped
  <2> QED
    BY <1>2, <2>1 DEF DiskInv
<1>4. ASSUME NEW project \in DOMAIN Projects, Loads(project) PROVE LoadedTyped'
  <2> DEFINE specs == Discover(Projects[project], Reserved)
             good == ItemsWith(specs, {"good"})
  <2>1. loaded' = [p \in DOMAIN loaded \union {project} |-> IF p = project THEN good ELSE loaded[p]]
    BY <1>4 DEF Loads
  <2>2. Range(good) \subseteq Places
    BY TakenAre DEF DiskInv, DiskTyped, ItemsWith
  <2> HIDE DEF good
  <2> QED
    BY <2>1, <2>2 DEF DiskInv, LoadedTyped
<1>5. ASSUME NEW project \in DOMAIN Projects, LoadFails(project) PROVE LoadedTyped'
  BY <1>5 DEF LoadFails, DiskInv, LoadedTyped
<1> QED
  BY <1>2, <1>3, <1>4, <1>5 DEF DiskInv

LEMMA DiskKept == ASSUME DiskInv, [DiskNext]_diskVars PROVE DiskInv'
<1>1. CASE UNCHANGED diskVars
  BY <1>1 DEF diskVars, DiskInv, DiskTyped, CommandOk, WholeOrNot, InHand, LoadedTyped, Whole, Unmixed
<1> QED
  BY <1>1, InstallKeeps, CopiesKeeps, AddressKeeps, EnvironmentKeeps, DeletesKeeps, CutShortKeeps, ProcessKeeps
     DEF DiskNext

\* install.py: whatever is installed, synced and removed, in whatever order, and
\* wherever a command is cut short, a directory never mixes what two sources
\* shipped, and one that no command left half done is a plugin, whole.
THEOREM DirectoriesAlwaysWhole == DiskSpec => []DirectoriesWhole
<1>1. DiskInv => DirectoriesWhole
  <2> SUFFICES ASSUME DiskInv PROVE DirectoriesWhole
    OBVIOUS
  <2>1. DiskTypeOK
    BY DEF DiskInv, DiskTyped, CommandOk, LoadedTyped, DiskTypeOK, Trees
  <2>2. ASSUME NEW place \in DOMAIN disk PROVE Cardinality({part[2] : part \in disk[place].parts}) <= 1
    <3>1. PICK source \in Sources : disk[place].parts \subseteq Parts(source)
      BY DEF DiskInv, DiskTyped, Unmixed
    <3>2. {part[2] : part \in disk[place].parts} \in SUBSET {source}
      BY <3>1 DEF Parts
    <3>3. IsFiniteSet({source}) /\ Cardinality({source}) = 1
      BY FS_Singleton
    <3> HIDE DEF Parts
    <3> QED
      BY <3>2, <3>3, FS_Subset
  <2>3. ASSUME NEW place \in DOMAIN disk
        PROVE  \/ place \in cut \/ (command # NoCommand /\ command.place = place)
               \/ \E source \in Sources : disk[place].parts = Parts(source)
    BY DEF DiskInv, WholeOrNot, InHand, Whole, NoCommand
  <2> QED
    BY <2>1, <2>2, <2>3 DEF DirectoriesWhole
<1> QED
  BY <1>1, DiskStarts, DiskKept, PTL DEF DiskSpec

-----------------------------------------------------------------------------
(* What is searched                                                        *)

\* Rows of "w" places, one after the other.
LEMMA Rows ==
    ASSUME NEW w \in Nat, NEW a \in Nat, NEW b \in Nat, a < b
    PROVE  a * w + w <= b * w
<1>1. PICK c \in Nat : b = a + 1 + c
  <2>1. b - a - 1 \in Nat /\ b = a + 1 + (b - a - 1)
    OBVIOUS
  <2> QED
    BY <2>1
<1>2. b * w = a * w + w + c * w
  BY <1>1
<1>3. c * w \in Nat /\ a * w \in Nat
  OBVIOUS
<1> QED
  BY <1>2, <1>3

LEMMA RowAndPlace ==
    ASSUME NEW w \in Nat, NEW m \in Nat, NEW d \in 0 .. w - 1
    PROVE  (m * w + d) \div w = m /\ (m * w + d) % w = d
<1> DEFINE x == m * w + d
           q == x \div w
           r == x % w
<1>1. w \in Nat \ {0} /\ x \in Nat
  OBVIOUS
<1>2. q \in Nat /\ r \in 0 .. w - 1 /\ x = q * w + r
  <2> HIDE DEF x
  <2> QED
    BY <1>1
<1> HIDE DEF q, r
<1>3. q = m
  <2>1. CASE q < m
    <3>1. q * w + w <= m * w /\ q * w \in Nat /\ m * w \in Nat
      BY <1>2, <2>1, Rows
    <3> QED
      BY <1>2, <3>1
  <2>2. CASE m < q
    <3>1. m * w + w <= q * w /\ q * w \in Nat /\ m * w \in Nat
      BY <1>2, <2>2, Rows
    <3> QED
      BY <1>2, <3>1
  <2> QED
    BY <1>2, <2>1, <2>2
<1>4. r = d
  <2>1. q * w = m * w /\ m * w \in Nat
    BY <1>3
  <2> QED
    BY <1>2, <2>1
<1> QED
  BY <1>3, <1>4 DEF q, r

LEMMA RowOfPlace ==
    ASSUME NEW w \in Nat, NEW n \in Nat, NEW x \in Nat, x < n * w
    PROVE  /\ w # 0 /\ x \div w \in 0 .. n - 1 /\ x % w \in 0 .. w - 1
           /\ x = (x \div w) * w + (x % w)
<1>1. w # 0
  <2>1. n * 0 = 0
    OBVIOUS
  <2> QED
    BY <2>1
<1> DEFINE q == x \div w
           r == x % w
<1>2. q \in Nat /\ r \in 0 .. w - 1 /\ x = q * w + r
  BY <1>1
<1> HIDE DEF q, r
<1>3. q < n
  <2> SUFFICES ASSUME ~(q < n) PROVE FALSE
    OBVIOUS
  <2>1. n * w <= q * w
    <3>1. CASE n = q
      BY <3>1
    <3>2. CASE n < q
      <4>1. n * w + w <= q * w /\ n * w \in Nat /\ q * w \in Nat
        BY <1>2, <3>2, Rows
      <4> QED
        BY <4>1
    <3> QED
      BY <1>2, <3>1, <3>2
  <2> QED
    BY <1>2, <2>1
<1> QED
  BY <1>1, <1>2, <1>3 DEF q, r

\* A search looks at every directory of every root, those of a root before those
\* of the next.
Precedes(at, i, root, directory) ==
    \E k \in DOMAIN at : k < i /\ at[k] = <<root, directory>>
LEMMA SearchedAre ==
    ASSUME NEW T, NEW roots \in Seq(T)
    PROVE  LET at == Searched(roots) IN
           /\ DOMAIN at \in SUBSET Nat /\ IsFiniteSet(DOMAIN at)
           /\ \A i \in DOMAIN at : \E n \in DOMAIN roots :
                  /\ at[i][1] = roots[n]
                  /\ \A m \in 1 .. n - 1 : \A d \in DOMAIN Directories :
                         Precedes(at, i, roots[m], Directories[d])
           /\ \A n \in DOMAIN roots : \A d \in DOMAIN Directories :
                  \E k \in DOMAIN at : at[k] = <<roots[n], Directories[d]>>
<1> DEFINE w == Len(Directories)
           r == Len(roots)
           at == Searched(roots)
<1>1. /\ w \in Nat /\ r \in Nat /\ DOMAIN Directories = 1 .. w /\ DOMAIN roots = 1 .. r
      /\ r * w \in Nat
  BY PluginDiskAssumption, LenProperties
<1>2. /\ DOMAIN at = 1 .. r * w
      /\ \A i \in 1 .. r * w :
             at[i] = <<roots[((i - 1) \div w) + 1], Directories[((i - 1) % w) + 1]>>
  BY DEF Searched
<1> HIDE DEF w, r, at
<1>3. DOMAIN at \in SUBSET Nat /\ IsFiniteSet(DOMAIN at)
  BY <1>1, <1>2, FS_Interval
\* Where the directory "d" of the root "m" is looked at.
<1>4. ASSUME NEW m \in DOMAIN roots, NEW d \in DOMAIN Directories
      PROVE  LET k == (m - 1) * w + (d - 1) + 1 IN
             k \in DOMAIN at /\ at[k] = <<roots[m], Directories[d]>> /\ k <= m * w
  <2> DEFINE x == (m - 1) * w + (d - 1)
  <2>1. m - 1 \in Nat /\ d - 1 \in 0 .. w - 1 /\ m \in Nat
    BY <1>1
  <2>2. x \div w = m - 1 /\ x % w = d - 1
    BY <1>1, <2>1, RowAndPlace
  <2>3. x \in Nat /\ x + 1 <= m * w /\ m * w <= r * w
    <3>1. (m - 1) * w + w <= m * w /\ (m - 1) * w \in Nat /\ m * w \in Nat
      BY <1>1, <2>1, Rows
    <3>2. m * w <= r * w
      <4>1. CASE m = r
        BY <1>1, <4>1
      <4>2. CASE m < r
        <5>1. m * w + w <= r * w
          BY <1>1, <2>1, <4>2, Rows
        <5> QED
          BY <1>1, <3>1, <5>1
      <4> QED
        BY <1>1, <4>1, <4>2
    <3> DEFINE p == (m - 1) * w
               u == m * w
               v == r * w
    <3>3. /\ x = p + (d - 1) /\ p \in Nat /\ u \in Nat /\ p + w <= u /\ u <= v
          /\ d - 1 \in 0 .. w - 1
      BY <2>1, <3>1, <3>2
    <3> HIDE DEF p, u, v, x
    <3>4. x \in Nat /\ x + 1 <= u /\ u <= v
      BY <1>1, <3>3
    <3> QED
      BY <3>4 DEF u, v
  <2> HIDE DEF x
  <2>4. x + 1 \in 1 .. r * w /\ (x + 1) - 1 = x
    <3>1. m * w \in Nat
      BY <1>1, <2>1
    <3> QED
      BY <1>1, <2>3, <3>1
  <2>5. (m - 1) + 1 = m /\ (d - 1) + 1 = d
    BY <1>1
  <2>6. at[x + 1] = <<roots[m], Directories[d]>>
    BY <1>2, <2>2, <2>4, <2>5
  <2> QED
    BY <1>2, <2>3, <2>4, <2>6 DEF x
<1>5. ASSUME NEW i \in DOMAIN at
      PROVE  \E n \in DOMAIN roots :
                 /\ at[i][1] = roots[n]
                 /\ \A m \in 1 .. n - 1 : \A d \in DOMAIN Directories :
                        Precedes(at, i, roots[m], Directories[d])
  <2> DEFINE x == i - 1
             q == x \div w
             n == q + 1
  <2>1. x \in Nat /\ x < r * w
    BY <1>1, <1>2
  <2>2. w # 0 /\ q \in 0 .. r - 1 /\ x % w \in 0 .. w - 1 /\ x = q * w + (x % w)
    BY <1>1, <2>1, RowOfPlace
  <2>3. n \in DOMAIN roots /\ at[i][1] = roots[n]
    <3>1. at[i] = <<roots[n], Directories[(x % w) + 1]>>
      BY <1>2
    <3> HIDE DEF q, x
    <3> QED
      BY <1>1, <2>2, <3>1
  <2> HIDE DEF q
  <2>4. ASSUME NEW m \in 1 .. n - 1, NEW d \in DOMAIN Directories
        PROVE  Precedes(at, i, roots[m], Directories[d])
    <3> DEFINE k == (m - 1) * w + (d - 1) + 1
    <3>1. m \in DOMAIN roots /\ m <= q /\ m \in Nat /\ q \in Nat
      BY <1>1, <2>2
    <3>2. k \in DOMAIN at /\ at[k] = <<roots[m], Directories[d]>> /\ k <= m * w
      BY <1>4, <3>1
    <3> HIDE DEF k
    <3>3. m * w <= q * w /\ m * w \in Nat /\ q * w \in Nat
      <4>1. CASE m = q
        BY <1>1, <3>1, <4>1
      <4>2. CASE m < q
        <5>1. m * w + w <= q * w /\ m * w \in Nat /\ q * w \in Nat
          BY <1>1, <3>1, <4>2, Rows
        <5> QED
          BY <1>1, <5>1
      <4> QED
        BY <3>1, <4>1, <4>2
    <3>4. x % w \in Nat /\ k \in Nat /\ i \in Nat /\ i = x + 1
      <4>1. k \in Nat /\ i \in Nat /\ i = x + 1
        BY <1>1, <1>3, <3>2
      <4> HIDE DEF x
      <4> QED
        BY <2>2, <4>1
    <3> HIDE DEF x
    <3>5. k < i
      BY <2>2, <3>2, <3>3, <3>4
    <3> QED
      BY <3>2, <3>5 DEF Precedes
  <2> QED
    BY <2>3, <2>4
<1>6. ASSUME NEW n \in DOMAIN roots, NEW d \in DOMAIN Directories
      PROVE  \E k \in DOMAIN at : at[k] = <<roots[n], Directories[d]>>
  BY <1>4
<1> QED
  BY <1>3, <1>5, <1>6 DEF at

\* What is picked at some positions: all of it, in their order.
LEMMA PickedAll ==
    ASSUME NEW list, NEW P \in SUBSET Nat, IsFiniteSet(P)
    PROVE  LET picked == ItemsAt(list, P) IN
           /\ Cardinality(P) \in Nat /\ DOMAIN picked = 1 .. Cardinality(P)
           /\ picked = [n \in 1 .. Cardinality(P) |-> picked[n]]
           /\ \A n \in DOMAIN picked : \E i \in P : picked[n] = list[i]
           /\ \A i \in P : \E n \in DOMAIN picked : picked[n] = list[i]
           /\ \A m, n \in DOMAIN picked : m < n =>
                  \E i, j \in P : i < j /\ picked[m] = list[i] /\ picked[n] = list[j]
<1> DEFINE picked == ItemsAt(list, P)
           at == Ascending(P)
           N == Cardinality(P)
<1>1. /\ at \in [1 .. N -> P]
      /\ \A x \in P : \E n \in 1 .. N : at[n] = x
      /\ \A i, k \in 1 .. N : i < k => at[i] < at[k]
  BY AscendingLists
<1>2. N \in Nat
  BY FS_CardinalityType
<1>3. picked = [n \in 1 .. N |-> list[at[n]]]
  BY DEF ItemsAt
<1> HIDE DEF picked, at, N
<1>4. DOMAIN picked = 1 .. N /\ \A n \in 1 .. N : picked[n] = list[at[n]]
  BY <1>3
<1>5. ASSUME NEW i \in P PROVE \E n \in DOMAIN picked : picked[n] = list[i]
  BY <1>1, <1>4
<1>6. ASSUME NEW m \in DOMAIN picked, NEW n \in DOMAIN picked, m < n
      PROVE  \E i, j \in P : i < j /\ picked[m] = list[i] /\ picked[n] = list[j]
  <2>1. at[m] \in P /\ at[n] \in P /\ at[m] < at[n]
    BY <1>1, <1>4, <1>6
  <2> QED
    BY <1>4, <2>1
<1>7. \A n \in DOMAIN picked : \E i \in P : picked[n] = list[i]
  BY <1>1, <1>4
<1> QED
  BY <1>2, <1>3, <1>4, <1>5, <1>6, <1>7 DEF picked, N

\* Among finitely many numbers there is a least.
LEMMA LeastIn ==
    ASSUME NEW S \in SUBSET Nat, S # {} PROVE \E x \in S : \A y \in S : x <= y
<1>1. PICK n \in S : TRUE
  OBVIOUS
<1> DEFINE Least == \E z \in S : \A y \in S : z <= y
           Good == {m \in Nat : (\E x \in S : x <= m) => Least}
<1>2. 0 \in Good
  <2>1. ASSUME NEW x \in S, x <= 0 PROVE Least
    <3>1. x = 0
      BY <2>1
    <3> QED
      BY <3>1
  <2> HIDE DEF Least
  <2> QED
    BY <2>1
<1>3. ASSUME NEW m \in Nat, m \in Good PROVE m + 1 \in Good
  <2>1. ASSUME NEW x \in S, x <= m + 1 PROVE Least
    <3>1. CASE \E y \in S : y <= m
      <4> HIDE DEF Least
      <4> QED
        BY <1>3, <3>1
    <3>2. CASE ~\E y \in S : y <= m
      <4>1. \A y \in S : y >= m + 1
        BY <3>2
      <4>2. x = m + 1
        BY <2>1, <4>1
      <4> QED
        BY <4>1, <4>2
    <3> QED
      BY <3>1, <3>2
  <2> HIDE DEF Least
  <2> QED
    BY <2>1
<1> HIDE DEF Good, Least
<1>4. n \in Good
  BY <1>2, <1>3, Load!Induction DEF Good
<1> QED
  BY <1>4 DEF Good, Least

\* What a search for a project's plugins comes to.
Found(project, specs) ==
    /\ \A n \in DOMAIN specs : Serves(project, specs[n])
    /\ \A m, n \in DOMAIN specs : m # n => NameAt(specs[m]) # NameAt(specs[n])
    /\ \A place \in DOMAIN disk : Serves(project, place) =>
           \E n \in DOMAIN specs : NameAt(specs[n]) = NameAt(place)
LEMMA DiscoverFinds ==
    ASSUME DiskTyped, NEW project \in DOMAIN Projects
    PROVE  LET specs == Discover(Projects[project], Reserved) IN
           /\ \E n \in Nat : DOMAIN specs = 1 .. n /\ specs = [i \in 1 .. n |-> specs[i]]
           /\ Found(project, specs)
<1> DEFINE roots == Projects[project]
           at == Searched(roots)
           found == {i \in DOMAIN at : at[i] \in DOMAIN disk /\ Has(disk[at[i]], "manifest")}
           first == {i \in found : /\ NameAt(at[i]) \notin Reserved
                                   /\ \A j \in found : NameAt(at[j]) = NameAt(at[i]) => i <= j}
           specs == ItemsAt(at, first)
<1>1. Discover(Projects[project], Reserved) = specs
  BY DEF Discover
<1>2. roots \in Seq(Range(roots))
  BY PluginDiskAssumption
<1>3. /\ DOMAIN at \in SUBSET Nat /\ IsFiniteSet(DOMAIN at)
      /\ \A i \in DOMAIN at : \E n \in DOMAIN roots :
             /\ at[i][1] = roots[n]
             /\ \A m \in 1 .. n - 1 : \A d \in DOMAIN Directories :
                    Precedes(at, i, roots[m], Directories[d])
      /\ \A n \in DOMAIN roots : \A d \in DOMAIN Directories :
             \E k \in DOMAIN at : at[k] = <<roots[n], Directories[d]>>
  BY <1>2, SearchedAre
<1>4. first \in SUBSET found /\ found \in SUBSET DOMAIN at
  OBVIOUS
<1>5. IsFiniteSet(first) /\ first \in SUBSET Nat
  BY <1>3, <1>4, FS_Subset
\* Where something is on disk.
<1>6. ASSUME NEW place \in DOMAIN disk
      PROVE  \E d \in DOMAIN Directories : place = <<place[1], Directories[d]>>
  BY DEF DiskTyped, Places, Range
<1>7. ASSUME NEW i \in first PROVE Serves(project, at[i])
  <2>1. /\ at[i] \in DOMAIN disk /\ Has(disk[at[i]], "manifest") /\ NameAt(at[i]) \notin Reserved
        /\ \A j \in found : NameAt(at[j]) = NameAt(at[i]) => i <= j
        /\ i \in DOMAIN at
    OBVIOUS
  <2>2. PICK n \in DOMAIN roots :
            /\ at[i][1] = roots[n]
            /\ \A m \in 1 .. n - 1 : \A d \in DOMAIN Directories :
                   Precedes(at, i, roots[m], Directories[d])
    BY <1>3, <2>1
  <2>3. ASSUME NEW other \in DOMAIN disk, Has(disk[other], "manifest"), NameAt(other) = NameAt(at[i]),
               NEW m \in 1 .. n - 1
        PROVE  other[1] # roots[m]
    <3> SUFFICES ASSUME other[1] = roots[m] PROVE FALSE
      OBVIOUS
    <3>1. PICK d \in DOMAIN Directories : other = <<other[1], Directories[d]>>
      BY <1>6
    <3> HIDE DEF at, roots, first
    <3>2. PICK k \in DOMAIN at : k < i /\ at[k] = other
      BY <2>2, <3>1 DEF Precedes
    <3>3. k \in found
      BY <2>3, <3>2
    <3>4. i <= k /\ i \in Nat /\ k \in Nat
      BY <1>3, <2>1, <2>3, <3>2, <3>3
    <3> QED
      BY <3>2, <3>4
  <2> HIDE DEF at, found, first
  <2> QED
    BY <2>1, <2>2, <2>3 DEF Serves, roots
<1>8. ASSUME NEW place \in DOMAIN disk, Serves(project, place)
      PROVE  \E i \in first : NameAt(at[i]) = NameAt(place)
  <2>1. PICK n \in DOMAIN roots : roots[n] = place[1]
    BY <1>8 DEF Serves
  <2>2. PICK d \in DOMAIN Directories : place = <<place[1], Directories[d]>>
    BY <1>6
  <2>3. PICK k \in DOMAIN at : at[k] = place
    BY <1>3, <2>1, <2>2
  <2> DEFINE same == {i \in found : NameAt(at[i]) = NameAt(place)}
  <2>4. k \in same
    BY <1>8, <2>3 DEF Serves
  <2>5. same \in SUBSET Nat
    BY <1>3
  <2>6. PICK i \in same : \A j \in same : i <= j
    BY <2>4, <2>5, LeastIn
  <2>7. NameAt(place) \notin Reserved
    BY <1>8 DEF Serves
  <2> QED
    BY <2>6, <2>7
<1>9. \A i \in first : \A j \in first : i < j => NameAt(at[i]) # NameAt(at[j])
  <2> SUFFICES ASSUME NEW i \in first, NEW j \in first, i < j, NameAt(at[i]) = NameAt(at[j])
               PROVE  FALSE
    OBVIOUS
  <2>1. j <= i /\ i \in Nat /\ j \in Nat
    BY <1>5
  <2> QED
    BY <2>1
<1> HIDE DEF at, first, found, roots
<1>10. /\ Cardinality(first) \in Nat /\ DOMAIN specs = 1 .. Cardinality(first)
       /\ specs = [n \in 1 .. Cardinality(first) |-> specs[n]]
       /\ \A n \in DOMAIN specs : \E i \in first : specs[n] = at[i]
       /\ \A i \in first : \E n \in DOMAIN specs : specs[n] = at[i]
       /\ \A m, n \in DOMAIN specs : m < n =>
              \E i, j \in first : i < j /\ specs[m] = at[i] /\ specs[n] = at[j]
  BY <1>5, PickedAll
<1> HIDE DEF specs
<1>11. ASSUME NEW m \in DOMAIN specs, NEW n \in DOMAIN specs, m # n
       PROVE  NameAt(specs[m]) # NameAt(specs[n])
  <2>1. m < n \/ n < m
    BY <1>10, <1>11
  <2>2. ASSUME NEW a \in DOMAIN specs, NEW b \in DOMAIN specs, a < b
        PROVE  NameAt(specs[a]) # NameAt(specs[b])
    <3>1. PICK i \in first, j \in first : i < j /\ specs[a] = at[i] /\ specs[b] = at[j]
      BY <1>10, <2>2
    <3> QED
      BY <1>9, <3>1
  <2> QED
    BY <2>1, <2>2
<1>12. \A n \in DOMAIN specs : Serves(project, specs[n])
  BY <1>7, <1>10
<1>13. \A place \in DOMAIN disk : Serves(project, place) =>
           \E n \in DOMAIN specs : NameAt(specs[n]) = NameAt(place)
  BY <1>8, <1>10
<1>14. Found(project, specs)
  BY <1>11, <1>12, <1>13 DEF Found
<1> QED
  BY <1>1, <1>10, <1>14

-----------------------------------------------------------------------------
(* The module table                                                        *)

\* The model's fold is the one the laws are about.
LEMMA LoadFolds == \A t, list : FoldLeft(Imported, t, list) = Load!FoldLeft(Imported, t, list)
BY DEF FoldLeft, Load!FoldLeft, MapThenFoldSet, Load!MapThenFoldSet, Max, Load!Max

\* What the table comes to after each import, and in the end.
Imports(t, list) == FoldLeft(Imported, t, list)
RunOf(run, t, list, n) ==
    run[0] = t /\ \A i \in 1 .. n : run[i] = Imported(run[i - 1], list[i])
LEMMA ImportsRun ==
    ASSUME NEW t, NEW n \in Nat, NEW list, DOMAIN list = 1 .. n
    PROVE  \E run : RunOf(run, t, list, n) /\ Imports(t, list) = run[n]
<1>1. PICK run : Load!IsRun(run, t, list, n)
  BY Load!RunExists
<1>2. Load!FoldLeft(Imported, t, list) = run[n]
  BY <1>1, Load!FoldIsRun
<1> QED
  <2>1. RunOf(run, t, list, n)
    BY <1>1 DEF Load!IsRun, RunOf
  <2>2. Imports(t, list) = run[n]
    BY <1>2, LoadFolds DEF Imports
  <2> QED
    BY <2>1, <2>2

\* One import is about one slug.
LEMMA ImportedIs ==
    ASSUME NEW t, NEW place
    PROVE  LET u == Imported(t, place) IN
           /\ CodeAt(place) = "broken" => /\ DOMAIN u = DOMAIN t \ {SlugAt(place)}
                                          /\ \A slug \in DOMAIN u : u[slug] = t[slug]
           /\ CodeAt(place) # "broken" => /\ DOMAIN u = DOMAIN t \union {SlugAt(place)}
                                          /\ u[SlugAt(place)] = place
                                          /\ \A slug \in DOMAIN t :
                                                 slug # SlugAt(place) => u[slug] = t[slug]
BY DEF Imported, Restrict

\* Whatever is in the table was imported, or was there before.
LEMMA TableFrom ==
    ASSUME NEW t, NEW n \in Nat, NEW list, DOMAIN list = 1 .. n
    PROVE  LET u == Imports(t, list) IN
           \A slug \in DOMAIN u :
               \/ \E i \in 1 .. n : u[slug] = list[i] /\ CodeAt(list[i]) # "broken"
               \/ slug \in DOMAIN t /\ u[slug] = t[slug]
<1> DEFINE From(u, slug) ==
               \/ \E i \in 1 .. n : u[slug] = list[i] /\ CodeAt(list[i]) # "broken"
               \/ slug \in DOMAIN t /\ u[slug] = t[slug]
<1>1. PICK run : RunOf(run, t, list, n) /\ Imports(t, list) = run[n]
  BY ImportsRun
<1> DEFINE Good == {m \in Nat : m <= n => \A slug \in DOMAIN run[m] : From(run[m], slug)}
<1>2. 0 \in Good
  BY <1>1 DEF RunOf
<1>3. ASSUME NEW m \in Nat, m \in Good PROVE m + 1 \in Good
  <2> SUFFICES ASSUME m + 1 <= n, NEW slug \in DOMAIN run[m + 1] PROVE From(run[m + 1], slug)
    OBVIOUS
  <2> DEFINE place == list[m + 1]
             old == run[m]
             new == run[m + 1]
  <2>1. \A s \in DOMAIN old : From(old, s)
    BY <1>3
  <2>2. m + 1 \in 1 .. n /\ new = Imported(old, place)
    <3>1. m + 1 \in 1 .. n /\ (m + 1) - 1 = m
      OBVIOUS
    <3> QED
      BY <1>1, <3>1 DEF RunOf
  <2>3. slug \in DOMAIN new
    OBVIOUS
  <2> HIDE DEF place, old, new, Good, From
  <2>4. /\ CodeAt(place) = "broken" => /\ DOMAIN new = DOMAIN old \ {SlugAt(place)}
                                       /\ \A s \in DOMAIN new : new[s] = old[s]
        /\ CodeAt(place) # "broken" => /\ DOMAIN new = DOMAIN old \union {SlugAt(place)}
                                       /\ new[SlugAt(place)] = place
                                       /\ \A s \in DOMAIN old : s # SlugAt(place) => new[s] = old[s]
    BY <2>2, ImportedIs
  <2>5. ASSUME CodeAt(place) # "broken" /\ slug = SlugAt(place) PROVE From(new, slug)
    BY <2>2, <2>4, <2>5 DEF From, place
  <2>6. ASSUME ~(CodeAt(place) # "broken" /\ slug = SlugAt(place)) PROVE From(new, slug)
    <3>1. slug \in DOMAIN old /\ new[slug] = old[slug]
      BY <2>3, <2>4, <2>6
    <3> QED
      BY <2>1, <3>1 DEF From
  <2>7. From(new, slug)
    BY <2>5, <2>6
  <2> QED
    BY <2>7 DEF new
<1> HIDE DEF Good
<1>4. n \in Good
  BY <1>2, <1>3, Load!Induction
<1> QED
  BY <1>1, <1>4 DEF Good

\* One whose slug no other of the list has is in the table, if it is good.
LEMMA TableAt ==
    ASSUME NEW t, NEW n \in Nat, NEW list, DOMAIN list = 1 .. n, NEW place,
           \E k \in 1 .. n : list[k] = place,
           \A i \in 1 .. n : list[i] = place \/ SlugAt(list[i]) # SlugAt(place)
    PROVE  LET u == Imports(t, list) IN
           /\ CodeAt(place) = "broken" => SlugAt(place) \notin DOMAIN u
           /\ CodeAt(place) # "broken" => SlugAt(place) \in DOMAIN u /\ u[SlugAt(place)] = place
<1> DEFINE Right(u) ==
               /\ CodeAt(place) = "broken" => SlugAt(place) \notin DOMAIN u
               /\ CodeAt(place) # "broken" => SlugAt(place) \in DOMAIN u /\ u[SlugAt(place)] = place
<1>1. PICK run : RunOf(run, t, list, n) /\ Imports(t, list) = run[n]
  BY ImportsRun
<1>2. PICK k \in 1 .. n : list[k] = place
  OBVIOUS
<1> DEFINE Good == {m \in Nat : k <= m /\ m <= n => Right(run[m])}
<1>3. 0 \in Good
  BY <1>2
<1>4. ASSUME NEW m \in Nat, m \in Good PROVE m + 1 \in Good
  <2> SUFFICES ASSUME k <= m + 1, m + 1 <= n PROVE Right(run[m + 1])
    OBVIOUS
  <2> DEFINE item == list[m + 1]
             old == run[m]
             new == run[m + 1]
  <2>1. m + 1 \in 1 .. n /\ new = Imported(old, item)
    <3>1. m + 1 \in 1 .. n /\ (m + 1) - 1 = m
      OBVIOUS
    <3> QED
      BY <1>1, <3>1 DEF RunOf
  <2>2. item = place \/ SlugAt(item) # SlugAt(place)
    BY <2>1
  <2>3. item = place \/ Right(old)
    <3>1. CASE k = m + 1
      BY <1>2, <3>1
    <3>2. CASE k # m + 1
      <4>1. k <= m /\ m <= n
        BY <3>2
      <4> QED
        BY <1>4, <4>1
    <3> QED
      BY <3>1, <3>2
  <2> HIDE DEF item, old, new, Good, Right
  <2>4. /\ CodeAt(item) = "broken" => /\ DOMAIN new = DOMAIN old \ {SlugAt(item)}
                                      /\ \A s \in DOMAIN new : new[s] = old[s]
        /\ CodeAt(item) # "broken" => /\ DOMAIN new = DOMAIN old \union {SlugAt(item)}
                                      /\ new[SlugAt(item)] = item
                                      /\ \A s \in DOMAIN old : s # SlugAt(item) => new[s] = old[s]
    BY <2>1, ImportedIs
  <2>5. ASSUME item = place PROVE Right(new)
    BY <2>4, <2>5 DEF Right
  <2>6. ASSUME item # place PROVE Right(new)
    <3>1. Right(old) /\ SlugAt(item) # SlugAt(place)
      BY <2>2, <2>3, <2>6
    <3> QED
      BY <2>4, <3>1 DEF Right
  <2>7. Right(new)
    BY <2>5, <2>6
  <2> QED
    BY <2>7 DEF new
<1> HIDE DEF Good
<1>5. n \in Good
  BY <1>3, <1>4, Load!Induction
<1> QED
  BY <1>1, <1>5 DEF Good

-----------------------------------------------------------------------------
(* What a load leaves                                                      *)

\* Those found whose code is one of some kinds.
AllOf(specs, codes, list) ==
    /\ \E k \in Nat : DOMAIN list = 1 .. k /\ list = [i \in 1 .. k |-> list[i]]
    /\ \A i \in DOMAIN list : \E j \in DOMAIN specs : CodeAt(specs[j]) \in codes /\ list[i] = specs[j]
    /\ \A j \in DOMAIN specs : CodeAt(specs[j]) \in codes => \E i \in DOMAIN list : list[i] = specs[j]
    /\ \A a, b \in DOMAIN list : a # b =>
           \E i, j \in DOMAIN specs : i # j /\ list[a] = specs[i] /\ list[b] = specs[j]
LEMMA TakenAll ==
    ASSUME NEW specs, NEW n \in Nat, DOMAIN specs = 1 .. n, NEW codes
    PROVE  AllOf(specs, codes, ItemsWith(specs, codes))
<1> DEFINE P == {j \in DOMAIN specs : CodeAt(specs[j]) \in codes}
           list == ItemsAt(specs, P)
<1>1. IsFiniteSet(1 .. n) /\ P \in SUBSET (1 .. n)
  BY FS_Interval
<1>2. IsFiniteSet(P) /\ P \in SUBSET Nat
  BY <1>1, FS_Subset
<1>3. \A j : j \in P <=> j \in DOMAIN specs /\ CodeAt(specs[j]) \in codes
  OBVIOUS
<1>4. ItemsWith(specs, codes) = list
  BY DEF ItemsWith
<1> HIDE DEF P
<1>5. /\ Cardinality(P) \in Nat /\ DOMAIN list = 1 .. Cardinality(P)
      /\ list = [i \in 1 .. Cardinality(P) |-> list[i]]
      /\ \A i \in DOMAIN list : \E j \in P : list[i] = specs[j]
      /\ \A j \in P : \E i \in DOMAIN list : list[i] = specs[j]
      /\ \A a, b \in DOMAIN list : a < b =>
             \E i, j \in P : i < j /\ list[a] = specs[i] /\ list[b] = specs[j]
  BY <1>2, PickedAll
<1> HIDE DEF list
<1>6. ASSUME NEW a \in DOMAIN list, NEW b \in DOMAIN list, a < b
      PROVE  \E i, j \in DOMAIN specs : i # j /\ list[a] = specs[i] /\ list[b] = specs[j]
  <2>1. PICK i \in P, j \in P : i < j /\ list[a] = specs[i] /\ list[b] = specs[j]
    BY <1>5, <1>6
  <2>2. i # j
    BY <1>2, <2>1
  <2> QED
    BY <1>3, <2>1, <2>2
<1>7. ASSUME NEW a \in DOMAIN list, NEW b \in DOMAIN list, a # b
      PROVE  \E i, j \in DOMAIN specs : i # j /\ list[a] = specs[i] /\ list[b] = specs[j]
  <2>1. a < b \/ b < a
    BY <1>5, <1>7
  <2> QED
    BY <1>6, <2>1
<1>8. \E k \in Nat : DOMAIN list = 1 .. k /\ list = [i \in 1 .. k |-> list[i]]
  BY <1>5
<1> QED
  BY <1>3, <1>4, <1>5, <1>7, <1>8 DEF AllOf

\* Plugins of different names are as many as their names.
LEMMA NamesCounted ==
    ASSUME NEW k \in Nat, NEW list, list = [i \in 1 .. k |-> list[i]],
           \A a, b \in 1 .. k : a # b => NameAt(list[a]) # NameAt(list[b])
    PROVE  Cardinality({NameAt(place) : place \in Range(list)}) = Len(list)
<1> DEFINE names == {NameAt(place) : place \in Range(list)}
           f == [i \in 1 .. k |-> NameAt(list[i])]
<1>1. Len(list) = k
  <2>1. list \in [1 .. k -> Range(list)]
    BY DEF Range
  <2>2. list \in Seq(Range(list))
    BY <2>1
  <2>3. Len(list) \in Nat /\ DOMAIN list = 1 .. Len(list) /\ DOMAIN list = 1 .. k
    BY <2>1, <2>2, LenProperties
  <2> QED
    BY <2>3
<1>2. f \in Bijection(1 .. k, names)
  <2>1. f \in [1 .. k -> names]
    BY DEF Range
  <2>2. \A a, b \in 1 .. k : f[a] = f[b] => a = b
    OBVIOUS
  <2>3. \A y \in names : \E i \in 1 .. k : f[i] = y
    BY DEF Range
  <2> HIDE DEF f, names
  <2> QED
    BY <2>1, <2>2, <2>3 DEF Bijection, Injection, IsInjective, Surjection
<1>3. IsFiniteSet(1 .. k) /\ Cardinality(1 .. k) = k
  <2>1. 1 \in Int /\ k \in Int
    OBVIOUS
  <2>2. IsFiniteSet(1 .. k) /\ Cardinality(1 .. k) = IF 1 > k THEN 0 ELSE k - 1 + 1
    BY ONLY <2>1, FS_Interval
  <2> QED
    BY <2>2
<1> HIDE DEF f, names
<1>4. ExistsBijection(1 .. k, names)
  BY <1>2 DEF ExistsBijection
<1>5. Cardinality(names) = k
  BY <1>3, <1>4, FS_Bijection
<1> QED
  BY <1>1, <1>5 DEF names

\* LoadsTrue, of one load: of what it took and of what it made of the table.
LoadedOnes(project, list) ==
    LET got == Range(list) IN
    /\ Cardinality({NameAt(place) : place \in got}) = Len(list)
    /\ \A place \in got : Serves(project, place) /\ CodeAt(place) = "good"
    /\ \A place \in DOMAIN disk : Serves(project, place) /\ CodeAt(place) = "good" =>
           \E other \in DOMAIN disk : /\ Serves(project, other)
                                      /\ NameAt(other) = NameAt(place)
                                      /\ other \in got \/ CodeAt(other) # "good"
TableTrue(project, got, t, u) ==
    /\ \A slug \in DOMAIN u : \/ u[slug] \in got
                              \/ Serves(project, u[slug]) /\ CodeAt(u[slug]) = "empty"
                              \/ slug \in DOMAIN t /\ u[slug] = t[slug]
    /\ \A place \in DOMAIN disk : Serves(project, place) /\ OwnModule(project, place) =>
           /\ CodeAt(place) \in {"good", "empty"} =>
                  SlugAt(place) \in DOMAIN u /\ u[SlugAt(place)] = place
           /\ CodeAt(place) = "broken" => SlugAt(place) \notin DOMAIN u

LEMMA OnesLoaded ==
    ASSUME NEW project, NEW specs, NEW n \in Nat, DOMAIN specs = 1 .. n, Found(project, specs)
    PROVE  LoadedOnes(project, ItemsWith(specs, {"good"}))
<1> DEFINE good == {"good"}
           list == ItemsWith(specs, good)
           got == Range(list)
<1> HIDE DEF good
<1>0. AllOf(specs, good, list)
  BY TakenAll
<1> HIDE DEF list
<1>1. /\ \E k \in Nat : DOMAIN list = 1 .. k /\ list = [i \in 1 .. k |-> list[i]]
      /\ \A i \in DOMAIN list : \E j \in DOMAIN specs : CodeAt(specs[j]) \in good /\ list[i] = specs[j]
      /\ \A j \in DOMAIN specs : CodeAt(specs[j]) \in good => \E i \in DOMAIN list : list[i] = specs[j]
      /\ \A a, b \in DOMAIN list : a # b =>
             \E i, j \in DOMAIN specs : i # j /\ list[a] = specs[i] /\ list[b] = specs[j]
  BY <1>0 DEF AllOf
<1>2. /\ \A j \in DOMAIN specs : Serves(project, specs[j])
      /\ \A i, j \in DOMAIN specs : i # j => NameAt(specs[i]) # NameAt(specs[j])
      /\ \A place \in DOMAIN disk : Serves(project, place) =>
             \E j \in DOMAIN specs : NameAt(specs[j]) = NameAt(place)
  BY DEF Found
<1>3. PICK k \in Nat : DOMAIN list = 1 .. k /\ list = [i \in 1 .. k |-> list[i]]
  BY <1>1
<1>4. \A a, b \in 1 .. k : a # b => NameAt(list[a]) # NameAt(list[b])
  BY <1>1, <1>2, <1>3
<1>5. Cardinality({NameAt(place) : place \in Range(list)}) = Len(list)
  BY <1>3, <1>4, NamesCounted
<1>6. \A place \in got : Serves(project, place) /\ CodeAt(place) = "good"
  BY <1>1, <1>2 DEF Range, good
<1>7. ASSUME NEW place \in DOMAIN disk, Serves(project, place)
      PROVE  \E other \in DOMAIN disk : /\ Serves(project, other)
                                        /\ NameAt(other) = NameAt(place)
                                        /\ other \in got \/ CodeAt(other) # "good"
  <2>1. PICK j \in DOMAIN specs : NameAt(specs[j]) = NameAt(place)
    BY <1>2, <1>7
  <2>2. Serves(project, specs[j])
    BY <1>2
  <2>3. specs[j] \in DOMAIN disk
    BY <2>2 DEF Serves
  <2>4. specs[j] \in got \/ CodeAt(specs[j]) # "good"
    BY <1>1 DEF Range, good
  <2> QED
    BY <2>1, <2>2, <2>3, <2>4
<1> QED
  BY <1>5, <1>6, <1>7 DEF LoadedOnes, list, good

LEMMA TableLoaded ==
    ASSUME NEW project, NEW specs, NEW n \in Nat, DOMAIN specs = 1 .. n, Found(project, specs), NEW t,
           \A j \in DOMAIN specs : CodeAt(specs[j]) # "raising"
    PROVE  TableTrue(project, Range(ItemsWith(specs, {"good"})), t, Imports(t, ItemsWith(specs, Coded)))
<1> DEFINE good == {"good"}
           code == Coded
           list == ItemsWith(specs, good)
           all == ItemsWith(specs, code)
           got == Range(list)
           u == Imports(t, all)
<1> HIDE DEF good, code
<1>0. AllOf(specs, good, list) /\ AllOf(specs, code, all)
  BY TakenAll
<1> HIDE DEF list, all
<1>1. \A j \in DOMAIN specs : CodeAt(specs[j]) \in good => \E i \in DOMAIN list : list[i] = specs[j]
  BY <1>0 DEF AllOf
<1>2. /\ \E k \in Nat : DOMAIN all = 1 .. k /\ all = [i \in 1 .. k |-> all[i]]
      /\ \A i \in DOMAIN all : \E j \in DOMAIN specs : CodeAt(specs[j]) \in code /\ all[i] = specs[j]
      /\ \A j \in DOMAIN specs : CodeAt(specs[j]) \in code => \E i \in DOMAIN all : all[i] = specs[j]
  BY <1>0 DEF AllOf
<1>3. /\ \A j \in DOMAIN specs : Serves(project, specs[j])
      /\ \A i, j \in DOMAIN specs : i # j => NameAt(specs[i]) # NameAt(specs[j])
      /\ \A place \in DOMAIN disk : Serves(project, place) =>
             \E j \in DOMAIN specs : NameAt(specs[j]) = NameAt(place)
  BY DEF Found
<1>4. PICK k \in Nat : DOMAIN all = 1 .. k
  BY <1>2
<1>5. \A slug \in DOMAIN u :
          \/ \E i \in 1 .. k : u[slug] = all[i] /\ CodeAt(all[i]) # "broken"
          \/ slug \in DOMAIN t /\ u[slug] = t[slug]
  BY <1>4, TableFrom
<1>6. ASSUME NEW i \in 1 .. k, CodeAt(all[i]) # "broken"
      PROVE  all[i] \in got \/ (Serves(project, all[i]) /\ CodeAt(all[i]) = "empty")
  <2>1. PICK j \in DOMAIN specs : CodeAt(specs[j]) \in code /\ all[i] = specs[j]
    BY <1>2, <1>4
  <2>2. CodeAt(specs[j]) \in good \/ CodeAt(specs[j]) = "empty"
    BY <1>6, <2>1 DEF good, code, Coded
  <2>3. CodeAt(specs[j]) \in good => all[i] \in got
    BY <1>1, <2>1 DEF Range
  <2> QED
    BY <1>3, <2>1, <2>2, <2>3
<1>7. \A slug \in DOMAIN u : \/ u[slug] \in got
                             \/ Serves(project, u[slug]) /\ CodeAt(u[slug]) = "empty"
                             \/ slug \in DOMAIN t /\ u[slug] = t[slug]
  <2> HIDE DEF u, got
  <2> QED
    BY <1>5, <1>6
<1>8. ASSUME NEW place \in DOMAIN disk, Serves(project, place), OwnModule(project, place),
             CodeAt(place) \in code
      PROVE  /\ CodeAt(place) = "broken" => SlugAt(place) \notin DOMAIN u
             /\ CodeAt(place) # "broken" => SlugAt(place) \in DOMAIN u /\ u[SlugAt(place)] = place
  \* Of its slug there is no other.
  <2>1. ASSUME NEW j \in DOMAIN specs, SlugAt(specs[j]) = SlugAt(place) PROVE specs[j] = place
    <3>1. Serves(project, specs[j])
      BY <1>3
    <3>2. specs[j] \in DOMAIN disk
      BY <3>1 DEF Serves
    <3> QED
      BY <1>8, <2>1, <3>1, <3>2 DEF OwnModule
  <2>2. PICK j \in DOMAIN specs : NameAt(specs[j]) = NameAt(place)
    BY <1>3, <1>8
  <2>3. specs[j] = place
    BY <2>1, <2>2 DEF SlugAt
  <2>4. \E i \in 1 .. k : all[i] = place
    BY <1>2, <1>4, <1>8, <2>3
  <2>5. \A i \in 1 .. k : all[i] = place \/ SlugAt(all[i]) # SlugAt(place)
    BY <1>2, <1>4, <2>1
  <2>6. k \in Nat /\ DOMAIN all = 1 .. k
    BY <1>4
  <2> QED
    BY ONLY <2>4, <2>5, <2>6, TableAt
<1>9. ASSUME NEW place \in DOMAIN disk, Serves(project, place), OwnModule(project, place)
      PROVE  /\ CodeAt(place) \in {"good", "empty"} =>
                    SlugAt(place) \in DOMAIN u /\ u[SlugAt(place)] = place
             /\ CodeAt(place) = "broken" => SlugAt(place) \notin DOMAIN u
  <2> HIDE DEF u
  <2> QED
    BY <1>8, <1>9 DEF code, Coded
<1> HIDE DEF u
<1> QED
  BY <1>7, <1>9 DEF TableTrue, u, all, list, good, code

\* What a load does, said of the lists.
LEMMA LoadIs ==
    ASSUME DiskTyped, NEW project \in DOMAIN Projects, Loads(project)
    PROVE  /\ DOMAIN loaded' \ DOMAIN loaded = {project}
           /\ LoadedOnes(project, loaded'[project])
           /\ TableTrue(project, Range(loaded'[project]), modules, modules')
<1> DEFINE specs == Discover(Projects[project], Reserved)
           list == ItemsWith(specs, {"good"})
<1>1. /\ project \notin DOMAIN loaded
      /\ loaded' = [p \in DOMAIN loaded \union {project} |-> IF p = project THEN list ELSE loaded[p]]
  BY DEF Loads
<1>2. /\ modules' = Imports(modules, ItemsWith(specs, Coded))
      /\ \A j \in DOMAIN specs : CodeAt(specs[j]) # "raising"
  BY DEF Loads, Imports
<1>3. /\ \E n \in Nat : DOMAIN specs = 1 .. n /\ specs = [i \in 1 .. n |-> specs[i]]
      /\ Found(project, specs)
  BY DiscoverFinds
<1> HIDE DEF specs
<1>4. PICK n \in Nat : DOMAIN specs = 1 .. n
  BY <1>3
<1>5. /\ LoadedOnes(project, list)
      /\ TableTrue(project, Range(list), modules, Imports(modules, ItemsWith(specs, Coded)))
  BY <1>2, <1>3, <1>4, OnesLoaded, TableLoaded
<1> HIDE DEF list
<1>6. DOMAIN loaded' \ DOMAIN loaded = {project} /\ loaded'[project] = list
  BY <1>1
<1> QED
  BY <1>2, <1>5, <1>6

\* What a load that was taken down may have added to the table.
TableSpoiled(t, u) ==
    \A slug \in DOMAIN u :
        \/ slug \in DOMAIN t /\ u[slug] = t[slug]
        \/ /\ CodeAt(u[slug]) \in {"good", "empty", "raising"}
           /\ \E project \in DOMAIN Projects : Serves(project, u[slug])

LEMMA LoadFailsIs ==
    ASSUME DiskTyped, NEW project \in DOMAIN Projects, LoadFails(project)
    PROVE  loaded' = loaded /\ TableSpoiled(modules, modules')
<1> DEFINE specs == Discover(Projects[project], Reserved)
<1>1. PICK last \in DOMAIN specs :
          modules' = Imports(modules, ItemsWith(SubSeq(specs, 1, last), Coded))
  BY DEF LoadFails, Imports
<1>2. /\ \E n \in Nat : DOMAIN specs = 1 .. n /\ specs = [i \in 1 .. n |-> specs[i]]
      /\ Found(project, specs)
  BY DiscoverFinds
<1> HIDE DEF specs
<1>3. PICK n \in Nat : DOMAIN specs = 1 .. n /\ specs = [i \in 1 .. n |-> specs[i]]
  BY <1>2
<1> DEFINE first == SubSeq(specs, 1, last)
<1>4. DOMAIN first = 1 .. last /\ \A i \in 1 .. last : first[i] = specs[i]
  <2> DEFINE T == Range(specs)
  <2>1. specs \in [1 .. n -> T]
    BY <1>3 DEF Range
  <2> HIDE DEF T
  <2>2. \A i \in 1 .. last : specs[i] \in T
    BY <1>3, <2>1
  <2>3. 1 \in Int /\ last \in Int /\ 1 <= last /\ last \in Nat
    BY <1>3
  <2>4. /\ first \in Seq(T) /\ Len(first) = (IF 1 <= last THEN last - 1 + 1 ELSE 0)
        /\ \A i \in 1 .. last - 1 + 1 : first[i] = specs[1 + i - 1]
    BY ONLY <2>2, <2>3, SubSeqProperties DEF first
  <2> HIDE DEF first
  <2>5. Len(first) = last /\ DOMAIN first = 1 .. Len(first)
    BY <2>3, <2>4, LenProperties
  <2>6. ASSUME NEW i \in 1 .. last PROVE first[i] = specs[i]
    <3>1. i \in 1 .. last - 1 + 1 /\ 1 + i - 1 = i
      BY <2>3
    <3> QED
      BY <2>4, <3>1
  <2> QED
    BY <2>5, <2>6
<1> DEFINE all == ItemsWith(first, Coded)
           u == Imports(modules, all)
<1>5. last \in Nat /\ \A j \in DOMAIN specs : Serves(project, specs[j])
  BY <1>2, <1>3 DEF Found
<1>6. modules' = u
  BY <1>1
<1> HIDE DEF first
<1>7. AllOf(first, Coded, all)
  BY <1>4, <1>5, TakenAll
<1> HIDE DEF all
<1>8. PICK k \in Nat : DOMAIN all = 1 .. k
  BY <1>7 DEF AllOf
<1>9. \A slug \in DOMAIN u :
          \/ \E i \in 1 .. k : u[slug] = all[i] /\ CodeAt(all[i]) # "broken"
          \/ slug \in DOMAIN modules /\ u[slug] = modules[slug]
  BY <1>8, TableFrom
<1>10. ASSUME NEW i \in 1 .. k, CodeAt(all[i]) # "broken"
       PROVE  CodeAt(all[i]) \in {"good", "empty", "raising"} /\ Serves(project, all[i])
  <2>1. PICK j \in DOMAIN first : CodeAt(first[j]) \in Coded /\ all[i] = first[j]
    BY <1>7, <1>8 DEF AllOf
  <2>2. j \in DOMAIN specs /\ first[j] = specs[j]
    BY <1>3, <1>4, <2>1
  <2> QED
    BY <1>5, <1>10, <2>1, <2>2 DEF Coded
<1> HIDE DEF u
<1>11. TableSpoiled(modules, u)
  BY <1>9, <1>10 DEF TableSpoiled
<1> QED
  BY <1>6, <1>11 DEF LoadFails

\* Nothing else loads.
LEMMA OthersLoadNothing ==
    ASSUME [DiskNext]_diskVars,
           ~ \E project \in DOMAIN Projects : Loads(project) \/ LoadFails(project)
    PROVE  DOMAIN loaded' \ DOMAIN loaded = {} /\ TableSpoiled(modules, modules')
<1>1. (loaded' = loaded /\ modules' = modules) \/ (loaded' = <<>> /\ modules' = <<>>)
  BY DEF DiskNext, diskVars, Install, Copies, Sync, RemovePlugin, MakesEnv, SyncEnds, Deletes, CutShort,
         Restarts, Quiet
<1> QED
  BY <1>1 DEF TableSpoiled

\* loader.py: whatever was installed, removed and cut short before, a load gives a
\* project one plugin of each name, the most specific there is, but for the
\* built-ins' names; it adds to the module table what it loaded and modules with no
\* plugin in them, nothing else; one that has its module name to itself is there if
\* it could be imported, and nothing is if it could not; and one that a plugin's
\* constructor took down adds modules that could be imported, nothing else.
THEOREM LoadsAlwaysTrue == DiskSpec => LoadsTrue
<1> DEFINE Good(project) ==
               LET got == Range(loaded'[project]) IN
               /\ Cardinality({NameAt(place) : place \in got}) = Len(loaded'[project])
               /\ \A place \in got : Serves(project, place) /\ CodeAt(place) = "good"
               /\ \A place \in DOMAIN disk : Serves(project, place) /\ CodeAt(place) = "good" =>
                      \E other \in DOMAIN disk : /\ Serves(project, other)
                                                 /\ NameAt(other) = NameAt(place)
                                                 /\ other \in got \/ CodeAt(other) # "good"
               /\ \A slug \in DOMAIN modules' :
                      \/ modules'[slug] \in got
                      \/ Serves(project, modules'[slug]) /\ CodeAt(modules'[slug]) = "empty"
                      \/ slug \in DOMAIN modules /\ modules'[slug] = modules[slug]
               /\ \A place \in DOMAIN disk : Serves(project, place) /\ OwnModule(project, place) =>
                      /\ CodeAt(place) \in {"good", "empty"} => /\ SlugAt(place) \in DOMAIN modules'
                                                                /\ modules'[SlugAt(place)] = place
                      /\ CodeAt(place) = "broken" => SlugAt(place) \notin DOMAIN modules'
           Spoiled ==
               \A slug \in DOMAIN modules' :
                   \/ slug \in DOMAIN modules /\ modules'[slug] = modules[slug]
                   \/ /\ CodeAt(modules'[slug]) \in {"good", "empty", "raising"}
                      /\ \E project \in DOMAIN Projects : Serves(project, modules'[slug])
           Right == /\ \A project \in DOMAIN loaded' \ DOMAIN loaded : Good(project)
                    /\ loaded' = loaded => Spoiled
<1>1. ASSUME DiskInv, [DiskNext]_diskVars PROVE [Right]_diskVars
  <2>1. ASSUME NEW project \in DOMAIN Projects, Loads(project) PROVE Right
    <3>1. /\ DOMAIN loaded' \ DOMAIN loaded = {project}
          /\ LoadedOnes(project, loaded'[project])
          /\ TableTrue(project, Range(loaded'[project]), modules, modules')
      BY <1>1, <2>1, LoadIs DEF DiskInv
    <3>2. Good(project)
      BY <3>1 DEF LoadedOnes, TableTrue
    <3>3. loaded' # loaded
      BY <3>1
    <3> HIDE DEF Good, Spoiled
    <3> QED
      BY <3>1, <3>2, <3>3
  <2>2. ASSUME NEW project \in DOMAIN Projects, LoadFails(project) PROVE Right
    <3>1. loaded' = loaded /\ TableSpoiled(modules, modules')
      BY <1>1, <2>2, LoadFailsIs DEF DiskInv
    <3>2. Spoiled
      BY <3>1 DEF TableSpoiled
    <3> HIDE DEF Good, Spoiled
    <3> QED
      BY <3>1, <3>2
  <2>3. CASE ~ \E project \in DOMAIN Projects : Loads(project) \/ LoadFails(project)
    <3>1. DOMAIN loaded' \ DOMAIN loaded = {} /\ TableSpoiled(modules, modules')
      BY <1>1, <2>3, OthersLoadNothing
    <3>2. Spoiled
      BY <3>1 DEF TableSpoiled
    <3> HIDE DEF Good, Spoiled
    <3> QED
      BY <3>1, <3>2
  <2> HIDE DEF Right
  <2> QED
    BY <2>1, <2>2, <2>3
<1>2. LoadsTrue <=> [][Right]_diskVars
  BY DEF LoadsTrue
<1> QED
  BY <1>1, <1>2, DiskStarts, DiskKept, PTL DEF DiskSpec

-----------------------------------------------------------------------------
(* Texts                                                                   *)

\* A function on the first numbers is a sequence of that length.
LEMMA ListOf ==
    ASSUME NEW T, NEW k \in Nat, NEW f \in [1 .. k -> T]
    PROVE  f \in Seq(T) /\ Len(f) = k
<1>1. f \in Seq(T)
  BY SeqDef
<1>2. Len(f) \in Nat /\ DOMAIN f = 1 .. Len(f) /\ DOMAIN f = 1 .. k
  BY <1>1, LenProperties
<1> DEFINE m == Len(f)
<1>3. m \in Nat /\ 1 .. m = 1 .. k
  BY <1>2
<1> HIDE DEF m
<1>4. m = k
  BY <1>3
<1> QED
  BY <1>1, <1>4 DEF m

\* The end of what it was put behind.
LEMMA EndOfConcat ==
    ASSUME NEW T, NEW s \in Seq(T), NEW x \in Seq(T)
    PROVE  IsSuffix(x, s \o x)
<1> DEFINE all == s \o x
           m == Len(s)
           n == Len(x)
           a == Reverse(x)
           b == Reverse(all)
<1>1. /\ m \in Nat /\ n \in Nat /\ DOMAIN x = 1 .. n /\ all \in Seq(T) /\ Len(all) = m + n
      /\ \A i \in 1 .. m + n : all[i] = IF i <= m THEN s[i] ELSE x[i - m]
      /\ x \in [1 .. n -> T]
  BY ConcatProperties, LenProperties
<1>2. a = [i \in 1 .. n |-> x[(n - i) + 1]] /\ b = [i \in 1 .. m + n |-> all[((m + n) - i) + 1]]
  BY <1>1 DEF Reverse
<1> HIDE DEF all, a, b, m, n
<1>3. all \in [1 .. m + n -> T]
  BY <1>1, LenProperties
<1>4. a \in [1 .. n -> T] /\ b \in [1 .. m + n -> T]
  <2>1. \A i \in 1 .. n : (n - i) + 1 \in 1 .. n
    BY <1>1
  <2>2. \A i \in 1 .. m + n : ((m + n) - i) + 1 \in 1 .. m + n
    BY <1>1
  <2> QED
    BY <1>1, <1>2, <1>3, <2>1, <2>2
<1>5. a \in Seq(T) /\ b \in Seq(T) /\ Len(a) = n /\ Len(b) = m + n
  <2>1. m + n \in Nat
    BY <1>1
  <2> QED
    BY <1>1, <1>4, <2>1, ListOf
<1>6. ASSUME NEW i \in 1 .. n PROVE a[i] = b[i]
  <2>1. i \in 1 .. m + n /\ ((m + n) - i) + 1 \in 1 .. m + n
    BY <1>1
  <2>2. ~(((m + n) - i) + 1 <= m) /\ (((m + n) - i) + 1) - m = (n - i) + 1
    BY <1>1
  <2>3. b[i] = all[((m + n) - i) + 1] /\ a[i] = x[(n - i) + 1]
    BY <1>2, <2>1
  <2> QED
    BY <1>1, <2>1, <2>2, <2>3
<1>7. SubSeq(a, 1, n) = SubSeq(b, 1, n)
  <2>1. \A i \in 1 .. n : a[i] \in T /\ b[i] \in T
    BY <1>4, <1>6
  <2> DEFINE p == SubSeq(a, 1, n)
             q == SubSeq(b, 1, n)
  <2>2. 1 \in Int /\ n \in Int
    BY <1>1
  <2>3. /\ p \in Seq(T) /\ Len(p) = (IF 1 <= n THEN n - 1 + 1 ELSE 0)
        /\ \A i \in 1 .. n - 1 + 1 : p[i] = a[1 + i - 1]
        /\ q \in Seq(T) /\ Len(q) = (IF 1 <= n THEN n - 1 + 1 ELSE 0)
        /\ \A i \in 1 .. n - 1 + 1 : q[i] = b[1 + i - 1]
    BY ONLY <2>1, <2>2, SubSeqProperties
  <2> HIDE DEF p, q
  <2>4. Len(p) = n /\ Len(q) = n
    BY <1>1, <2>3
  <2>5. ASSUME NEW i \in 1 .. n PROVE p[i] = q[i]
    <3>1. i \in 1 .. n - 1 + 1 /\ 1 + i - 1 = i
      BY <1>1
    <3> QED
      BY <1>6, <2>3, <3>1
  <2>6. p = q
    BY <2>3, <2>4, <2>5, SeqEqual
  <2> QED
    BY <2>6 DEF p, q
<1>8. Len(a) <= Len(b)
  BY <1>1, <1>5
<1>9. IsPrefix(a, b)
  BY <1>5, <1>7, <1>8 DEF IsPrefix
<1> QED
  BY <1>9 DEF IsSuffix, a, b, all

LEMMA UniversalIs ==
    ASSUME NEW text \in Seq(Tokens)
    PROVE  LET u == Universal(text) IN
           /\ u \in Seq(Tokens) /\ Len(u) = Len(text) /\ DOMAIN u = DOMAIN text
           /\ \A n \in DOMAIN text : u[n] = IF text[n] = "crlf" THEN "lf" ELSE text[n]
<1> DEFINE u == Universal(text)
           k == Len(text)
<1>1. k \in Nat /\ text \in [1 .. k -> Tokens] /\ DOMAIN text = 1 .. k
  BY LenProperties
<1>2. u = [n \in 1 .. k |-> IF text[n] = "crlf" THEN "lf" ELSE text[n]]
  BY <1>1 DEF Universal
<1> HIDE DEF u, k
<1>3. u \in [1 .. k -> Tokens]
  BY <1>1, <1>2, FileToolsAssumption
<1>4. u \in Seq(Tokens) /\ Len(u) = k /\ DOMAIN u = 1 .. k
  BY <1>1, <1>3, ListOf
<1> QED
  BY <1>1, <1>2, <1>4 DEF u, k

LEMMA ReplacedIs ==
    ASSUME NEW text \in Seq(Tokens), NEW old, NEW new \in Tokens, NEW all
    PROVE  LET r == Replaced(text, old, new, all) IN
           r \in Seq(Tokens) /\ DOMAIN r = DOMAIN text
<1> DEFINE r == Replaced(text, old, new, all)
           k == Len(text)
<1>1. k \in Nat /\ text \in [1 .. k -> Tokens] /\ DOMAIN text = 1 .. k
  BY LenProperties
<1>2. r \in [1 .. k -> Tokens]
  BY <1>1 DEF Replaced
<1> HIDE DEF r
<1> QED
  BY <1>1, <1>2, ListOf DEF r

-----------------------------------------------------------------------------
(* What a call answers                                                     *)

LEMMA TextTyped == ASSUME NEW file0 \in Files PROVE file0.text \in Seq(Tokens)
<1>1. CASE file0 = NoFile
  BY <1>1, EmptySeq DEF NoFile
<1>2. CASE file0 # NoFile
  BY <1>2 DEF Files
<1> QED
  BY <1>1, <1>2

\* An answer that leaves the file alone.
LEMMA NothingMeant ==
    ASSUME NEW op \in Ops, NEW file0 \in Files, op.tool = "read" \/ Verdict(op, file0) # "ok"
    PROVE  Meant(op, file0, Verdict(op, file0), file0)
<1>1. CASE op.tool = "read"
  <2> DEFINE said == Verdict(op, file0)
  <2>1. said = "ok" => file0.text # <<>>
    BY <1>1 DEF Verdict
  <2> HIDE DEF said
  <2>2. Meant(op, file0, said, file0)
    BY <1>1, <2>1 DEF Meant
  <2> QED
    BY <2>2 DEF said
<1>2. CASE op.tool # "read"
  BY <1>2 DEF Meant
<1> QED
  BY <1>1, <1>2

LEMMA WriteMeant ==
    ASSUME NEW op \in Ops, NEW file0 \in Files, op.tool = "write",
           ~(op.append /\ file0.text # <<>>), NEW after, after.text = op.text
    PROVE  Meant(op, file0, "ok", after)
BY DEF Meant

LEMMA AppendMeant ==
    ASSUME NEW op \in Ops, NEW file0 \in Files, op.tool = "write",
           op.append, NEW after, after.text = file0.text \o Behind(Universal(file0.text), op.text)
    PROVE  Meant(op, file0, "ok", after)
<1> DEFINE t == file0.text
           u == Universal(t)
           x == op.text
           b == Behind(u, x)
<1>1. t \in Seq(Tokens) /\ x \in Seq(Tokens)
  BY TextTyped DEF Ops
<1>2. /\ u \in Seq(Tokens) /\ Len(u) = Len(t) /\ DOMAIN u = DOMAIN t
      /\ \A n \in DOMAIN t : u[n] = IF t[n] = "crlf" THEN "lf" ELSE t[n]
  BY <1>1, UniversalIs
<1>3. /\ Len(t) \in Nat /\ DOMAIN t = 1 .. Len(t)
      /\ Len(x) \in Nat
  BY <1>1, LenProperties
<1>4. b = IF u # <<>> /\ Last(u) # "lf" THEN <<"lf">> \o x ELSE x
  BY DEF Behind
<1>5. after.text = t \o b
  OBVIOUS
<1> HIDE DEF t, u, x, b
<1>6. CASE t = <<>>
  <2>1. Len(u) = 0
    BY <1>2, <1>6
  <2>2. u = <<>>
    BY <1>2, <2>1, EmptySeq
  <2>3. after.text = x
    BY <1>1, <1>4, <1>5, <1>6, <2>2, ConcatEmptySeq
  <2> QED
    BY <1>6, <2>3, WriteMeant DEF t, x
<1>7. CASE t # <<>>
  <2>1. Len(t) \in DOMAIN t
    BY <1>1, <1>3, <1>7, EmptySeq
  <2>2. u # <<>>
    <3>1. Len(u) # 0
      BY <1>2, <1>3, <2>1
    <3> QED
      BY <3>1
  <2>3. Last(u) = "lf" <=> Last(t) \in {"lf", "crlf"}
    BY <1>2, <2>1 DEF Last
  <2>4. PICK gap \in Seq(Tokens) :
            b = gap \o x /\ Len(gap) = IF Last(t) \in {"lf", "crlf"} THEN 0 ELSE 1
    <3>1. CASE Last(t) \in {"lf", "crlf"}
      <4> DEFINE none == <<>>
      <4>1. b = none \o x /\ none \in Seq(Tokens) /\ Len(none) = 0
        BY <1>1, <1>4, <2>3, <3>1, ConcatEmptySeq, EmptySeq
      <4> HIDE DEF none
      <4> QED
        BY <3>1, <4>1
    <3>2. CASE Last(t) \notin {"lf", "crlf"}
      <4> DEFINE one == <<"lf">>
      <4>1. b = one \o x /\ one \in Seq(Tokens) /\ Len(one) = 1
        BY <1>4, <2>2, <2>3, <3>2, FileToolsAssumption
      <4> HIDE DEF one
      <4> QED
        BY <3>2, <4>1
    <3> QED
      BY <3>1, <3>2
  <2>5. b \in Seq(Tokens) /\ Len(b) = Len(gap) + Len(x) /\ Len(gap) \in Nat
    <3>1. Len(gap) \in Nat
      BY LenProperties
    <3>2. gap \o x \in Seq(Tokens) /\ Len(gap \o x) = Len(gap) + Len(x)
      BY <1>1, ConcatProperties
    <3> QED
      BY <2>4, <3>1, <3>2
  <2>6. Len(t \o b) = Len(t) + Len(b) /\ t \o b \in Seq(Tokens)
    BY <1>1, <2>5, ConcatProperties
  <2>7. IsPrefix(t, t \o b)
    <3>1. Len(t) \in 1 .. Len(t) /\ 1 \in 1 .. Len(t)
      BY <1>3, <2>1
    <3>2. SubSeq(t \o b, 1, Len(t)) = SubSeq(t, 1, Len(t))
      BY <1>1, <2>5, <3>1, SubSeqOfConcat1
    <3>3. Len(t) <= Len(t \o b)
      BY <1>3, <2>5, <2>6
    <3> QED
      BY <3>2, <3>3 DEF IsPrefix
  <2>8. IsSuffix(x, t \o b)
    <3>1. t \o b = (t \o gap) \o x /\ t \o gap \in Seq(Tokens)
      BY <1>1, <2>4, ConcatAssociative, ConcatProperties
    <3> QED
      BY <1>1, <3>1, EndOfConcat
  <2>9. Len(t \o b) - Len(t) - Len(x) = IF Last(t) \in {"lf", "crlf"} THEN 0 ELSE 1
    <3>1. Len(t \o b) - Len(t) - Len(x) = Len(gap)
      BY <1>3, <2>5, <2>6
    <3> QED
      BY <2>4, <3>1
  <2>10. /\ IsPrefix(file0.text, after.text) /\ IsSuffix(op.text, after.text)
         /\ Len(after.text) - Len(file0.text) - Len(op.text)
                = IF Last(file0.text) \in {"lf", "crlf"} THEN 0 ELSE 1
    BY <1>5, <2>7, <2>8, <2>9 DEF t, x
  <2>11. file0.text # <<>>
    BY <1>7 DEF t
  <2> QED
    BY <2>10, <2>11 DEF Meant
<1> QED
  BY <1>6, <1>7

LEMMA EditMeant ==
    ASSUME NEW op \in Ops, NEW file0 \in Files, op.tool = "edit",
           Verdict(op, file0) = "ok",
           NEW after, after.text = Replaced(Universal(file0.text), op.old, op.new, op.all)
    PROVE  Meant(op, file0, "ok", after)
<1> DEFINE u == Universal(file0.text)
           places == {n \in DOMAIN u : u[n] = op.old}
<1>1. file0.text \in Seq(Tokens)
  BY TextTyped
<1>2. u \in Seq(Tokens)
  BY <1>1, UniversalIs
<1>3. Len(u) \in Nat /\ DOMAIN u = 1 .. Len(u)
  BY <1>2, LenProperties
<1>4. Count(u, op.old) = Cardinality(places)
  BY DEF Count
<1>5. Cardinality(places) # 0 /\ (op.all \/ ~(Cardinality(places) > 1))
  BY <1>4 DEF Verdict
<1>6. IsFiniteSet(places) /\ Cardinality(places) \in Nat
  <2>1. IsFiniteSet(1 .. Len(u))
    BY <1>3, FS_Interval
  <2>2. places \in SUBSET (1 .. Len(u))
    BY <1>3
  <2> HIDE DEF u, places
  <2> QED
    BY <2>1, <2>2, FS_Subset, FS_CardinalityType
<1>7. places # {} /\ (op.all \/ Cardinality(places) = 1)
  <2> HIDE DEF u, places
  <2> QED
    BY <1>5, <1>6, FS_EmptySet
<1>8. DOMAIN after.text = DOMAIN u /\
      \A n \in DOMAIN u : after.text[n] = IF u[n] = op.old /\ (op.all \/ \A m \in 1 .. n - 1 : u[m] # op.old)
                                          THEN op.new ELSE u[n]
  BY DEF Replaced
<1>9. ASSUME NEW n \in places PROVE op.all \/ \A m \in 1 .. n - 1 : u[m] # op.old
  <2> SUFFICES ASSUME ~op.all, NEW m \in 1 .. n - 1, u[m] = op.old PROVE FALSE
    BY DEF Ops
  <2>1. m \in places /\ m # n
    BY <1>3
  <2> HIDE DEF places, u
  <2>2. PICK x : places = {x}
    BY <1>6, <1>7, FS_Singleton
  <2> QED
    BY <2>1, <2>2
<1> HIDE DEF u
<1>10. \A n \in DOMAIN u : after.text[n] = IF n \in places THEN op.new ELSE u[n]
  BY <1>8, <1>9
<1> HIDE DEF places
<1>11. /\ places # {} /\ (op.all \/ Cardinality(places) = 1)
       /\ DOMAIN after.text = DOMAIN u
       /\ \A n \in DOMAIN u : after.text[n] = IF n \in places THEN op.new ELSE u[n]
  BY <1>7, <1>8, <1>10
<1> QED
  BY <1>11 DEF Meant, u, places

-----------------------------------------------------------------------------
(* Threads                                                                 *)

Phases == {"queued", "has read", "opened", "over", "dropped"}
Answers == {"none", "timed out", "ok", "error", "file_not_found", "binary_file", "out_of_range",
            "not_found", "not_unique"}
FileCalls == [op : Ops, thread : Phases, read : Files, result : Answers, answer : Answers]
Emptied == [enc |-> "utf-8", text |-> <<>>]

FilesTyped == plan \in Plans /\ batch \in DOMAIN plan /\ file \in Files /\ calls \in Seq(FileCalls)

\* One that waits has no answer; one that has opened the file means to write; what
\* was there stays there; and the file is as a thread nobody disturbed has left it.
Queued(c) == Thread(c, "queued") => calls[c].answer = "none"
Opener(c) ==
    Thread(c, "opened") => Writes(c) /\ ~Appends(c) /\ Verdict(calls[c].op, calls[c].read) = "ok"
Alone(c) ==
    c \notin clash => /\ Thread(c, "has read") => file = calls[c].read
                      /\ Thread(c, "opened") => file = Emptied
There(c) == Thread(c, "opened") \/ calls[c].read.enc # "none" => file.enc # "none"
ThreadOk(c) == Queued(c) /\ Opener(c) /\ There(c) /\ Alone(c)

\* The inductive invariant.
FilesInv == FilesTyped /\ \A c \in DOMAIN calls : ThreadOk(c)

LEMMA VerdictTyped == ASSUME NEW op \in Ops, NEW read PROVE Verdict(op, read) \in Answers
<1>1. op.tool \in {"read", "write", "edit"}
  BY DEF Ops
<1> QED
  BY <1>1 DEF Verdict, Answers

\* The calls of a batch, before any has begun.
Waits(call) == call.thread = "queued" /\ call.answer = "none" /\ call.read.enc = "none"
LEMMA BatchTyped ==
    ASSUME NEW p \in Plans, NEW b \in DOMAIN p
    PROVE  LET new == [n \in DOMAIN p[b] |-> NewCall(p[b][n])] IN
           /\ new \in Seq(FileCalls) /\ DOMAIN new = 1 .. Len(new) /\ Len(new) \in Nat
           /\ \A n \in DOMAIN new : Waits(new[n])
<1> DEFINE q == p[b]
           k == Len(q)
           new == [n \in DOMAIN q |-> NewCall(q[n])]
<1>1. q \in Seq(Ops)
  <2>1. p \in Seq(Seq(Ops) \ {<<>>})
    BY FileToolsAssumption
  <2>2. DOMAIN p = 1 .. Len(p)
    BY <2>1, LenProperties
  <2>3. p[b] \in Seq(Ops) \ {<<>>}
    BY <2>1, <2>2, ElementOfSeq
  <2> QED
    BY <2>3
<1>2. k \in Nat /\ DOMAIN q = 1 .. k /\ q \in [1 .. k -> Ops]
  BY <1>1, LenProperties
<1> HIDE DEF q, k
<1>3. ASSUME NEW n \in 1 .. k PROVE NewCall(q[n]) \in FileCalls
  BY <1>2 DEF NewCall, FileCalls, Phases, Answers, Files
<1>4. new \in [1 .. k -> FileCalls]
  BY <1>2, <1>3
<1>5. \A n \in DOMAIN new : Waits(new[n])
  BY DEF NewCall, NoFile, Waits
<1> HIDE DEF new
<1>6. new \in Seq(FileCalls) /\ Len(new) = k /\ DOMAIN new = 1 .. k
  BY <1>2, <1>4, ListOf
<1> QED
  BY <1>2, <1>5, <1>6 DEF new, q

LEMMA FilesStart == ASSUME FilesInit PROVE FilesInv
<1>1. plan \in Plans /\ batch = 1 /\ file \in Given
  BY DEF FilesInit
<1>2. batch \in DOMAIN plan
  <2>1. plan \in Seq(Seq(Ops) \ {<<>>}) /\ plan # <<>>
    BY <1>1, FileToolsAssumption
  <2>2. DOMAIN plan = 1 .. Len(plan) /\ Len(plan) \in Nat \ {0}
    BY <2>1, LenProperties, EmptySeq
  <2> QED
    BY <1>1, <2>2
<1>3. calls = [n \in DOMAIN plan[batch] |-> NewCall(plan[batch][n])]
  BY <1>1 DEF FilesInit
<1>4. calls \in Seq(FileCalls) /\ \A n \in DOMAIN calls : Waits(calls[n])
  BY <1>1, <1>2, <1>3, BatchTyped
<1>5. FilesTyped
  BY <1>1, <1>2, <1>4, FileToolsAssumption DEF FilesTyped
<1>6. ASSUME NEW c \in DOMAIN calls PROVE ThreadOk(c)
  BY <1>4 DEF ThreadOk, Queued, Opener, There, Alone, Thread, Waits
<1> QED
  BY <1>5, <1>6 DEF FilesInv

-----------------------------------------------------------------------------
(* Steps of a thread                                                       *)

\* A step of one call changes its record, and the file only if it may write.
OneCall(c) ==
    /\ plan' = plan /\ batch' = batch /\ file' \in Files /\ calls' \in Seq(FileCalls)
    /\ file.enc # "none" => file'.enc # "none"
    /\ DOMAIN calls' = DOMAIN calls
    /\ \A d \in DOMAIN calls \ {c} : calls'[d] = calls[d]
    /\ calls'[c].op = calls[c].op
    /\ (Thread(c, "queued") /\ calls'[c].thread = "has read") \/ calls'[c].read = calls[c].read

LEMMA CallChanged ==
    ASSUME FilesInv, NEW c \in DOMAIN calls, NEW k \in FileCalls, calls' = [calls EXCEPT ![c] = k]
    PROVE  /\ calls' \in Seq(FileCalls) /\ DOMAIN calls' = DOMAIN calls
           /\ \A d \in DOMAIN calls \ {c} : calls'[d] = calls[d]
           /\ calls'[c] = k
<1>1. calls \in Seq(FileCalls)
  BY DEF FilesInv, FilesTyped
<1>2. DOMAIN calls = 1 .. Len(calls) /\ Len(calls) \in Nat
  BY <1>1, LenProperties
<1>3. calls' \in Seq(FileCalls)
  BY <1>1, <1>2, ExceptSeq
<1> QED
  BY <1>3

LEMMA CallTyped ==
    ASSUME FilesInv, NEW c \in DOMAIN calls
    PROVE  calls[c] \in FileCalls
<1>1. calls \in Seq(FileCalls)
  BY DEF FilesInv, FilesTyped
<1>2. DOMAIN calls = 1 .. Len(calls)
  BY <1>1, LenProperties
<1> QED
  BY <1>1, <1>2, ElementOfSeq

\* Whoever held what it read while the file was touched is disturbed.
LEMMA Touched ==
    ASSUME NEW c \in DOMAIN calls, Touch(c)
    PROVE  /\ clash \subseteq clash'
           /\ \A d \in DOMAIN calls \ {c} :
                  d \in InFlight /\ (Writes(c) \/ Writes(d)) => c \in clash' /\ d \in clash'
<1>1. \A d \in InFlight \ {c} : Writes(c) \/ Writes(d) =>
          clash' = clash \union ({c} \union {e \in InFlight : Writes(c) \/ Writes(e)})
  BY DEF Touch
<1>2. clash \subseteq clash'
  BY DEF Touch
<1> QED
  BY <1>1, <1>2

\* The others keep what they have, and the file is theirs or they are disturbed.
LEMMA OthersKept ==
    ASSUME FilesInv, NEW c \in DOMAIN calls, OneCall(c), clash \subseteq clash',
           file' = file \/ (Writes(c) /\ Touch(c)),
           NEW d \in DOMAIN calls, d # c
    PROVE  ThreadOk(d)'
<1>1. calls'[d] = calls[d]
  BY DEF OneCall
<1>2. Queued(d)' /\ Opener(d)' /\ There(d)'
  <2>1. Queued(d)' /\ There(d)'
    BY <1>1 DEF FilesInv, ThreadOk, Queued, There, Thread, OneCall
  <2>2. Opener(d)'
    BY <1>1 DEF FilesInv, ThreadOk, Opener, Thread, Writes, Appends
  <2> QED
    BY <2>1, <2>2
<1>3. Alone(d)'
  <2> SUFFICES ASSUME d \notin clash', calls[d].thread \in {"has read", "opened"} PROVE file' = file
    BY <1>1 DEF FilesInv, ThreadOk, Alone, Thread
  <2>1. d \in InFlight
    BY DEF InFlight
  <2> QED
    BY <2>1, Touched
<1> QED
  BY <1>2, <1>3 DEF ThreadOk

LEMMA OneCallKept ==
    ASSUME FilesInv, NEW c \in DOMAIN calls, OneCall(c), clash \subseteq clash',
           file' = file \/ (Writes(c) /\ Touch(c)), ThreadOk(c)'
    PROVE  FilesInv'
<1>1. FilesTyped'
  BY DEF FilesInv, FilesTyped, OneCall
<1>2. \A d \in DOMAIN calls : ThreadOk(d)'
  BY OthersKept
<1>3. DOMAIN calls' = DOMAIN calls
  BY DEF OneCall
<1> QED
  BY <1>1, <1>2, <1>3 DEF FilesInv

\* What CallsTrue says of one call.
Truth(c) ==
    /\ calls[c].thread # "over" /\ calls'[c].thread = "over" /\ c \notin clash' =>
          Meant(calls[c].op, calls[c].read, calls'[c].result, file')
    /\ calls[c].thread = "queued" /\ calls'[c].thread = "has read" => calls[c].answer = "none"

LEMMA BeginsKeeps ==
    ASSUME FilesInv, NEW c \in DOMAIN calls, Begins(c)
    PROVE  OneCall(c) /\ FilesInv' /\ Truth(c)
<1> DEFINE k == [calls[c] EXCEPT !.thread = "has read", !.read = file]
<1>1. calls[c] \in FileCalls /\ file \in Files
  BY CallTyped DEF FilesInv, FilesTyped
<1>2. k \in FileCalls /\ k.thread = "has read" /\ k.read = file /\ k.op = calls[c].op
  BY <1>1 DEF FileCalls, Phases
<1>3. calls' = [calls EXCEPT ![c] = k] /\ file' = file /\ plan' = plan /\ batch' = batch /\ Touch(c)
  BY DEF Begins
<1> HIDE DEF k
<1>4. calls' \in Seq(FileCalls) /\ DOMAIN calls' = DOMAIN calls /\ calls'[c] = k
      /\ \A d \in DOMAIN calls \ {c} : calls'[d] = calls[d]
  BY <1>2, <1>3, CallChanged
<1>5. OneCall(c)
  BY <1>1, <1>2, <1>3, <1>4 DEF OneCall, Begins
<1>6. ThreadOk(c)'
  BY <1>2, <1>3, <1>4 DEF ThreadOk, Queued, Opener, There, Alone, Thread
<1>7. FilesInv'
  BY <1>3, <1>5, <1>6, OneCallKept, Touched
<1>8. Truth(c)
  BY <1>2, <1>4 DEF Truth, Begins, FilesInv, ThreadOk, Queued, Thread
<1> QED
  BY <1>5, <1>7, <1>8

\* A thread that ends: its record, and what is left to show.
LEMMA OverIs ==
    ASSUME FilesInv, NEW c \in DOMAIN calls, NEW said \in Answers, Over(c, said), file' \in Files,
           file.enc # "none" => file'.enc # "none"
    PROVE  /\ OneCall(c) /\ ThreadOk(c)'
           /\ calls'[c].thread = "over" /\ calls'[c].result = said
<1> DEFINE k == [calls[c] EXCEPT !.thread = "over", !.result = said,
                                 !.answer = IF @ = "none" THEN said ELSE @]
<1>1. calls[c] \in FileCalls
  BY CallTyped
<1>2. /\ k \in FileCalls /\ k.thread = "over" /\ k.result = said
      /\ k.read = calls[c].read /\ k.op = calls[c].op
  BY <1>1 DEF FileCalls, Phases
<1>3. calls' = [calls EXCEPT ![c] = k] /\ plan' = plan /\ batch' = batch
  BY DEF Over
<1> HIDE DEF k
<1>4. calls' \in Seq(FileCalls) /\ DOMAIN calls' = DOMAIN calls /\ calls'[c] = k
      /\ \A d \in DOMAIN calls \ {c} : calls'[d] = calls[d]
  BY <1>2, <1>3, CallChanged
<1>5. OneCall(c)
  BY <1>2, <1>3, <1>4 DEF OneCall
<1>6. ThreadOk(c)'
  BY <1>2, <1>4 DEF FilesInv, ThreadOk, Queued, Opener, There, Alone, Thread
<1> QED
  BY <1>2, <1>4, <1>5, <1>6

LEMMA EndsKeeps ==
    ASSUME FilesInv, NEW c \in DOMAIN calls, Ends(c)
    PROVE  OneCall(c) /\ FilesInv' /\ Truth(c)
<1> DEFINE op == calls[c].op
           read == calls[c].read
           said == Verdict(op, read)
<1>1. op \in Ops /\ read \in Files /\ file \in Files
  BY CallTyped DEF FileCalls, FilesInv, FilesTyped
<1>2. said \in Answers
  BY <1>1, VerdictTyped
<1>3. /\ Thread(c, "has read") /\ Over(c, said) /\ file' = file /\ clash' = clash
      /\ op.tool = "read" \/ said # "ok"
  BY DEF Ends, Writes
<1> HIDE DEF said
<1>4. OneCall(c) /\ ThreadOk(c)' /\ calls'[c].thread = "over" /\ calls'[c].result = said
  BY <1>1, <1>2, <1>3, OverIs
<1>5. FilesInv'
  BY <1>3, <1>4, OneCallKept
<1>6. c \notin clash' => Meant(op, read, said, file')
  <2> SUFFICES ASSUME c \notin clash PROVE Meant(op, read, said, file)
    BY <1>3
  <2>1. file = read
    BY <1>3 DEF FilesInv, ThreadOk, Alone
  <2> HIDE DEF op, read
  <2> QED
    BY <1>1, <1>3, <2>1, NothingMeant DEF said
<1>7. Truth(c)
  BY <1>4, <1>6 DEF Truth
<1> QED
  BY <1>4, <1>5, <1>7

LEMMA OpensKeeps ==
    ASSUME FilesInv, NEW c \in DOMAIN calls, Opens(c)
    PROVE  OneCall(c) /\ FilesInv' /\ Truth(c)
<1> DEFINE k == [calls[c] EXCEPT !.thread = "opened"]
<1>1. calls[c] \in FileCalls
  BY CallTyped
<1>2. k \in FileCalls /\ k.thread = "opened" /\ k.read = calls[c].read /\ k.op = calls[c].op
  BY <1>1 DEF FileCalls, Phases
<1>3. /\ calls' = [calls EXCEPT ![c] = k] /\ file' = Emptied /\ plan' = plan /\ batch' = batch
      /\ Touch(c) /\ Writes(c) /\ ~Appends(c) /\ Verdict(calls[c].op, calls[c].read) = "ok"
      /\ Thread(c, "has read")
  BY DEF Opens, Emptied
<1> HIDE DEF k
<1>4. calls' \in Seq(FileCalls) /\ DOMAIN calls' = DOMAIN calls /\ calls'[c] = k
      /\ \A d \in DOMAIN calls \ {c} : calls'[d] = calls[d]
  BY <1>2, <1>3, CallChanged
<1>5. file' \in Files
  BY <1>3, EmptySeq DEF Emptied, Files
<1>6. OneCall(c)
  BY <1>2, <1>3, <1>4, <1>5 DEF OneCall, Emptied
<1>7. ThreadOk(c)'
  <2>1. Queued(c)' /\ Alone(c)' /\ There(c)'
    BY <1>2, <1>3, <1>4 DEF Queued, Alone, There, Thread, Emptied
  <2>2. Opener(c)'
    BY <1>2, <1>3, <1>4 DEF Opener, Writes, Appends
  <2> QED
    BY <2>1, <2>2 DEF ThreadOk
<1>8. FilesInv'
  BY <1>3, <1>6, <1>7, OneCallKept, Touched
<1>9. Truth(c)
  BY <1>2, <1>3, <1>4 DEF Truth, Thread
<1> QED
  BY <1>6, <1>8, <1>9

\* What is written, and where.
LEMMA OutputTyped ==
    ASSUME FilesInv, NEW c \in DOMAIN calls, Writes(c)
    PROVE  Output(c) \in Seq(Tokens)
<1> DEFINE op == calls[c].op
           text == calls[c].read.text
           u == Universal(text)
<1>1. op \in Ops /\ text \in Seq(Tokens)
  BY CallTyped, TextTyped DEF FileCalls
<1>2. u \in Seq(Tokens)
  BY <1>1, UniversalIs
<1>3. CASE op.tool = "edit"
  <2>1. Output(c) = Replaced(u, op.old, op.new, op.all)
    BY <1>3 DEF Output
  <2>2. op.new \in Tokens
    BY <1>1, <1>3 DEF Ops
  <2> HIDE DEF u, op
  <2> QED
    BY <1>2, <2>1, <2>2, ReplacedIs
<1>4. CASE op.tool # "edit"
  <2>1. op.text \in Seq(Tokens)
    BY <1>1, <1>4 DEF Ops, Writes
  <2>2. Output(c) = Behind(u, op.text) \/ Output(c) = op.text
    BY <1>4 DEF Output
  <2>3. Behind(u, op.text) \in Seq(Tokens)
    <3> DEFINE one == <<"lf">>
    <3>1. one \in Seq(Tokens)
      BY FileToolsAssumption
    <3>2. Behind(u, op.text) = one \o op.text \/ Behind(u, op.text) = op.text
      BY DEF Behind
    <3> HIDE DEF one
    <3>3. one \o op.text \in Seq(Tokens)
      BY <2>1, <3>1, ConcatProperties
    <3> QED
      BY <2>1, <3>2, <3>3
  <2> QED
    BY <2>1, <2>2, <2>3
<1> QED
  BY <1>3, <1>4

LEMMA FlushesKeeps ==
    ASSUME FilesInv, NEW c \in DOMAIN calls, Flushes(c)
    PROVE  OneCall(c) /\ FilesInv' /\ Truth(c)
<1> DEFINE op == calls[c].op
           read == calls[c].read
           text == Output(c)
           rest == SubSeq(file.text, Len(text) + 1, Len(file.text))
<1>1. op \in Ops /\ read \in Files /\ file \in Files
  BY CallTyped DEF FileCalls, FilesInv, FilesTyped
<1>2. /\ Thread(c, "opened") /\ file' = [file EXCEPT !.text = text \o rest]
      /\ Over(c, "ok") /\ Touch(c)
  BY DEF Flushes, Overlaid
<1>3. Writes(c) /\ ~Appends(c) /\ Verdict(op, read) = "ok"
  BY <1>2 DEF FilesInv, ThreadOk, Opener
<1>4. text \in Seq(Tokens)
  BY <1>3, OutputTyped
<1>5. rest \in Seq(Tokens) /\ (file.text = <<>> => rest = <<>>)
  <2> DEFINE all == file.text
             m == Len(text) + 1
             n == Len(all)
  <2>1. all \in Seq(Tokens)
    BY <1>1, TextTyped
  <2>2. m \in Nat /\ m >= 1 /\ n \in Nat
    <3>1. Len(text) \in Nat /\ Len(all) \in Nat
      BY <1>4, <2>1, LenProperties
    <3> QED
      BY <3>1
  <2>3. \A i \in m .. n : all[i] \in Tokens
    <3> HIDE DEF m, all
    <3> TAKE i \in m .. n
    <3>1. i \in 1 .. Len(all)
      BY <2>2
    <3> QED
      BY <2>1, <3>1, ElementOfSeq
  <2>4. m \in Int /\ n \in Int
    BY <2>2
  <2> HIDE DEF all, m, n
  <2>5. SubSeq(all, m, n) \in Seq(Tokens)
    BY ONLY <2>3, <2>4, SubSeqProperties
  <2>6. all = <<>> => n < m
    BY <2>2, EmptySeq DEF n
  <2>7. n < m => SubSeq(all, m, n) = <<>>
    BY ONLY <2>4, SubSeqEmpty
  <2> QED
    BY <2>5, <2>6, <2>7 DEF all, m, n
<1> HIDE DEF text, rest
<1>6. text \o rest \in Seq(Tokens)
  BY <1>4, <1>5, ConcatProperties
<1>7. file.enc # "none" /\ file' \in Files /\ file'.enc = file.enc
  <2>1. file.enc # "none"
    BY <1>2 DEF FilesInv, ThreadOk, There
  <2>2. file \in [enc : {"utf-8", "other"}, text : Seq(Tokens)]
    BY <1>1, <2>1 DEF Files, NoFile
  <2> QED
    BY <1>2, <1>6, <2>1, <2>2 DEF Files
<1>8. OneCall(c) /\ ThreadOk(c)' /\ calls'[c].thread = "over" /\ calls'[c].result = "ok"
  <2> DEFINE said == "ok"
  <2>1. said \in Answers /\ Over(c, said)
    BY <1>2 DEF Answers
  <2> HIDE DEF said
  <2>2. OneCall(c) /\ ThreadOk(c)' /\ calls'[c].thread = "over" /\ calls'[c].result = said
    BY <1>7, <2>1, OverIs
  <2> QED
    BY <2>2 DEF said
<1>9. FilesInv'
  BY <1>2, <1>3, <1>8, OneCallKept, Touched
<1>10. c \notin clash' => Meant(op, read, "ok", file')
  <2> SUFFICES ASSUME c \notin clash' PROVE Meant(op, read, "ok", file')
    OBVIOUS
  <2>1. c \notin clash
    BY <1>2, Touched
  <2>2. file = Emptied
    BY <1>2, <2>1 DEF FilesInv, ThreadOk, Alone
  <2>3. file'.text = text
    <3>1. rest = <<>>
      BY <1>5, <2>2 DEF Emptied
    <3>2. text \o rest = text
      BY <1>4, <3>1, ConcatEmptySeq
    <3> QED
      BY <1>2, <2>2, <3>2 DEF Emptied
  <2>4. CASE op.tool = "edit"
    <3>1. text = Replaced(Universal(read.text), op.old, op.new, op.all)
      BY <2>4 DEF text, Output
    <3> HIDE DEF op, read
    <3> QED
      BY <1>1, <1>3, <2>3, <2>4, <3>1, EditMeant
  <2>5. CASE op.tool # "edit"
    <3>1. op.tool = "write"
      BY <1>1, <1>3, <2>5 DEF Writes, Ops
    <3>2. text = op.text
      BY <1>3, <2>5 DEF text, Output
    <3>3. ~(op.append /\ read.text # <<>>)
      <4>1. ~op.append \/ read.enc = "none"
        BY <1>3, <3>1 DEF Appends
      <4>2. read.enc = "none" => read.text = <<>>
        BY <1>1 DEF Files, NoFile
      <4> QED
        BY <4>1, <4>2
    <3> HIDE DEF op, read
    <3> QED
      BY <1>1, <2>3, <3>1, <3>2, <3>3, WriteMeant
  <2> QED
    BY <2>4, <2>5
<1>11. Truth(c)
  BY <1>8, <1>10 DEF Truth
<1> QED
  BY <1>8, <1>9, <1>11

LEMMA AppendsKeeps ==
    ASSUME FilesInv, NEW c \in DOMAIN calls, AppendsText(c)
    PROVE  OneCall(c) /\ FilesInv' /\ Truth(c)
<1> DEFINE op == calls[c].op
           read == calls[c].read
           text == Output(c)
<1>1. op \in Ops /\ read \in Files /\ file \in Files
  BY CallTyped DEF FileCalls, FilesInv, FilesTyped
<1>2. /\ Thread(c, "has read") /\ file' = [file EXCEPT !.text = file.text \o text]
      /\ Over(c, "ok") /\ Touch(c) /\ Appends(c)
  BY DEF AppendsText
<1>3. Writes(c) /\ op.tool = "write" /\ op.append
  BY <1>2 DEF Appends, Writes
<1>4. text = Behind(Universal(read.text), op.text)
  BY <1>2, <1>3 DEF Output
<1>5. file.text \o text \in Seq(Tokens)
  <2>1. text \in Seq(Tokens) /\ file.text \in Seq(Tokens)
    BY <1>1, <1>3, OutputTyped, TextTyped
  <2> QED
    BY <2>1, ConcatProperties
<1> HIDE DEF text
<1>6. file.enc # "none" /\ file' \in Files /\ file'.enc = file.enc
  <2>1. file.enc # "none"
    BY <1>2 DEF FilesInv, ThreadOk, There, Appends
  <2>2. file \in [enc : {"utf-8", "other"}, text : Seq(Tokens)]
    BY <1>1, <2>1 DEF Files, NoFile
  <2> QED
    BY <1>2, <1>5, <2>1, <2>2 DEF Files
<1>7. OneCall(c) /\ ThreadOk(c)' /\ calls'[c].thread = "over" /\ calls'[c].result = "ok"
  <2> DEFINE said == "ok"
  <2>1. said \in Answers /\ Over(c, said)
    BY <1>2 DEF Answers
  <2> HIDE DEF said
  <2>2. OneCall(c) /\ ThreadOk(c)' /\ calls'[c].thread = "over" /\ calls'[c].result = said
    BY <1>6, <2>1, OverIs
  <2> QED
    BY <2>2 DEF said
<1>8. FilesInv'
  BY <1>2, <1>3, <1>7, OneCallKept, Touched
<1>9. c \notin clash' => Meant(op, read, "ok", file')
  <2> SUFFICES ASSUME c \notin clash' PROVE Meant(op, read, "ok", file')
    OBVIOUS
  <2>1. c \notin clash
    BY <1>2, Touched
  <2>2. file = read
    BY <1>2, <2>1 DEF FilesInv, ThreadOk, Alone
  <2>3. file'.text = read.text \o text
    <3>1. file \in [enc : {"utf-8", "other"}, text : Seq(Tokens)]
      BY <1>1, <1>6 DEF Files, NoFile
    <3> QED
      BY <1>2, <2>2, <3>1
  <2> HIDE DEF op, read
  <2> QED
    BY <1>1, <1>3, <1>4, <2>3, AppendMeant
<1>10. Truth(c)
  BY <1>7, <1>9 DEF Truth
<1> QED
  BY <1>7, <1>8, <1>10

LEMMA AbandonedKeeps ==
    ASSUME FilesInv, NEW c \in DOMAIN calls, Abandoned(c)
    PROVE  OneCall(c) /\ FilesInv' /\ Truth(c)
<1> DEFINE k == [calls[c] EXCEPT !.answer = "timed out",
                                 !.thread = IF @ = "queued" THEN "dropped" ELSE @]
<1>1. calls[c] \in FileCalls /\ file \in Files
  BY CallTyped DEF FilesInv, FilesTyped
<1>2. /\ k \in FileCalls /\ k.read = calls[c].read /\ k.op = calls[c].op
      /\ k.thread = IF calls[c].thread = "queued" THEN "dropped" ELSE calls[c].thread
  BY <1>1 DEF FileCalls, Phases, Answers
<1>3. calls' = [calls EXCEPT ![c] = k] /\ UNCHANGED <<plan, batch, file, clash>>
  BY DEF Abandoned
<1> HIDE DEF k
<1>4. calls' \in Seq(FileCalls) /\ DOMAIN calls' = DOMAIN calls /\ calls'[c] = k
      /\ \A d \in DOMAIN calls \ {c} : calls'[d] = calls[d]
  BY <1>2, <1>3, CallChanged
<1>5. OneCall(c)
  BY <1>1, <1>2, <1>3, <1>4 DEF OneCall
<1>6. ThreadOk(c)'
  <2>1. Queued(c)' /\ There(c)' /\ Alone(c)'
    BY <1>2, <1>3, <1>4 DEF FilesInv, ThreadOk, Queued, There, Alone, Thread
  <2>2. Opener(c)'
    BY <1>2, <1>4 DEF FilesInv, ThreadOk, Opener, Thread, Writes, Appends
  <2> QED
    BY <2>1, <2>2 DEF ThreadOk
<1>7. FilesInv'
  BY <1>3, <1>5, <1>6, OneCallKept
<1>8. Truth(c)
  BY <1>2, <1>4 DEF Truth
<1> QED
  BY <1>5, <1>7, <1>8

LEMMA NextBatchKeeps ==
    ASSUME FilesInv, NextBatch
    PROVE  FilesInv' /\ \A c \in DOMAIN calls : Truth(c)
<1> DEFINE b == batch + 1
           new == [n \in DOMAIN plan[b] |-> NewCall(plan[b][n])]
           m == Len(calls)
<1>1. /\ plan \in Plans /\ batch \in DOMAIN plan /\ file \in Files /\ calls \in Seq(FileCalls)
  BY DEF FilesInv, FilesTyped
<1>2. b \in DOMAIN plan
  <2>1. plan \in Seq(Seq(Ops) \ {<<>>})
    BY <1>1, FileToolsAssumption
  <2>2. DOMAIN plan = 1 .. Len(plan) /\ Len(plan) \in Nat
    BY <2>1, LenProperties
  <2> QED
    BY <1>1, <2>2 DEF NextBatch
<1>3. batch' = b /\ calls' = calls \o new /\ UNCHANGED <<plan, file, clash>>
  BY DEF NextBatch
<1> HIDE DEF b
<1>4. /\ new \in Seq(FileCalls) /\ DOMAIN new = 1 .. Len(new) /\ Len(new) \in Nat
      /\ \A n \in DOMAIN new : Waits(new[n])
  BY <1>1, <1>2, BatchTyped
<1> HIDE DEF new, m
<1>5. m \in Nat /\ DOMAIN calls = 1 .. m
  BY <1>1, LenProperties DEF m
<1>6. /\ calls' \in Seq(FileCalls) /\ Len(calls') = m + Len(new)
      /\ \A i \in 1 .. m + Len(new) : calls'[i] = IF i <= m THEN calls[i] ELSE new[i - m]
  BY <1>1, <1>3, <1>4, ConcatProperties DEF m
<1>7. DOMAIN calls' = 1 .. m + Len(new)
  BY <1>6, LenProperties
<1>8. \A c \in DOMAIN calls : calls'[c] = calls[c]
  BY <1>4, <1>5, <1>6
<1>9. ASSUME NEW c \in DOMAIN calls' PROVE ThreadOk(c)'
  <2>1. CASE c \in DOMAIN calls
    <3>1. ThreadOk(c)
      BY <2>1 DEF FilesInv
    <3>2. calls'[c] = calls[c]
      BY <1>8, <2>1
    <3>3. Queued(c)' /\ There(c)' /\ Alone(c)'
      BY <1>3, <3>1, <3>2 DEF ThreadOk, Queued, There, Alone, Thread
    <3>4. Opener(c)'
      BY <3>1, <3>2 DEF ThreadOk, Opener, Thread, Writes, Appends
    <3> QED
      BY <3>3, <3>4 DEF ThreadOk
  <2>2. CASE c \notin DOMAIN calls
    <3>1. c \in 1 .. m + Len(new) /\ ~(c <= m) /\ c - m \in DOMAIN new
      BY <1>4, <1>5, <1>7, <2>2
    <3>2. Waits(calls'[c])
      BY <1>4, <1>6, <3>1
    <3> QED
      BY <3>2 DEF ThreadOk, Queued, Opener, There, Alone, Thread, Waits
  <2> QED
    BY <2>1, <2>2
<1>10. FilesTyped'
  BY <1>1, <1>2, <1>3, <1>6 DEF FilesTyped
<1>11. \A c \in DOMAIN calls : Truth(c)
  BY <1>8 DEF Truth
<1> QED
  BY <1>9, <1>10, <1>11 DEF FilesInv

LEMMA FilesKept ==
    ASSUME FilesInv, [FilesNext]_filesVars
    PROVE  FilesInv' /\ (calls' = calls \/ \A c \in DOMAIN calls : Truth(c))
<1>1. CASE UNCHANGED filesVars
  <2>1. calls' = calls
    BY <1>1 DEF filesVars
  <2>2. FilesInv'
    BY <1>1 DEF filesVars, FilesInv, FilesTyped, ThreadOk, Queued, Opener, There, Alone, Thread,
                Writes, Appends
  <2> QED
    BY <2>1, <2>2
<1>2. CASE NextBatch
  BY <1>2, NextBatchKeeps
<1>3. ASSUME NEW c \in DOMAIN calls, Step(c) \/ Abandoned(c)
      PROVE  FilesInv' /\ \A d \in DOMAIN calls : Truth(d)
  <2>1. OneCall(c) /\ FilesInv' /\ Truth(c)
    BY <1>3, BeginsKeeps, EndsKeeps, OpensKeeps, FlushesKeeps, AppendsKeeps, AbandonedKeeps DEF Step
  <2>2. ASSUME NEW d \in DOMAIN calls, d # c PROVE Truth(d)
    <3>1. calls'[d] = calls[d]
      BY <2>1, <2>2 DEF OneCall
    <3> QED
      BY <3>1 DEF Truth
  <2> QED
    BY <2>1, <2>2
<1> QED
  BY <1>1, <1>2, <1>3 DEF FilesNext

\* filesystem.py: what a call whose thread nobody disturbs answers is what it did to
\* the file, though its answer came before it or not at all; and a call that was
\* given up before its thread began never begins.
THEOREM CallsAlwaysTrue == FilesSpec => CallsTrue
<1>1. FilesInit => FilesInv
  BY FilesStart, FileToolsAssumption
<1>2. FilesInv /\ [FilesNext]_filesVars => FilesInv'
  BY FilesKept
<1>3. ASSUME FilesInv, [FilesNext]_filesVars
      PROVE  [\A c \in DOMAIN calls :
                  /\ calls[c].thread # "over" /\ calls'[c].thread = "over" /\ c \notin clash' =>
                        Meant(calls[c].op, calls[c].read, calls'[c].result, file')
                  /\ calls[c].thread = "queued" /\ calls'[c].thread = "has read" =>
                        calls[c].answer = "none"]_filesVars
  BY <1>3, FilesKept DEF Truth
<1> QED
  BY <1>1, <1>2, <1>3, PTL DEF FilesSpec, CallsTrue

=============================================================================
