------------------------------ MODULE ListFacts ------------------------------
(***************************************************************************)
(* Laws of lists: of what is picked from one (Picks), and of FoldLeft for one *)
(* operator "Step", to be instantiated for each of those the models fold      *)
(* with.  A fold is the last member of its run: the sequence of what it has   *)
(* come to after each item.                                                  *)
(***************************************************************************)
EXTENDS Integers, Sequences, SequencesExt, Picks, SequenceTheorems, FiniteSetTheorems,
        WellFoundedInduction, TLAPS

CONSTANT Step(_, _)

-----------------------------------------------------------------------------
(* Induction, for the members of a set.                                     *)

Less == {pair \in Nat \X Nat : pair[1] < pair[2]}

\* The library's statement, for a relation without an operator in it.
LEMMA LessWellFounded == IsWellFoundedOn(Less, Nat)
BY NatLessThanWellFounded DEF OpToRel, Less

\* A set with 0 and the successor of each of its numbers has all numbers.
THEOREM Induction ==
    ASSUME NEW S, 0 \in S, \A n \in Nat : n \in S => n + 1 \in S
    PROVE  Nat \subseteq S
<1> DEFINE T == Nat \ S
<1>1. SUFFICES ASSUME T # {} PROVE FALSE
  OBVIOUS
<1>2. PICK x \in T : \A y \in T : ~(<<y, x>> \in Less)
  <2>1. T \subseteq Nat
    OBVIOUS
  <2> HIDE DEF T
  <2> QED
    BY <1>1, <2>1, WFMin, LessWellFounded
<1>3. \A y \in T : ~(y < x)
  BY <1>2 DEF Less
<1>4. x # 0 /\ x - 1 \in Nat
  OBVIOUS
<1> QED
  BY <1>3, <1>4

\* A set of numbers below a bound has a greatest one, the one Max chooses.
LEMMA GreatestIn ==
    ASSUME NEW n \in Nat, NEW S \in SUBSET (1 .. n), S # {}
    PROVE  Max(S) \in S /\ \A x \in S : x <= Max(S)
<1> DEFINE Has(m) == \A T \in SUBSET (1 .. m) : T # {} => \E x \in T : \A y \in T : x >= y
           Good == {m \in Nat : Has(m)}
<1>1. 0 \in Good
  <2>1. 1 .. 0 = {}
    OBVIOUS
  <2> QED
    BY <2>1
<1>2. \A m \in Nat : m \in Good => m + 1 \in Good
  <2> SUFFICES ASSUME NEW m \in Nat, Has(m) PROVE Has(m + 1)
    OBVIOUS
  <2> SUFFICES ASSUME NEW T \in SUBSET (1 .. m + 1), T # {}
               PROVE  \E x \in T : \A y \in T : x >= y
    OBVIOUS
  <2>1. CASE m + 1 \in T
    BY <2>1
  <2>2. CASE m + 1 \notin T
    <3>1. T \in SUBSET (1 .. m)
      BY <2>2
    <3> QED
      BY <3>1
  <2> QED
    BY <2>1, <2>2
<1>3. n \in Good
  <2> HIDE DEF Good
  <2> QED
    BY <1>1, <1>2, Induction
<1>4. \E x \in S : \A y \in S : x >= y
  BY <1>3
<1> QED
  BY <1>4 DEF Max

-----------------------------------------------------------------------------
(* Finite sets of numbers                                                  *)

\* How many members of S are at most x.
Rank(S, x) == Cardinality({y \in S : y <= x})

\* Ranks number the members of a set from 1, in increasing order.
LEMMA RanksNumber ==
    ASSUME NEW S \in SUBSET Nat, IsFiniteSet(S)
    PROVE  /\ Cardinality(S) \in Nat
           /\ \A x \in S : Rank(S, x) \in 1 .. Cardinality(S)
           /\ \A x, y \in S : x < y => Rank(S, x) < Rank(S, y)
           /\ \A n \in 1 .. Cardinality(S) : \E x \in S : Rank(S, x) = n
<1> DEFINE Upto(x) == {y \in S : y <= x}
           rank == [x \in S |-> Rank(S, x)]
<1>1. Cardinality(S) \in Nat
  BY FS_CardinalityType
<1>2. \A x : /\ IsFiniteSet(Upto(x)) /\ Cardinality(Upto(x)) \in Nat
             /\ Cardinality(Upto(x)) <= Cardinality(S)
  <2> TAKE x
  <2>1. Upto(x) \in SUBSET S
    OBVIOUS
  <2> QED
    BY <2>1, FS_Subset, FS_CardinalityType
<1>3. ASSUME NEW x \in S PROVE Rank(S, x) \in 1 .. Cardinality(S)
  <2>1. Cardinality(Upto(x)) # 0
    <3>1. x \in Upto(x)
      OBVIOUS
    <3> QED
      BY <1>2, <3>1, FS_EmptySet
  <2> QED
    BY <1>1, <1>2, <2>1 DEF Rank
<1>4. ASSUME NEW x \in S, NEW y \in S, x < y PROVE Rank(S, x) < Rank(S, y)
  <2>1. Upto(x) \in SUBSET (Upto(y) \ {y}) /\ y \in Upto(y)
    <3>1. ASSUME NEW z \in S, z <= x PROVE z <= y /\ z # y
      BY <1>4, <3>1
    <3>2. y <= y
      OBVIOUS
    <3> QED
      BY <3>1, <3>2
  <2>2. IsFiniteSet(Upto(y) \ {y}) /\ Cardinality(Upto(y) \ {y}) = Cardinality(Upto(y)) - 1
    BY <1>2, <2>1, FS_RemoveElement
  <2>3. Cardinality(Upto(x)) <= Cardinality(Upto(y) \ {y})
    BY <2>1, <2>2, FS_Subset
  <2>4. Cardinality(Upto(x)) \in Nat /\ Cardinality(Upto(y)) \in Nat
    BY <1>2
  <2> HIDE DEF Upto
  <2>5. Cardinality(Upto(x)) < Cardinality(Upto(y))
    BY <2>2, <2>3, <2>4
  <2> QED
    BY <2>5 DEF Upto, Rank
<1>5. rank \in Injection(S, 1 .. Cardinality(S))
  <2>1. rank \in [S -> 1 .. Cardinality(S)]
    BY <1>3
  <2>2. ASSUME NEW x \in S, NEW y \in S, rank[x] = rank[y] PROVE x = y
    <3>1. x < y \/ y < x \/ x = y
      OBVIOUS
    <3>2. Rank(S, x) = Rank(S, y) /\ Rank(S, x) \in Nat
      BY <1>1, <1>3, <2>2
    <3> QED
      BY <1>4, <3>1, <3>2
  <2> QED
    BY <2>1, <2>2 DEF Injection, IsInjective
<1>6. rank \in Surjection(S, 1 .. Cardinality(S))
  <2>1. 1 \in Int /\ Cardinality(S) \in Int
    BY <1>1
  <2>2. IsFiniteSet(1 .. Cardinality(S))
        /\ Cardinality(1 .. Cardinality(S)) = IF 1 > Cardinality(S) THEN 0 ELSE Cardinality(S) - 1 + 1
    BY ONLY <2>1, FS_Interval
  <2>3. Cardinality(1 .. Cardinality(S)) = Cardinality(S)
    BY <1>1, <2>2
  <2> QED
    BY <1>5, <2>2, <2>3, FS_Injection
<1> QED
  BY <1>1, <1>3, <1>4, <1>6 DEF Surjection

\* Ascending lists each member of a set once, in increasing order.
LEMMA AscendingLists ==
    ASSUME NEW S \in SUBSET Nat, IsFiniteSet(S)
    PROVE  /\ Ascending(S) \in [1 .. Cardinality(S) -> S]
           /\ \A x \in S : \E n \in 1 .. Cardinality(S) : Ascending(S)[n] = x
           /\ \A i, k \in 1 .. Cardinality(S) : i < k => Ascending(S)[i] < Ascending(S)[k]
<1>1. \A n \in 1 .. Cardinality(S) : Ascending(S)[n] \in S /\ Rank(S, Ascending(S)[n]) = n
  <2> TAKE n \in 1 .. Cardinality(S)
  <2>1. Ascending(S)[n] = CHOOSE x \in S : Rank(S, x) = n
    BY DEF Ascending, Rank
  <2>2. \E x \in S : Rank(S, x) = n
    BY RanksNumber
  <2> QED
    BY <2>1, <2>2
<1>2. Ascending(S) \in [1 .. Cardinality(S) -> S]
  BY <1>1 DEF Ascending
<1>3. \A x, y \in S : Rank(S, x) = Rank(S, y) => x = y
  <2> TAKE x \in S, y \in S
  <2>1. x < y \/ y < x \/ x = y
    OBVIOUS
  <2>2. Rank(S, x) \in Nat /\ Rank(S, y) \in Nat
    BY RanksNumber
  <2> QED
    BY <2>1, <2>2, RanksNumber
<1>4. ASSUME NEW x \in S PROVE \E n \in 1 .. Cardinality(S) : Ascending(S)[n] = x
  BY <1>1, <1>3, RanksNumber
<1>5. ASSUME NEW i \in 1 .. Cardinality(S), NEW k \in 1 .. Cardinality(S), i < k
      PROVE  Ascending(S)[i] < Ascending(S)[k]
  <2> DEFINE a == Ascending(S)[i]
             b == Ascending(S)[k]
  <2>1. a \in S /\ b \in S /\ Rank(S, a) = i /\ Rank(S, b) = k
    BY <1>1
  <2> HIDE DEF a, b
  <2>2. a < b \/ b < a \/ a = b
    BY <2>1
  <2>3. i \in Nat /\ k \in Nat
    OBVIOUS
  <2>4. a < b
    BY <1>5, <2>1, <2>2, <2>3, RanksNumber
  <2> QED
    BY <2>4 DEF a, b
<1> QED
  BY <1>2, <1>4, <1>5

\* What is picked from a list is in it, at one of the positions.
LEMMA PickedAre ==
    ASSUME NEW list, NEW P \in SUBSET Nat, IsFiniteSet(P)
    PROVE  /\ \A x \in Range(ItemsAt(list, P)) : \E i \in P : x = list[i]
           /\ IsFiniteSet(DOMAIN ItemsAt(list, P)) /\ DOMAIN ItemsAt(list, P) \in SUBSET Nat
<1>1. ASSUME NEW n \in 1 .. Cardinality(P) PROVE \E i \in P : ItemsAt(list, P)[n] = list[i]
  <2>1. \E x \in P : Rank(P, x) = n
    BY RanksNumber
  <2>2. Ascending(P)[n] \in P
    BY <2>1 DEF Ascending, Rank
  <2> QED
    BY <2>2 DEF ItemsAt
<1>2. DOMAIN ItemsAt(list, P) = 1 .. Cardinality(P)
  BY DEF ItemsAt
<1>3. IsFiniteSet(1 .. Cardinality(P)) /\ 1 .. Cardinality(P) \in SUBSET Nat
  BY FS_CardinalityType, FS_Interval
<1> QED
  BY <1>1, <1>2, <1>3 DEF Range

-----------------------------------------------------------------------------
(* Folds.                                                                   *)

\* What a fold comes to after each item, from nothing on.
IsRun(run, base, seq, n) ==
    /\ run[0] = base
    /\ \A i \in 1 .. n : run[i] = Step(run[i - 1], seq[i])

\* There is a run along every sequence.
LEMMA RunExists ==
    ASSUME NEW base, NEW seq, NEW n \in Nat
    PROVE  \E run : DOMAIN run = 0 .. n /\ IsRun(run, base, seq, n)
<1> DEFINE Good == {m \in Nat : \E run : DOMAIN run = 0 .. m /\ IsRun(run, base, seq, m)}
<1>1. 0 \in Good
  <2> DEFINE run == [i \in 0 .. 0 |-> base]
  <2>1. DOMAIN run = 0 .. 0 /\ IsRun(run, base, seq, 0)
    BY DEF IsRun
  <2> HIDE DEF run
  <2> QED
    BY <2>1
<1>2. \A m \in Nat : m \in Good => m + 1 \in Good
  <2> SUFFICES ASSUME NEW m \in Nat, m \in Good PROVE m + 1 \in Good
    OBVIOUS
  <2>1. PICK run : DOMAIN run = 0 .. m /\ IsRun(run, base, seq, m)
    OBVIOUS
  <2> DEFINE more == [i \in 0 .. m + 1 |-> IF i = m + 1 THEN Step(run[m], seq[m + 1]) ELSE run[i]]
  <2>2. DOMAIN more = 0 .. m + 1 /\ IsRun(more, base, seq, m + 1)
    <3>1. more[0] = base
      BY <2>1 DEF IsRun
    <3>2. ASSUME NEW i \in 1 .. m + 1 PROVE more[i] = Step(more[i - 1], seq[i])
      <4>1. CASE i = m + 1
        <5>1. more[i] = Step(run[m], seq[m + 1]) /\ more[m] = run[m]
          BY <4>1
        <5> QED
          BY <4>1, <5>1
      <4>2. CASE i # m + 1
        <5>1. i \in 1 .. m /\ i - 1 \in 0 .. m
          BY <4>2
        <5>2. more[i] = run[i] /\ more[i - 1] = run[i - 1]
          BY <5>1
        <5> QED
          BY <5>1, <5>2, <2>1 DEF IsRun
      <4> QED
        BY <4>1, <4>2
    <3> HIDE DEF more
    <3> QED
      <4>1. DOMAIN more = 0 .. m + 1
        BY DEF more
      <4> QED
        BY <3>1, <3>2, <4>1 DEF IsRun
  <2> HIDE DEF more
  <2> QED
    BY <2>2
<1>3. n \in Good
  <2> HIDE DEF Good
  <2> QED
    BY <1>1, <1>2, Induction
<1> QED
  BY <1>3

\* The equation of the library's definition.
Solves(f, base, seq, n) ==
    f = [s \in SUBSET (1 .. n) |->
            IF s = {} THEN base ELSE Step(f[s \ {Max(s)}], seq[Max(s)])]

LEMMA EquationSolved ==
    ASSUME NEW base, NEW seq, NEW n \in Nat
    PROVE  \E f : Solves(f, base, seq, n)
<1> DEFINE Good == {m \in Nat : \E f : Solves(f, base, seq, m)}
<1>1. 0 \in Good
  <2> DEFINE f == [s \in SUBSET (1 .. 0) |-> base]
  <2>0. \A s \in SUBSET (1 .. 0) : s = {}
    OBVIOUS
  <2>1. Solves(f, base, seq, 0)
    BY <2>0 DEF Solves
  <2> HIDE DEF f
  <2> QED
    BY <2>1
<1>2. \A m \in Nat : m \in Good => m + 1 \in Good
  <2> SUFFICES ASSUME NEW m \in Nat, m \in Good PROVE m + 1 \in Good
    OBVIOUS
  <2>1. PICK f : Solves(f, base, seq, m)
    OBVIOUS
  <2> DEFINE F == [s \in SUBSET (1 .. m + 1) |->
                      IF m + 1 \in s THEN Step(f[s \ {m + 1}], seq[m + 1]) ELSE f[s]]
             G == [s \in SUBSET (1 .. m + 1) |->
                      IF s = {} THEN base ELSE Step(F[s \ {Max(s)}], seq[Max(s)])]
  <2>2. ASSUME NEW s \in SUBSET (1 .. m + 1) PROVE F[s] = G[s]
    <3>1. CASE m + 1 \in s
      <4>1. Max(s) = m + 1
        <5>1. m + 1 \in Nat /\ s # {}
          BY <3>1
        <5>2. Max(s) \in s /\ \A x \in s : x <= Max(s)
          <6> HIDE DEF F, G
          <6> QED
            BY <5>1, GreatestIn
        <5>3. Max(s) \in 1 .. m + 1 /\ m + 1 <= Max(s)
          BY <5>2, <3>1
        <5> QED
          BY <5>3
      <4>2. s \ {m + 1} \in SUBSET (1 .. m + 1) /\ m + 1 \notin s \ {m + 1}
        OBVIOUS
      <4>3. F[s \ {m + 1}] = f[s \ {m + 1}]
        BY <4>2
      <4>4. F[s] = Step(f[s \ {m + 1}], seq[m + 1])
        BY <3>1
      <4>5. G[s] = Step(F[s \ {Max(s)}], seq[Max(s)])
        BY <3>1
      <4> QED
        BY <4>1, <4>3, <4>4, <4>5
    <3>2. CASE m + 1 \notin s
      <4>1. s \in SUBSET (1 .. m)
        BY <3>2
      <4>2. F[s] = f[s]
        BY <3>2
      <4>3. f[s] = IF s = {} THEN base ELSE Step(f[s \ {Max(s)}], seq[Max(s)])
        BY <2>1, <4>1 DEF Solves
      <4>4. s \ {Max(s)} \in SUBSET (1 .. m + 1) /\ m + 1 \notin s \ {Max(s)}
        BY <3>2
      <4>5. F[s \ {Max(s)}] = f[s \ {Max(s)}]
        BY <4>4
      <4>6. G[s] = IF s = {} THEN base ELSE Step(F[s \ {Max(s)}], seq[Max(s)])
        OBVIOUS
      <4> QED
        BY <4>2, <4>3, <4>5, <4>6
    <3> QED
      BY <3>1, <3>2
  <2>3. F = G
    <3>1. DOMAIN F = SUBSET (1 .. m + 1) /\ DOMAIN G = SUBSET (1 .. m + 1)
      OBVIOUS
    <3>2. F = [s \in SUBSET (1 .. m + 1) |-> F[s]] /\ G = [s \in SUBSET (1 .. m + 1) |-> G[s]]
      OBVIOUS
    <3> HIDE DEF F, G
    <3> QED
      BY <2>2, <3>1, <3>2
  <2>4. Solves(F, base, seq, m + 1)
    <3> HIDE DEF F
    <3> QED
      BY <2>3 DEF Solves, G
  <2> HIDE DEF F
  <2> QED
    BY <2>4
<1>3. n \in Good
  <2> HIDE DEF Good
  <2> QED
    BY <1>1, <1>2, Induction
<1> QED
  BY <1>3

\* A fold is where its run ends.
THEOREM FoldIsRun ==
    ASSUME NEW base, NEW n \in Nat, NEW seq, DOMAIN seq = 1 .. n,
           NEW run, IsRun(run, base, seq, n)
    PROVE  FoldLeft(Step, base, seq) = run[n]
<1> DEFINE f == CHOOSE f : Solves(f, base, seq, n)
<1>1. FoldLeft(Step, base, seq) = f[1 .. n]
  BY DEF FoldLeft, MapThenFoldSet, Solves
<1>2. Solves(f, base, seq, n)
  BY EquationSolved
<1> HIDE DEF f
<1> DEFINE Good == {m \in Nat : m <= n => f[1 .. m] = run[m]}
<1>3. 0 \in Good
  BY <1>2 DEF Solves, IsRun
<1>4. \A m \in Nat : m \in Good => m + 1 \in Good
  <2> SUFFICES ASSUME NEW m \in Nat, m \in Good, m + 1 <= n PROVE f[1 .. m + 1] = run[m + 1]
    OBVIOUS
  <2>1. Max(1 .. m + 1) = m + 1
    <3> DEFINE S == 1 .. m + 1
    <3>1. m + 1 \in Nat /\ S \in SUBSET (1 .. m + 1) /\ S # {} /\ m + 1 \in S
      OBVIOUS
    <3>2. Max(S) \in S /\ \A x \in S : x <= Max(S)
      <4> HIDE DEF S
      <4> QED
        BY <3>1, GreatestIn
    <3>3. Max(S) \in 1 .. m + 1 /\ m + 1 <= Max(S)
      BY <3>1, <3>2
    <3> QED
      BY <3>3
  <2>2. (1 .. m + 1) \ {m + 1} = 1 .. m
    OBVIOUS
  <2>3. f[1 .. m + 1] = Step(f[1 .. m], seq[m + 1])
    <3>1. 1 .. m + 1 \in SUBSET (1 .. n) /\ 1 .. m + 1 # {}
      OBVIOUS
    <3>2. f[1 .. m + 1] = Step(f[(1 .. m + 1) \ {Max(1 .. m + 1)}], seq[Max(1 .. m + 1)])
      BY <1>2, <3>1 DEF Solves
    <3> QED
      BY <2>1, <2>2, <3>2
  <2>4. run[m + 1] = Step(run[m], seq[m + 1])
    BY DEF IsRun
  <2> QED
    BY <2>3, <2>4
<1>5. n \in Good
  <2> HIDE DEF Good
  <2> QED
    BY <1>3, <1>4, Induction
<1> QED
  BY <1>1, <1>5

COROLLARY FoldEmpty ==
    ASSUME NEW base
    PROVE  FoldLeft(Step, base, <<>>) = base
<1> DEFINE run == [i \in 0 .. 0 |-> base]
<1>1. IsRun(run, base, <<>>, 0) /\ run[0] = base
  BY DEF IsRun
<1>2. DOMAIN <<>> = 1 .. 0
  OBVIOUS
<1> HIDE DEF run
<1> QED
  BY <1>1, <1>2, FoldIsRun

\* A longer sequence folds from where the shorter one came to.
THEOREM FoldConcat ==
    ASSUME NEW base, NEW T, NEW s \in Seq(T), NEW u \in Seq(T)
    PROVE  FoldLeft(Step, base, s \o u) = FoldLeft(Step, FoldLeft(Step, base, s), u)
<1> DEFINE m == Len(s)
           n == Len(u)
<1>1. m \in Nat /\ n \in Nat /\ DOMAIN s = 1 .. m /\ DOMAIN u = 1 .. n
  BY LenProperties
<1>2. /\ DOMAIN (s \o u) = 1 .. m + n
      /\ \A i \in 1 .. m : (s \o u)[i] = s[i]
      /\ \A i \in 1 .. n : (s \o u)[m + i] = u[i]
  <2>1. s \o u \in Seq(T) /\ Len(s \o u) = m + n
    BY ConcatProperties
  <2>2. \A i \in 1 .. m + n : (s \o u)[i] = IF i <= m THEN s[i] ELSE u[i - m]
    BY ConcatProperties
  <2>3. DOMAIN (s \o u) = 1 .. m + n
    BY <2>1, LenProperties
  <2> HIDE DEF m, n
  <2>4. \A i \in 1 .. m : (s \o u)[i] = s[i]
    BY <2>2, <1>1
  <2>5. ASSUME NEW i \in 1 .. n PROVE (s \o u)[m + i] = u[i]
    <3>1. m + i \in 1 .. m + n /\ ~(m + i <= m) /\ (m + i) - m = i
      BY <1>1
    <3> QED
      BY <3>1, <2>2
  <2> QED
    BY <2>3, <2>4, <2>5
<1> HIDE DEF m, n
<1>3. PICK first : IsRun(first, base, s, m)
  BY <1>1, RunExists
<1>4. FoldLeft(Step, base, s) = first[m]
  BY <1>1, <1>3, FoldIsRun
<1>5. PICK second : IsRun(second, first[m], u, n)
  BY <1>1, RunExists
<1>6. FoldLeft(Step, first[m], u) = second[n]
  BY <1>1, <1>5, FoldIsRun
<1> DEFINE whole == [i \in 0 .. m + n |-> IF i <= m THEN first[i] ELSE second[i - m]]
<1>7. whole[m + n] = second[n]
  <2>1. CASE n = 0
    BY <2>1, <1>1, <1>5 DEF IsRun
  <2>2. CASE n # 0
    BY <2>2, <1>1
  <2> QED
    BY <2>1, <2>2
<1>8. IsRun(whole, base, s \o u, m + n)
  <2>1. whole[0] = base
    BY <1>1, <1>3 DEF IsRun
  <2>2. ASSUME NEW i \in 1 .. m + n PROVE whole[i] = Step(whole[i - 1], (s \o u)[i])
    <3>1. CASE i <= m
      <4>1. i \in 1 .. m /\ i - 1 \in 0 .. m /\ i - 1 \in 0 .. m + n
        BY <3>1, <1>1
      <4>2. whole[i] = first[i] /\ whole[i - 1] = first[i - 1]
        BY <4>1, <1>1
      <4> QED
        BY <4>1, <4>2, <1>2, <1>3 DEF IsRun
    <3>2. CASE ~(i <= m)
      <4> DEFINE j == i - m
      <4>1. j \in 1 .. n /\ m + j = i /\ j - 1 = (i - 1) - m
        BY <3>2, <1>1
      <4>2. whole[i] = second[j]
        BY <3>2, <1>1
      <4>3. whole[i - 1] = second[j - 1]
        <5>1. CASE i - 1 <= m
          <6>1. i - 1 = m /\ j - 1 = 0
            BY <5>1, <3>2, <1>1
          <6>2. whole[m] = first[m]
            BY <1>1
          <6> QED
            BY <6>1, <6>2, <1>5 DEF IsRun
        <5>2. CASE ~(i - 1 <= m)
          <6>1. i - 1 \in 0 .. m + n
            BY <1>1
          <6> QED
            BY <5>2, <6>1, <4>1
        <5> QED
          BY <5>1, <5>2
      <4>4. second[j] = Step(second[j - 1], u[j])
        BY <4>1, <1>5 DEF IsRun
      <4>5. (s \o u)[i] = u[j]
        BY <4>1, <1>2
      <4> QED
        BY <4>2, <4>3, <4>4, <4>5
    <3> QED
      BY <3>1, <3>2
  <2> HIDE DEF whole
  <2> QED
    BY <2>1, <2>2 DEF IsRun
<1> HIDE DEF whole
<1>9. FoldLeft(Step, base, s \o u) = whole[m + n]
  <2>1. m + n \in Nat
    BY <1>1
  <2> QED
    BY <2>1, <1>2, <1>8, FoldIsRun
<1> QED
  BY <1>4, <1>6, <1>7, <1>9

COROLLARY FoldOne ==
    ASSUME NEW base, NEW item
    PROVE  FoldLeft(Step, base, <<item>>) = Step(base, item)
<1> DEFINE run == [i \in 0 .. 1 |-> IF i = 0 THEN base ELSE Step(base, item)]
           seq == <<item>>
<1>1. DOMAIN seq = 1 .. 1 /\ seq[1] = item
  OBVIOUS
<1>2. IsRun(run, base, seq, 1) /\ run[1] = Step(base, item)
  BY DEF IsRun
<1> HIDE DEF run, seq
<1>3. FoldLeft(Step, base, seq) = run[1]
  BY <1>1, <1>2, FoldIsRun
<1> QED
  BY <1>2, <1>3 DEF seq

\* Folding two items, and three.
COROLLARY FoldTwo ==
    ASSUME NEW base, NEW seq, DOMAIN seq = 1 .. 2
    PROVE  FoldLeft(Step, base, seq) = Step(Step(base, seq[1]), seq[2])
<1> DEFINE run == [i \in 0 .. 2 |-> IF i = 0 THEN base ELSE IF i = 1 THEN Step(base, seq[1])
                                    ELSE Step(Step(base, seq[1]), seq[2])]
           n == 2
<1>1. IsRun(run, base, seq, n) /\ run[n] = Step(Step(base, seq[1]), seq[2])
  BY DEF IsRun
<1>2. n \in Nat /\ DOMAIN seq = 1 .. n
  OBVIOUS
<1> HIDE DEF run, n
<1>3. FoldLeft(Step, base, seq) = run[n]
  BY <1>1, <1>2, FoldIsRun
<1> QED
  BY <1>1, <1>3

COROLLARY FoldThree ==
    ASSUME NEW base, NEW seq, DOMAIN seq = 1 .. 3
    PROVE  FoldLeft(Step, base, seq) = Step(Step(Step(base, seq[1]), seq[2]), seq[3])
<1> DEFINE run == [i \in 0 .. 3 |-> IF i = 0 THEN base ELSE IF i = 1 THEN Step(base, seq[1])
                                    ELSE IF i = 2 THEN Step(Step(base, seq[1]), seq[2])
                                    ELSE Step(Step(Step(base, seq[1]), seq[2]), seq[3])]
           n == 3
<1>1. IsRun(run, base, seq, n) /\ run[n] = Step(Step(Step(base, seq[1]), seq[2]), seq[3])
  BY DEF IsRun
<1>2. n \in Nat /\ DOMAIN seq = 1 .. n
  OBVIOUS
<1> HIDE DEF run, n
<1>3. FoldLeft(Step, base, seq) = run[n]
  BY <1>1, <1>2, FoldIsRun
<1> QED
  BY <1>1, <1>3

\* One item more is one step more.
COROLLARY FoldAppend ==
    ASSUME NEW base, NEW T, NEW s \in Seq(T), NEW item \in T
    PROVE  FoldLeft(Step, base, Append(s, item)) = Step(FoldLeft(Step, base, s), item)
<1> DEFINE last == <<item>>
<1>1. Append(s, item) = s \o last /\ last \in Seq(T)
  BY AppendIsConcat
<1>2. FoldLeft(Step, FoldLeft(Step, base, s), last) = Step(FoldLeft(Step, base, s), item)
  BY FoldOne
<1> HIDE DEF last
<1>3. FoldLeft(Step, base, s \o last) = FoldLeft(Step, FoldLeft(Step, base, s), last)
  BY <1>1, FoldConcat
<1> QED
  BY <1>1, <1>2, <1>3

\* A fold stays where every step stays.
COROLLARY FoldStays ==
    ASSUME NEW P, NEW base \in P, NEW T, NEW seq \in Seq(T),
           \A a \in P, i \in 1 .. Len(seq) : Step(a, seq[i]) \in P
    PROVE  FoldLeft(Step, base, seq) \in P
<1>1. Len(seq) \in Nat /\ DOMAIN seq = 1 .. Len(seq)
  BY LenProperties
<1>2. PICK run : IsRun(run, base, seq, Len(seq))
  BY <1>1, RunExists
<1> DEFINE Good == {m \in Nat : m <= Len(seq) => run[m] \in P}
<1>3. 0 \in Good
  BY <1>2 DEF IsRun
<1>4. \A m \in Nat : m \in Good => m + 1 \in Good
  BY <1>1, <1>2 DEF IsRun
<1>5. Len(seq) \in Good
  <2> HIDE DEF Good
  <2> QED
    BY <1>1, <1>3, <1>4, Induction
<1> QED
  BY <1>1, <1>2, <1>5, FoldIsRun

\* An item behind the second of two lists is behind both.
LEMMA ConcatThree ==
    ASSUME NEW T, NEW s \in Seq(T), NEW t \in Seq(T), NEW u \in Seq(T)
    PROVE  (s \o t) \o u = s \o (t \o u)
BY ConcatAssociative, SMT

LEMMA AppendBehind ==
    ASSUME NEW T, NEW s \in Seq(T), NEW t \in Seq(T), NEW item \in T
    PROVE  s \o Append(t, item) = Append(s \o t, item)
<1> DEFINE last == <<item>>
<1>1. Append(t, item) = t \o last /\ last \in Seq(T)
  BY AppendIsConcat
<1>2. s \o t \in Seq(T)
  BY ConcatProperties
<1>3. Append(s \o t, item) = (s \o t) \o last
  BY <1>2, AppendIsConcat
<1> HIDE DEF last
<1>4. (s \o t) \o last = s \o (t \o last)
  BY <1>1, ConcatThree
<1> QED
  BY <1>1, <1>3, <1>4

\* A fold keeps up with its list: what holds of a list and what it comes to, and
\* is kept by one item more, holds when more of the list is folded.
THEOREM FoldTracks ==
    ASSUME NEW T, NEW R, NEW base, NEW before \in Seq(T), <<before, base>> \in R,
           \A s \in Seq(T), item \in T :
               \A a : <<s, a>> \in R => <<Append(s, item), Step(a, item)>> \in R,
           NEW list \in Seq(T)
    PROVE  <<before \o list, FoldLeft(Step, base, list)>> \in R
<1> DEFINE Kept(s) == <<before \o s, FoldLeft(Step, base, s)>> \in R
           Has(m) == \A s \in Seq(T) : Len(s) = m => Kept(s)
           Good == {m \in Nat : Has(m)}
<1>1. 0 \in Good
  <2> SUFFICES ASSUME NEW s \in Seq(T), Len(s) = 0 PROVE Kept(s)
    <3> HIDE DEF Kept
    <3> QED
      OBVIOUS
  <2>1. s = <<>>
    BY EmptySeq
  <2>2. before \o s = before
    BY <2>1, ConcatEmptySeq
  <2>3. FoldLeft(Step, base, s) = base
    BY <2>1, FoldEmpty
  <2> QED
    BY <2>2, <2>3
<1>2. \A m \in Nat : m \in Good => m + 1 \in Good
  <2> SUFFICES ASSUME NEW m \in Nat, Has(m), NEW s \in Seq(T), Len(s) = m + 1 PROVE Kept(s)
    <3> HIDE DEF Kept
    <3> QED
      OBVIOUS
  <2>1. PICK front \in Seq(T), item \in T : s = Append(front, item)
    <3>1. s # <<>>
      OBVIOUS
    <3> QED
      BY <3>1, SequenceEmptyOrAppend
  <2>2. Len(front) = m
    BY <2>1, AppendProperties, LenProperties
  <2>3. Kept(front)
    <3> HIDE DEF Kept
    <3> QED
      BY <2>2
  <2>4. before \o front \in Seq(T) /\ before \o s = Append(before \o front, item)
    BY <2>1, ConcatProperties, AppendBehind
  <2>5. FoldLeft(Step, base, s) = Step(FoldLeft(Step, base, front), item)
    BY <2>1, FoldAppend
  <2> QED
    BY <2>3, <2>4, <2>5
<1>3. Len(list) \in Good
  <2>1. Len(list) \in Nat
    BY LenProperties
  <2> HIDE DEF Good
  <2> QED
    BY <1>1, <1>2, <2>1, Induction
<1> QED
  BY <1>3

=============================================================================
