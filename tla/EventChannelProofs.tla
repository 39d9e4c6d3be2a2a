-------------------------- MODULE EventChannelProofs --------------------------
(***************************************************************************)
(* Proofs about EventChannel for every number of readers and callbacks,    *)
(* every ring and every backlog, and about RetryStream for every policy,   *)
(* every budget and every stream of chunks.                                *)
(***************************************************************************)
EXTENDS EventChannel, RetryStream, SequenceTheorems, FiniteSetTheorems, TLAPS

\* A stretch of the stream that ends with event n, with nothing left out of it.
Suffix(q, n) == \A i \in 1 .. Len(q) : q[i] = n - Len(q) + i

-----------------------------------------------------------------------------
(* The bounded sequences                                                   *)

\* Newest keeps the last items, as many as it may.
LEMMA NewestIs ==
    ASSUME NEW S, NEW s \in Seq(S), NEW n \in Nat
    PROVE  /\ Newest(n, s) \in Seq(S)
           /\ Len(Newest(n, s)) = IF Len(s) <= n THEN Len(s) ELSE n
           /\ \A i \in 1 .. Len(Newest(n, s)) :
                Newest(n, s)[i] = s[Len(s) - Len(Newest(n, s)) + i]
<1>1. Len(s) \in Nat /\ \A i \in 1 .. Len(s) : s[i] \in S
  OBVIOUS
<1>2. CASE Len(s) <= n
  BY <1>1, <1>2 DEF Newest
<1>3. CASE ~(Len(s) <= n)
  <2> DEFINE m == Len(s) - n + 1
  <2>1. m \in Int /\ \A i \in m .. Len(s) : s[i] \in S
    BY <1>1, <1>3
  <2>2. /\ SubSeq(s, m, Len(s)) \in Seq(S)
        /\ Len(SubSeq(s, m, Len(s))) = IF m <= Len(s) THEN Len(s) - m + 1 ELSE 0
        /\ \A i \in 1 .. Len(s) - m + 1 : SubSeq(s, m, Len(s))[i] = s[m + i - 1]
    BY <1>1, <2>1, SubSeqProperties
  <2>3. Newest(n, s) = SubSeq(s, m, Len(s))
    BY <1>3 DEF Newest
  <2> QED
    BY <1>1, <1>3, <2>2, <2>3
<1> QED
  BY <1>2, <1>3

LEMMA NewestSuffix ==
    ASSUME NEW S, NEW s \in Seq(S), NEW n \in Nat, NEW m \in Nat, Suffix(s, m)
    PROVE  Suffix(Newest(n, s), m)
<1> DEFINE w == Newest(n, s)
<1>1. /\ w \in Seq(S) /\ Len(w) <= Len(s)
      /\ \A i \in 1 .. Len(w) : w[i] = s[Len(s) - Len(w) + i]
  BY NewestIs
<1> HIDE DEF w
<1>2. \A i \in 1 .. Len(w) : Len(s) - Len(w) + i \in 1 .. Len(s)
  BY <1>1
<1>3. Suffix(w, m)
  BY <1>1, <1>2 DEF Suffix
<1> QED
  BY <1>3 DEF w

\* An offer is the newest item, behind what was there, less the oldest of it
\* when there was no room.
LEMMA OfferedIs ==
    ASSUME NEW S, NEW q \in Seq(S), NEW item \in S, Len(q) <= Backlog
    PROVE  /\ Offered(q, item) \in Seq(S)
           /\ Len(Offered(q, item)) = IF Full(q) THEN Len(q) ELSE Len(q) + 1
           /\ Len(Offered(q, item)) <= Backlog
           /\ Offered(q, item)[Len(Offered(q, item))] = item
           /\ \A i \in 1 .. Len(Offered(q, item)) - 1 :
                Offered(q, item)[i] = q[Len(q) + 1 - Len(Offered(q, item)) + i]
<1>1. Len(q) \in Nat /\ Backlog \in Nat /\ Backlog > 0
  BY ChannelAssumption
<1>2. CASE Full(q)
  <2>1. q # <<>>
    BY <1>1, <1>2 DEF Full
  <2>2. /\ Tail(q) \in Seq(S) /\ Len(Tail(q)) = Len(q) - 1
        /\ \A i \in 1 .. Len(Tail(q)) : Tail(q)[i] = q[i + 1]
    BY <2>1, HeadTailProperties
  <2>3. Offered(q, item) = Append(Tail(q), item)
    BY <1>2 DEF Offered
  <2>4. /\ Offered(q, item) \in Seq(S)
        /\ Len(Offered(q, item)) = Len(q)
        /\ \A i \in 1 .. Len(q) - 1 : Offered(q, item)[i] = Tail(q)[i]
        /\ Offered(q, item)[Len(q)] = item
    BY <1>1, <2>2, <2>3, AppendProperties
  <2> QED
    BY <1>1, <1>2, <2>2, <2>4
<1>3. CASE ~Full(q)
  <2>1. Offered(q, item) = Append(q, item)
    BY <1>3 DEF Offered
  <2>2. /\ Offered(q, item) \in Seq(S)
        /\ Len(Offered(q, item)) = Len(q) + 1
        /\ \A i \in 1 .. Len(q) : Offered(q, item)[i] = q[i]
        /\ Offered(q, item)[Len(q) + 1] = item
    BY <1>1, <2>1, AppendProperties
  <2>3. Len(q) < Backlog
    BY <1>1, <1>3 DEF Full
  <2> QED
    BY <1>1, <1>3, <2>2, <2>3
<1> QED
  BY <1>2, <1>3

\* The same, as a shift of the queue by the m items it gave up.
Shifts(w, q, m, item) ==
    /\ Len(w) \in Nat /\ Len(w) > 0 /\ w[Len(w)] = item
    /\ \A i \in 1 .. Len(w) - 1 : m + i \in 1 .. Len(q) /\ w[i] = q[m + i]

LEMMA OfferedShift ==
    ASSUME NEW S, NEW q \in Seq(S), NEW item \in S, Len(q) <= Backlog
    PROVE  \E m \in Nat : Shifts(Offered(q, item), q, m, item)
<1> DEFINE w == Offered(q, item)
           m == Len(q) + 1 - Len(w)
<1>1. Len(q) \in Nat /\ Backlog \in Nat /\ Backlog > 0
  BY ChannelAssumption
<1>2. /\ w \in Seq(S) /\ w[Len(w)] = item
      /\ Len(w) = IF Full(q) THEN Len(q) ELSE Len(q) + 1
      /\ \A i \in 1 .. Len(w) - 1 : w[i] = q[m + i]
  BY OfferedIs
<1> HIDE DEF w
<1>3. Len(w) \in Nat /\ Len(w) > 0 /\ m \in Nat
  BY <1>1, <1>2 DEF Full
<1>4. \A i \in 1 .. Len(w) - 1 : m + i \in 1 .. Len(q)
  BY <1>1, <1>2, <1>3
<1> HIDE DEF m
<1>5. \A i \in 1 .. Len(w) - 1 : m + i \in 1 .. Len(q) /\ w[i] = q[m + i]
  BY <1>2, <1>4
<1>6. Shifts(w, q, m, item)
  BY <1>2, <1>3, <1>5 DEF Shifts
<1> QED
  BY <1>3, <1>6 DEF w

LEMMA OfferedSuffix ==
    ASSUME NEW S, NEW q \in Seq(S), NEW n \in Nat, n + 1 \in S, Len(q) <= Backlog, Suffix(q, n)
    PROVE  Suffix(Offered(q, n + 1), n + 1)
<1> DEFINE w == Offered(q, n + 1)
<1>1. /\ w \in Seq(S)
      /\ Len(w) = Len(q) \/ Len(w) = Len(q) + 1
      /\ w[Len(w)] = n + 1
      /\ \A i \in 1 .. Len(w) - 1 : w[i] = q[Len(q) + 1 - Len(w) + i]
  BY OfferedIs
<1> HIDE DEF w
<1>2. ASSUME NEW i \in 1 .. Len(w) PROVE w[i] = n + 1 - Len(w) + i
  <2>1. CASE i = Len(w)
    BY <1>1, <2>1
  <2>2. CASE i # Len(w)
    <3>1. i \in 1 .. Len(w) - 1 /\ Len(q) + 1 - Len(w) + i \in 1 .. Len(q)
      BY <1>1, <2>2
    <3> QED
      BY <1>1, <3>1 DEF Suffix
  <2> QED
    BY <2>1, <2>2
<1>3. Suffix(w, n + 1)
  BY <1>2 DEF Suffix
<1> QED
  BY <1>3 DEF w

\* What is left of a queue after its first k items.
LEMMA RestIs ==
    ASSUME NEW S, NEW q \in Seq(S), NEW k \in 0 .. Len(q)
    PROVE  /\ SubSeq(q, k + 1, Len(q)) \in Seq(S)
           /\ Len(SubSeq(q, k + 1, Len(q))) = Len(q) - k
           /\ \A i \in 1 .. Len(q) - k : SubSeq(q, k + 1, Len(q))[i] = q[k + i]
<1>1. Len(q) \in Nat /\ k \in Nat /\ k + 1 \in Int /\ \A i \in k + 1 .. Len(q) : q[i] \in S
  OBVIOUS
<1>2. /\ SubSeq(q, k + 1, Len(q)) \in Seq(S)
      /\ Len(SubSeq(q, k + 1, Len(q))) = IF k + 1 <= Len(q) THEN Len(q) - (k + 1) + 1 ELSE 0
      /\ \A i \in 1 .. Len(q) - (k + 1) + 1 : SubSeq(q, k + 1, Len(q))[i] = q[(k + 1) + i - 1]
  BY <1>1, SubSeqProperties
<1>3. \A i \in Int : (k + 1) + i - 1 = k + i
  BY <1>1
<1> QED
  BY <1>1, <1>2, <1>3

LEMMA RestSuffix ==
    ASSUME NEW S, NEW q \in Seq(S), NEW k \in 0 .. Len(q), NEW n \in Nat, Suffix(q, n)
    PROVE  Suffix(SubSeq(q, k + 1, Len(q)), n)
<1> DEFINE w == SubSeq(q, k + 1, Len(q))
<1>1. w \in Seq(S) /\ Len(w) = Len(q) - k /\ \A i \in 1 .. Len(w) : w[i] = q[k + i]
  BY RestIs
<1> HIDE DEF w
<1>2. \A i \in 1 .. Len(w) : k + i \in 1 .. Len(q)
  BY <1>1
<1>3. Suffix(w, n)
  BY <1>1, <1>2 DEF Suffix
<1> QED
  BY <1>3 DEF w

-----------------------------------------------------------------------------
(* The replay ring                                                         *)

\* The ring holds the last events published, as many as fit.
RingInv ==
    /\ Suffix(replay, seq)
    /\ Len(replay) = IF seq <= Replay THEN seq ELSE Replay

\* The stretch before the ring, and how many events of the ring a reader that
\* has everything up to "since" does not want.
Lost == seq - Len(replay)
Unwanted(since) == IF since <= Lost THEN 0 ELSE since - Lost

LEMMA RingFacts ==
    ASSUME TypeOK, RingInv
    PROVE  /\ seq \in Nat /\ Len(replay) \in Nat /\ Lost \in Nat /\ replay \in Seq(Seqs)
           /\ Len(replay) <= seq
           /\ \A i \in 1 .. Len(replay) : replay[i] = Lost + i
<1>1. Len(log) \in Nat /\ replay \in Seq(Seqs)
  BY DEF TypeOK
<1>2. seq \in Nat /\ Len(replay) \in Nat /\ Replay \in Nat
  BY <1>1, ChannelAssumption DEF seq
<1>3. Len(replay) <= seq /\ Lost \in Nat
  BY <1>2 DEF RingInv, Lost
<1> QED
  BY <1>1, <1>2, <1>3 DEF RingInv, Suffix, Lost

LEMMA OlderIs ==
    ASSUME TypeOK, RingInv, NEW since \in Nat, since < seq
    PROVE  Older(since) = Unwanted(since) /\ Unwanted(since) \in 0 .. Len(replay)
<1>1. /\ seq \in Nat /\ Len(replay) \in Nat /\ Lost \in Nat
      /\ \A i \in 1 .. Len(replay) : replay[i] = Lost + i
  BY RingFacts
<1> DEFINE Splits(n) == \A i \in 1 .. Len(replay) : replay[i] <= since <=> i <= n
<1>2. Unwanted(since) \in 0 .. Len(replay)
  BY <1>1 DEF Unwanted, Lost
<1>3. Splits(Unwanted(since))
  BY <1>1 DEF Unwanted
<1>4. ASSUME NEW n \in 0 .. Len(replay), Splits(n) PROVE n = Unwanted(since)
  <2>1. \A i \in 1 .. Len(replay) : i <= n <=> i <= Unwanted(since)
    BY <1>3, <1>4
  <2>2. ~(n < Unwanted(since))
    <3> SUFFICES ASSUME n < Unwanted(since) PROVE FALSE
      OBVIOUS
    <3>1. Unwanted(since) \in 1 .. Len(replay)
      BY <1>1, <1>2
    <3> QED
      BY <1>1, <2>1, <3>1
  <2>3. ~(n > Unwanted(since))
    <3> SUFFICES ASSUME n > Unwanted(since) PROVE FALSE
      OBVIOUS
    <3>1. n \in 1 .. Len(replay)
      BY <1>1, <1>2
    <3> QED
      BY <1>1, <1>2, <2>1, <3>1
  <2> QED
    BY <1>1, <1>2, <2>2, <2>3
<1>5. Older(since) = CHOOSE n \in 0 .. Len(replay) : Splits(n)
  BY DEF Older
<1> HIDE DEF Splits
<1> QED
  BY <1>2, <1>3, <1>4, <1>5

\* What subscribe(since) replays ends with the newest event.
LEMMA HistoryIs ==
    ASSUME TypeOK, RingInv, NEW since \in Nat, since < seq
    PROVE  /\ History(since) \in Seq(Seqs)
           /\ Len(History(since)) = Len(replay) - Unwanted(since)
           /\ Suffix(History(since), seq)
<1>1. seq \in Nat /\ replay \in Seq(Seqs) /\ Suffix(replay, seq)
  BY RingFacts DEF RingInv
<1>2. Unwanted(since) \in 0 .. Len(replay)
  BY OlderIs
<1>3. History(since) = SubSeq(replay, Unwanted(since) + 1, Len(replay))
  BY OlderIs DEF History
<1> QED
  BY <1>1, <1>2, <1>3, RestIs, RestSuffix

LEMMA MissingIsNat ==
    ASSUME TypeOK, NEW since \in Nat
    PROVE  Missing(since) \in Nat
<1>1. CASE replay = <<>>
  BY <1>1 DEF Missing
<1>2. CASE replay # <<>>
  <2>1. replay[1] \in Nat
    <3>1. replay \in Seq(Seqs) /\ 1 \in 1 .. Len(replay)
      BY <1>2 DEF TypeOK
    <3>2. replay[1] \in Seqs
      BY <3>1
    <3> QED
      BY <3>2, ChannelAssumption DEF Seqs
  <2> QED
    BY <2>1 DEF Missing
<1> QED
  BY <1>1, <1>2

\* Together with what is counted as missing, it is everything after since.  A
\* channel without a ring counts nothing, so it needs one.
LEMMA ReplayAccounts ==
    ASSUME TypeOK, RingInv, Replay > 0, NEW since \in Nat, since < seq
    PROVE  Missing(since) + Len(History(since)) = seq - since
<1>1. /\ seq \in Nat /\ Len(replay) \in Nat /\ Lost \in Nat
      /\ \A i \in 1 .. Len(replay) : replay[i] = Lost + i
  BY RingFacts
<1>2. Len(replay) >= 1
  BY <1>1, ChannelAssumption DEF RingInv
<1>3. replay # <<>> /\ replay[1] = Lost + 1
  BY <1>1, <1>2
<1>4. Missing(since) = IF Lost > since THEN Lost - since ELSE 0
  BY <1>1, <1>3 DEF Missing
<1>5. Len(History(since)) = Len(replay) - Unwanted(since)
  BY HistoryIs
<1>6. Lost = seq - Len(replay) /\ Unwanted(since) = IF since <= Lost THEN 0 ELSE since - Lost
  BY DEF Lost, Unwanted
<1> QED
  BY <1>1, <1>4, <1>5, <1>6

-----------------------------------------------------------------------------
(* Type correctness                                                        *)

Item == Seqs \union {CLOSED}

\* The ring and the queues, the data a publish and a subscription touch.
LEMMA PublishTypes ==
    ASSUME TypeOK, RingInv, NEW event \in Event, NEW by \in SUBSET Seqs, Publish(event, by)
    PROVE  /\ seq + 1 \in Seqs
           /\ log' \in Seq(Event) /\ seq' = seq + 1 /\ Len(log') <= MaxSeq
           /\ replay' \in Seq(Seqs) /\ RingInv' /\ Len(replay') <= Replay
           /\ queue' \in [Readers -> Seq(Item)]
           /\ \A s \in Readers : Len(queue'[s]) <= Backlog
<1>1. seq \in Nat /\ Len(replay) \in Nat /\ replay \in Seq(Seqs) /\ Replay \in Nat /\ MaxSeq \in Nat
  BY RingFacts, ChannelAssumption
<1>2. seq + 1 \in Seqs
  BY <1>1 DEF Publish, Seqs
<1>3. log' \in Seq(Event) /\ Len(log') = Len(log) + 1
  BY AppendProperties DEF Publish, TypeOK
<1>4. seq' = seq + 1 /\ Len(log') <= MaxSeq
  BY <1>2, <1>3 DEF seq, Seqs
<1> DEFINE longer == Append(replay, seq + 1)
<1>5. longer \in Seq(Seqs) /\ Len(longer) = Len(replay) + 1
  BY <1>1, <1>2, AppendProperties
<1>6. Suffix(longer, seq + 1)
  <2>1. /\ \A i \in 1 .. Len(replay) : longer[i] = replay[i]
        /\ longer[Len(replay) + 1] = seq + 1
    BY <1>1, <1>2, AppendProperties
  <2> HIDE DEF longer
  <2>2. \A i \in 1 .. Len(replay) : replay[i] = seq - Len(replay) + i
    BY DEF RingInv, Suffix
  <2> QED
    BY <1>1, <1>5, <2>1, <2>2 DEF Suffix
<1>7. replay' = Newest(Replay, longer)
  BY DEF Publish
<1> HIDE DEF longer
<1>8. /\ replay' \in Seq(Seqs)
      /\ Len(replay') = IF Len(longer) <= Replay THEN Len(longer) ELSE Replay
      /\ Suffix(replay', seq + 1)
  BY <1>1, <1>5, <1>6, <1>7, NewestIs, NewestSuffix
<1>9. RingInv' /\ Len(replay') <= Replay
  <2>1. Len(replay) = IF seq <= Replay THEN seq ELSE Replay
    BY DEF RingInv
  <2>2. Len(replay') = IF seq' <= Replay THEN seq' ELSE Replay
    BY <1>1, <1>4, <1>5, <1>8, <2>1
  <2>3. Suffix(replay', seq')
    BY <1>4, <1>8
  <2> QED
    BY <1>1, <1>4, <2>2, <2>3 DEF RingInv, Suffix
<1>10. ASSUME NEW s \in Readers
       PROVE  /\ Offered(queue[s], seq + 1) \in Seq(Item)
              /\ Len(Offered(queue[s], seq + 1)) <= Backlog
              /\ queue[s] \in Seq(Item) /\ Len(queue[s]) <= Backlog
  <2>1. queue[s] \in Seq(Item) /\ Len(queue[s]) <= Backlog /\ seq + 1 \in Item
    BY <1>2 DEF TypeOK, Item
  <2> QED
    BY <2>1, OfferedIs
<1>11. queue' = [s \in Readers |-> IF s \in members THEN Offered(queue[s], seq + 1) ELSE queue[s]]
  BY DEF Publish
<1> QED
  BY <1>2, <1>3, <1>4, <1>8, <1>9, <1>10, <1>11

LEMMA PublishStep ==
    ASSUME TypeOK, RingInv, NEW event \in Event, NEW by \in SUBSET Seqs, Publish(event, by)
    PROVE  TypeOK' /\ RingInv'
<1>1. /\ seq + 1 \in Seqs
      /\ log' \in Seq(Event) /\ Len(log') <= MaxSeq
      /\ replay' \in Seq(Seqs) /\ Len(replay') <= Replay
      /\ queue' \in [Readers -> Seq(Item)]
      /\ \A s \in Readers : Len(queue'[s]) <= Backlog
      /\ RingInv'
  BY PublishTypes
<1>2. dropped' \in [Readers -> Nat]
  BY DEF Publish, TypeOK
<1>3. pending' \in [Seqs -> Seq(Callbacks)] /\ causes' \in [Seqs -> SUBSET Seqs]
  BY <1>1 DEF Publish, TypeOK
<1>4. UNCHANGED <<closed, members, view, done, inline, subscribed, start, taken, got>>
  BY DEF Publish
<1>5. TypeOK'
  BY <1>1, <1>2, <1>3, <1>4 DEF TypeOK, Item
<1> QED
  BY <1>1, <1>5

\* What does not fit the backlog is exactly what is counted on top.
LEMMA FillAccounts ==
    ASSUME NEW m \in Nat, NEW w \in Nat, NEW b \in Nat
    PROVE  /\ m + (IF w > b THEN w - b ELSE 0) \in Nat
           /\ m + (IF w > b THEN w - b ELSE 0) + (IF w <= b THEN w ELSE b) = m + w
OBVIOUS

LEMMA SubscribeTypes ==
    ASSUME TypeOK, RingInv, NEW s \in Readers, NEW v \in Runs \union {All},
           NEW since \in 0 .. MaxSeq, Subscribe(s, v, since)
    PROVE  /\ queue'[s] \in Seq(Seqs) /\ Len(queue'[s]) <= Backlog
           /\ Suffix(queue'[s], seq)
           /\ dropped'[s] \in Nat
           /\ start'[s] \in 0 .. MaxSeq
           /\ since >= seq => start'[s] = seq /\ dropped'[s] + Len(queue'[s]) = 0
           /\ since < seq =>
                /\ start'[s] = since
                /\ dropped'[s] + Len(queue'[s]) = Missing(since) + Len(History(since))
<1>1. /\ seq \in Nat /\ seq <= MaxSeq /\ since \in Nat /\ Backlog \in Nat /\ Backlog > 0
      /\ queue \in [Readers -> Seq(Item)] /\ dropped \in [Readers -> Nat]
      /\ start \in [Readers -> 0 .. MaxSeq]
  BY RingFacts, ChannelAssumption DEF TypeOK, Item, seq
<1> DEFINE wanted == IF since < seq THEN History(since) ELSE <<>>
           missing == IF since < seq THEN Missing(since) ELSE 0
<1>2. /\ queue'[s] = Newest(Backlog, wanted)
      /\ dropped'[s] = missing + (IF Len(wanted) > Backlog THEN Len(wanted) - Backlog ELSE 0)
      /\ start'[s] = IF since < seq THEN since ELSE seq
  BY <1>1 DEF Subscribe
<1>3. wanted \in Seq(Seqs) /\ Suffix(wanted, seq)
  <2>1. CASE since < seq
    BY <1>1, <2>1, HistoryIs
  <2>2. CASE ~(since < seq)
    BY <2>2 DEF Suffix
  <2> QED
    BY <2>1, <2>2
<1>4. missing \in Nat
  BY <1>1, MissingIsNat
<1>5. ~(since < seq) => missing = 0 /\ wanted = <<>> /\ Len(wanted) = 0
  OBVIOUS
<1>6. since < seq => missing = Missing(since) /\ wanted = History(since)
  OBVIOUS
<1> HIDE DEF wanted, missing
<1>7. /\ queue'[s] \in Seq(Seqs) /\ Suffix(queue'[s], seq)
      /\ Len(queue'[s]) = IF Len(wanted) <= Backlog THEN Len(wanted) ELSE Backlog
  <2>1. /\ Newest(Backlog, wanted) \in Seq(Seqs)
        /\ Len(Newest(Backlog, wanted)) = IF Len(wanted) <= Backlog THEN Len(wanted) ELSE Backlog
    BY <1>1, <1>3, NewestIs
  <2>2. Suffix(Newest(Backlog, wanted), seq)
    BY <1>1, <1>3, NewestSuffix
  <2> QED
    BY <1>2, <2>1, <2>2
<1>8. Len(wanted) \in Nat
  BY <1>3
<1>9. dropped'[s] \in Nat /\ dropped'[s] + Len(queue'[s]) = missing + Len(wanted)
  <2>1. Backlog \in Nat
    BY <1>1
  <2>2. dropped'[s] = missing + (IF Len(wanted) > Backlog THEN Len(wanted) - Backlog ELSE 0)
    BY <1>2
  <2>3. Len(queue'[s]) = IF Len(wanted) <= Backlog THEN Len(wanted) ELSE Backlog
    BY <1>7
  <2>4. /\ missing + (IF Len(wanted) > Backlog THEN Len(wanted) - Backlog ELSE 0) \in Nat
        /\ missing + (IF Len(wanted) > Backlog THEN Len(wanted) - Backlog ELSE 0)
              + (IF Len(wanted) <= Backlog THEN Len(wanted) ELSE Backlog)
           = missing + Len(wanted)
    BY <2>1, <1>4, <1>8, FillAccounts
  <2> QED
    BY <2>2, <2>3, <2>4
<1>10. start'[s] \in 0 .. MaxSeq
  BY <1>1, <1>2
<1> QED
  BY <1>1, <1>2, <1>5, <1>6, <1>7, <1>8, <1>9, <1>10

LEMMA OfferClosed ==
    ASSUME TypeOK, NEW s \in Readers
    PROVE  /\ queue[s] \in Seq(Item) /\ Len(queue[s]) <= Backlog
           /\ Offered(queue[s], CLOSED) \in Seq(Item)
           /\ Len(Offered(queue[s], CLOSED)) <= Backlog
<1>1. queue[s] \in Seq(Item) /\ Len(queue[s]) <= Backlog /\ CLOSED \in Item
  BY DEF TypeOK, Item
<1> QED
  BY <1>1, OfferedIs

\* What a read takes is a stretch at the front of the queue.
LEMMA ReadTypes ==
    ASSUME TypeOK, NEW s \in Readers, Read(s)
    PROVE  /\ queue' \in [Readers -> Seq(Item)] /\ Len(queue'[s]) <= Backlog
           /\ \A r \in Readers \ {s} : queue'[r] = queue[r] /\ taken'[r] = taken[r] /\ done'[r] = done[r]
           /\ taken' \in [Readers -> Nat]
           /\ done' \in [Readers -> BOOLEAN]
           /\ got' \in [Readers -> Seq(Seqs)]
           /\ \E k \in 1 .. Len(queue[s]) :
                /\ queue'[s] = SubSeq(queue[s], k + 1, Len(queue[s]))
                /\ done'[s] \/ taken'[s] = taken[s] + k
<1>1. /\ queue \in [Readers -> Seq(Item)] /\ Len(queue[s]) <= Backlog /\ Backlog \in Nat
      /\ taken \in [Readers -> Nat] /\ got \in [Readers -> Seq(Seqs)]
      /\ done \in [Readers -> BOOLEAN]
  BY ChannelAssumption DEF TypeOK, Item
<1>2. PICK k \in 1 .. Len(queue[s]) :
        LET item == queue[s][k] IN
        /\ \A i \in 1 .. (k - 1) : Skips(s, queue[s][i])
        /\ Skips(s, item) => k = Len(queue[s])
        /\ queue' = [queue EXCEPT ![s] = SubSeq(queue[s], k + 1, Len(queue[s]))]
        /\ taken' = [taken EXCEPT ![s] = @ + (IF item = CLOSED THEN k - 1 ELSE k)]
        /\ done' = [done EXCEPT ![s] =
                        item = CLOSED \/ (Keeps(s, item) /\ Ends(s, item))]
        /\ got' = IF item = CLOSED \/ Skips(s, item) THEN got
                  ELSE [got EXCEPT ![s] = Append(@, item)]
  BY DEF Read
<1>3. k \in Nat /\ k - 1 \in Nat /\ k \in 0 .. Len(queue[s]) /\ queue[s] \in Seq(Item)
  BY <1>1
<1> DEFINE item == queue[s][k]
           rest == SubSeq(queue[s], k + 1, Len(queue[s]))
<1>4. rest \in Seq(Item) /\ Len(rest) = Len(queue[s]) - k
  BY <1>3, RestIs
<1>5. item \in Item
  BY <1>1
<1>6. /\ queue' = [queue EXCEPT ![s] = rest]
      /\ taken' = [taken EXCEPT ![s] = @ + (IF item = CLOSED THEN k - 1 ELSE k)]
      /\ done' = [done EXCEPT ![s] = item = CLOSED \/ (Keeps(s, item) /\ Ends(s, item))]
  BY <1>2
<1>7. got' = got \/ (item # CLOSED /\ got' = [got EXCEPT ![s] = Append(@, item)])
  BY <1>2
<1> HIDE DEF rest, item
<1>8. queue' \in [Readers -> Seq(Item)] /\ queue'[s] = rest /\ Len(queue'[s]) <= Backlog
  BY <1>1, <1>3, <1>4, <1>6
<1>9. taken' \in [Readers -> Nat] /\ (item # CLOSED => taken'[s] = taken[s] + k)
  BY <1>1, <1>3, <1>6
<1>10. done' \in [Readers -> BOOLEAN]
  BY <1>1, <1>6, Zenon DEF Keeps, Ends
<1>11. item = CLOSED => done'[s]
  BY <1>1, <1>6
<1>12. got' \in [Readers -> Seq(Seqs)]
  <2>1. item # CLOSED => Append(got[s], item) \in Seq(Seqs)
    BY <1>1, <1>5, AppendProperties DEF Item
  <2> QED
    BY <1>1, <1>7, <2>1
<1>13. \A r \in Readers \ {s} : queue'[r] = queue[r] /\ taken'[r] = taken[r] /\ done'[r] = done[r]
  BY <1>1, <1>6
<1>14. done'[s] \/ taken'[s] = taken[s] + k
  BY <1>9, <1>11
<1> QED
  BY <1>8, <1>9, <1>10, <1>12, <1>13, <1>14 DEF rest

LEMMA ChannelInit == Init => TypeOK /\ RingInv
<1> SUFFICES ASSUME Init PROVE TypeOK /\ RingInv
  OBVIOUS
<1>1. log \in Seq(Event) /\ replay \in Seq(Seqs) /\ inline \in Seq(Callbacks)
  BY DEF Init
<1>2. Len(log) = 0 /\ Len(replay) = 0
  BY DEF Init
<1>3. /\ queue \in [Readers -> Seq(Seqs \union {CLOSED})]
      /\ \A s \in Readers : Len(queue[s]) <= Backlog
  BY ChannelAssumption DEF Init
<1>4. start \in [Readers -> 0 .. MaxSeq] /\ dropped \in [Readers -> Nat] /\ taken \in [Readers -> Nat]
  BY ChannelAssumption DEF Init
<1>5. /\ view \in [Readers -> Runs \union {All}] /\ done \in [Readers -> BOOLEAN]
      /\ closed \in BOOLEAN /\ members \subseteq subscribed /\ subscribed \subseteq Readers
  BY DEF Init
<1>6. /\ pending \in [Seqs -> Seq(Callbacks)] /\ got \in [Readers -> Seq(Seqs)]
      /\ causes \in [Seqs -> SUBSET Seqs]
  BY DEF Init
<1>7. TypeOK
  BY <1>1, <1>2, <1>3, <1>4, <1>5, <1>6, ChannelAssumption DEF TypeOK
<1>8. RingInv
  BY <1>2, ChannelAssumption DEF RingInv, Suffix, seq
<1> QED
  BY <1>7, <1>8

LEMMA ChannelStep == TypeOK /\ RingInv /\ [Next]_vars => TypeOK' /\ RingInv'
<1> SUFFICES ASSUME TypeOK, RingInv, [Next]_vars PROVE TypeOK' /\ RingInv'
  OBVIOUS
<1>1. ASSUME UNCHANGED <<log, replay>> PROVE RingInv'
  BY <1>1 DEF RingInv, Suffix, seq
<1>2. ASSUME NEW e \in Event, PublishEvent(e) PROVE TypeOK' /\ RingInv'
  BY <1>2, PublishStep DEF PublishEvent
<1>3. ASSUME NEW q \in Seqs, NEW e \in Event, NestedPublish(q, e) PROVE TypeOK' /\ RingInv'
  <2>1. causes[q] \union {q} \in SUBSET Seqs
    BY DEF TypeOK
  <2> QED
    BY <1>3, <2>1, PublishStep DEF NestedPublish
<1>4. ASSUME NEW q \in Seqs, CallbackReturns(q) PROVE TypeOK' /\ RingInv'
  <2>1. pending[q] \in Seq(Callbacks) /\ pending[q] # <<>>
    BY <1>4 DEF CallbackReturns, Running, TypeOK
  <2>2. Tail(pending[q]) \in Seq(Callbacks)
    BY <2>1, HeadTailProperties
  <2>3. pending' \in [Seqs -> Seq(Callbacks)]
    BY <1>4, <2>2 DEF CallbackReturns, TypeOK
  <2>4. UNCHANGED <<log, replay, closed, readerVars, inline, causes>>
    BY <1>4 DEF CallbackReturns
  <2> QED
    BY <1>1, <2>3, <2>4 DEF TypeOK, readerVars
<1>5. ASSUME NEW q \in Seqs, PublishCancelled(q) PROVE TypeOK' /\ RingInv'
  BY <1>1, <1>5 DEF PublishCancelled, TypeOK, readerVars
<1>6. ASSUME NEW c \in Callbacks, Register(c) \/ Unregister(c) PROVE TypeOK' /\ RingInv'
  <2>1. inline' \in Seq(Callbacks)
    <3>1. CASE Register(c)
      BY <3>1, AppendProperties DEF Register, TypeOK
    <3>2. CASE Unregister(c)
      <4>1. PICK i \in 1 .. Len(inline) :
              inline' = SubSeq(inline, 1, i - 1) \o SubSeq(inline, i + 1, Len(inline))
        BY <3>2 DEF Unregister
      <4>2. inline \in Seq(Callbacks) /\ Len(inline) \in Nat /\ \A j \in 1 .. Len(inline) : inline[j] \in Callbacks
        BY DEF TypeOK
      <4>3. SubSeq(inline, 1, i - 1) \in Seq(Callbacks)
        BY <4>2, SubSeqProperties
      <4>4. SubSeq(inline, i + 1, Len(inline)) \in Seq(Callbacks)
        BY <4>2, SubSeqProperties
      <4> QED
        BY <4>1, <4>3, <4>4, ConcatProperties
    <3> QED
      BY <1>6, <3>1, <3>2
  <2>2. UNCHANGED <<log, replay, closed, readerVars, pending, causes>>
    BY <1>6 DEF Register, Unregister
  <2> QED
    BY <1>1, <2>1, <2>2 DEF TypeOK, readerVars
<1>7. ASSUME NEW s \in Readers, NEW v \in Runs \union {All}, NEW since \in 0 .. MaxSeq,
             Subscribe(s, v, since)
      PROVE  TypeOK' /\ RingInv'
  <2>1. /\ queue'[s] \in Seq(Seqs) /\ Len(queue'[s]) <= Backlog
        /\ dropped'[s] \in Nat /\ start'[s] \in 0 .. MaxSeq
    BY <1>7, SubscribeTypes
  <2>2. queue'[s] \in Seq(Item)
    BY <2>1 DEF Item
  <2>3. /\ \A r \in Readers \ {s} : queue'[r] = queue[r] /\ dropped'[r] = dropped[r] /\ start'[r] = start[r]
        /\ DOMAIN queue' = Readers /\ queue' = [r \in Readers |-> queue'[r]]
        /\ DOMAIN dropped' = Readers /\ dropped' = [r \in Readers |-> dropped'[r]]
        /\ DOMAIN start' = Readers /\ start' = [r \in Readers |-> start'[r]]
    BY <1>7 DEF Subscribe, TypeOK
  <2>4. queue' \in [Readers -> Seq(Item)] /\ \A r \in Readers : Len(queue'[r]) <= Backlog
    BY <2>1, <2>2, <2>3 DEF TypeOK, Item
  <2>5. dropped' \in [Readers -> Nat] /\ start' \in [Readers -> 0 .. MaxSeq]
    BY <2>1, <2>3 DEF TypeOK
  <2>6. view' \in [Readers -> Runs \union {All}]
    BY <1>7 DEF Subscribe, TypeOK
  <2>7. members' \subseteq subscribed' /\ subscribed' \subseteq Readers
    BY <1>7 DEF Subscribe, TypeOK
  <2>8. UNCHANGED <<log, replay, closed, done, taken, got, inlineVars>>
    BY <1>7 DEF Subscribe
  <2> QED
    BY <1>1, <2>4, <2>5, <2>6, <2>7, <2>8 DEF TypeOK, inlineVars, Item
<1>8. ASSUME NEW s \in Readers, SubscribeClosed(s) PROVE TypeOK' /\ RingInv'
  <2>1. <<CLOSED>> \in Seq(Item) /\ Len(<<CLOSED>>) = 1 /\ seq \in 0 .. MaxSeq
    BY RingFacts, ChannelAssumption DEF Item, TypeOK, seq
  <2>2. queue' \in [Readers -> Seq(Item)] /\ \A r \in Readers : Len(queue'[r]) <= Backlog
    <3>1. /\ queue' = [queue EXCEPT ![s] = <<CLOSED>>]
          /\ queue \in [Readers -> Seq(Item)] /\ \A r \in Readers : Len(queue[r]) <= Backlog
      BY <1>8 DEF SubscribeClosed, TypeOK, Item
    <3>2. \A r \in Readers : queue'[r] = IF r = s THEN <<CLOSED>> ELSE queue[r]
      BY <3>1
    <3>3. Len(<<CLOSED>>) <= Backlog
      BY <2>1, ChannelAssumption
    <3> QED
      BY <2>1, <3>1, <3>2, <3>3
  <2>3. start' \in [Readers -> 0 .. MaxSeq]
    BY <1>8, <2>1 DEF SubscribeClosed, TypeOK
  <2>4. members' \subseteq subscribed' /\ subscribed' \subseteq Readers
    BY <1>8 DEF SubscribeClosed, TypeOK
  <2>5. UNCHANGED <<log, replay, closed, members, view, dropped, done, taken, got, inlineVars>>
    BY <1>8 DEF SubscribeClosed
  <2> QED
    BY <1>1, <2>2, <2>3, <2>4, <2>5 DEF TypeOK, inlineVars, Item
<1>9. ASSUME NEW s \in Readers, Read(s) PROVE TypeOK' /\ RingInv'
  <2>1. /\ queue' \in [Readers -> Seq(Item)] /\ Len(queue'[s]) <= Backlog
        /\ \A r \in Readers \ {s} : queue'[r] = queue[r]
        /\ taken' \in [Readers -> Nat] /\ done' \in [Readers -> BOOLEAN]
        /\ got' \in [Readers -> Seq(Seqs)]
    BY <1>9, ReadTypes
  <2>2. UNCHANGED <<log, replay, closed, members, view, dropped, subscribed, start, inlineVars>>
    BY <1>9 DEF Read
  <2>3. \A r \in Readers : Len(queue'[r]) <= Backlog
    BY <2>1 DEF TypeOK
  <2> QED
    BY <1>1, <2>1, <2>2, <2>3 DEF TypeOK, inlineVars, Item
<1>10. ASSUME NEW s \in Readers, CloseReader(s) PROVE TypeOK' /\ RingInv'
  <2>1. queue' = [queue EXCEPT ![s] = Offered(queue[s], CLOSED)]
    BY <1>10 DEF CloseReader, TypeOK
  <2>2. queue' \in [Readers -> Seq(Item)] /\ \A r \in Readers : Len(queue'[r]) <= Backlog
    BY <2>1, OfferClosed DEF TypeOK, Item
  <2>3. done' \in [Readers -> BOOLEAN]
    BY <1>10, Zenon DEF CloseReader, TypeOK
  <2>4. UNCHANGED <<log, replay, closed, members, view, dropped, subscribed, start, taken, got, inlineVars>>
    BY <1>10 DEF CloseReader
  <2> QED
    BY <1>1, <2>2, <2>3, <2>4 DEF TypeOK, inlineVars, Item
<1>11. ASSUME Close PROVE TypeOK' /\ RingInv'
  <2>1. queue' \in [Readers -> Seq(Item)] /\ \A r \in Readers : Len(queue'[r]) <= Backlog
    BY <1>11, OfferClosed DEF Close
  <2>2. closed' \in BOOLEAN /\ members' = {} /\ inline' \in Seq(Callbacks)
    BY <1>11 DEF Close
  <2>3. UNCHANGED <<log, replay, view, dropped, done, subscribed, start, taken, got, pending, causes>>
    BY <1>11 DEF Close
  <2> QED
    BY <1>1, <2>1, <2>2, <2>3 DEF TypeOK, Item
<1>12. CASE UNCHANGED vars
  BY <1>1, <1>12 DEF vars, readerVars, inlineVars, TypeOK
<1> QED
  BY <1>2, <1>3, <1>4, <1>5, <1>6, <1>7, <1>8, <1>9, <1>10, <1>11, <1>12 DEF Next

\* Every state of the channel is well typed, and the two bounds of its
\* constructor hold: the ring and every reader's queue stay within them.
THEOREM ChannelBounds == Spec => []TypeOK
BY ChannelInit, ChannelStep, PTL DEF Spec

-----------------------------------------------------------------------------
(* Loss                                                                    *)

\* A reader is attached only while the channel is open, and one that does not
\* exist yet has taken nothing.
AttachInv ==
    /\ closed => members = {}
    /\ \A s \in Readers \ subscribed : taken[s] = 0 /\ ~done[s] /\ s \notin members

LEMMA AttachStep == TypeOK /\ AttachInv /\ [Next]_vars => AttachInv'
<1> SUFFICES ASSUME TypeOK, AttachInv, [Next]_vars PROVE AttachInv'
  OBVIOUS
<1> USE DEF AttachInv, readerVars, inlineVars
<1>1. ASSUME UNCHANGED <<closed, members, subscribed, taken, done>> PROVE AttachInv'
  BY <1>1
<1>2. ASSUME NEW e \in Event, PublishEvent(e) PROVE AttachInv'
  BY <1>1, <1>2 DEF PublishEvent, Publish
<1>3. ASSUME NEW q \in Seqs, NEW e \in Event, NestedPublish(q, e) PROVE AttachInv'
  BY <1>1, <1>3 DEF NestedPublish, Publish
<1>4. ASSUME NEW q \in Seqs, CallbackReturns(q) \/ PublishCancelled(q) PROVE AttachInv'
  BY <1>1, <1>4 DEF CallbackReturns, PublishCancelled
<1>5. ASSUME NEW c \in Callbacks, Register(c) \/ Unregister(c) PROVE AttachInv'
  BY <1>1, <1>5 DEF Register, Unregister
<1>6. ASSUME NEW s \in Readers, NEW v \in Runs \union {All}, NEW since \in 0 .. MaxSeq,
             Subscribe(s, v, since)
      PROVE  AttachInv'
  BY <1>6 DEF Subscribe
<1>7. ASSUME NEW s \in Readers, SubscribeClosed(s) PROVE AttachInv'
  BY <1>7 DEF SubscribeClosed
<1>8. ASSUME NEW s \in Readers, Read(s) PROVE AttachInv'
  <2>1. \A r \in Readers \ {s} : taken'[r] = taken[r] /\ done'[r] = done[r]
    BY <1>8, ReadTypes
  <2>2. s \in subscribed /\ UNCHANGED <<closed, members, subscribed>>
    BY <1>8 DEF Read
  <2> QED
    BY <2>1, <2>2
<1>9. ASSUME NEW s \in Readers, CloseReader(s) PROVE AttachInv'
  BY <1>9 DEF CloseReader, TypeOK
<1>10. ASSUME Close PROVE AttachInv'
  BY <1>10 DEF Close
<1>11. CASE UNCHANGED vars
  BY <1>1, <1>11 DEF vars
<1> QED
  BY <1>2, <1>3, <1>4, <1>5, <1>6, <1>7, <1>8, <1>9, <1>10, <1>11 DEF Next

\* NewestKept and HonestLoss of one live reader.
Recent(s) == Suffix(queue[s], seq)
Counted(s) == start[s] + dropped[s] + taken[s] + Len(queue[s]) = seq

ReaderInv == \A s \in Readers : Live(s) => Recent(s) /\ (Replay > 0 => Counted(s))

LEMMA PublishReader ==
    ASSUME TypeOK, RingInv, NEW event \in Event, NEW by \in SUBSET Seqs, Publish(event, by),
           ReaderInv
    PROVE  ReaderInv'
<1> SUFFICES ASSUME NEW s \in Readers, Live(s)' PROVE Recent(s)' /\ (Replay > 0 => Counted(s)')
  BY DEF ReaderInv
<1>1. Live(s) /\ s \in members
  BY DEF Live, Publish
<1>2. /\ seq \in Nat /\ seq + 1 \in Seqs /\ seq' = seq + 1
      /\ queue[s] \in Seq(Item) /\ Len(queue[s]) <= Backlog
      /\ dropped[s] \in Nat /\ start[s] \in Nat /\ taken[s] \in Nat
  <2>1. seq \in Nat /\ seq + 1 \in Seqs /\ seq' = seq + 1
    BY RingFacts, PublishTypes
  <2>2. /\ queue \in [Readers -> Seq(Item)] /\ \A r \in Readers : Len(queue[r]) <= Backlog
        /\ dropped \in [Readers -> Nat] /\ start \in [Readers -> 0 .. MaxSeq]
        /\ taken \in [Readers -> Nat]
    BY DEF TypeOK, Item
  <2>3. queue[s] \in Seq(Item) /\ Len(queue[s]) <= Backlog
    BY <2>2
  <2>4. dropped[s] \in Nat /\ start[s] \in Nat /\ taken[s] \in Nat
    BY <2>2
  <2> QED
    BY <2>1, <2>3, <2>4
<1>3. queue'[s] = Offered(queue[s], seq + 1)
  BY <1>1 DEF Publish
<1>4. dropped'[s] = IF Full(queue[s]) THEN dropped[s] + 1 ELSE dropped[s]
  BY <1>1 DEF Publish
<1>5. seq + 1 \in Item
  BY <1>2 DEF Item
<1>6. Suffix(queue'[s], seq + 1)
  BY <1>1, <1>2, <1>3, <1>5, OfferedSuffix DEF ReaderInv, Recent
<1>7. Len(queue'[s]) = IF Full(queue[s]) THEN Len(queue[s]) ELSE Len(queue[s]) + 1
  BY <1>2, <1>3, <1>5, OfferedIs
<1>8. Recent(s)'
  BY <1>2, <1>6 DEF Recent, Suffix
<1>9. ASSUME Replay > 0 PROVE Counted(s)'
  <2>1. start[s] + dropped[s] + taken[s] + Len(queue[s]) = seq /\ Len(queue[s]) \in Nat
    BY <1>1, <1>2, <1>9 DEF ReaderInv, Counted
  <2>2. start'[s] = start[s] /\ taken'[s] = taken[s]
    BY DEF Publish
  <2>3. dropped'[s] + Len(queue'[s]) = dropped[s] + Len(queue[s]) + 1
    BY <1>2, <1>4, <1>7, <2>1
  <2>4. dropped'[s] \in Nat /\ Len(queue'[s]) \in Nat
    BY <1>2, <1>4, <1>7, <2>1
  <2>5. start'[s] + dropped'[s] + taken'[s] + Len(queue'[s]) = seq + 1
    <3>1. PICK a \in Nat, b \in Nat, c \in Nat, d \in Nat, e \in Nat, f \in Nat :
            /\ a = start[s] /\ b = dropped[s] /\ c = taken[s] /\ d = Len(queue[s])
            /\ e = dropped'[s] /\ f = Len(queue'[s])
      BY <1>2, <2>1, <2>4
    <3>2. e + f = b + d + 1 /\ a + b + c + d = seq
      BY <2>1, <2>3, <3>1
    <3>3. a + e + c + f = seq + 1
      BY <3>2
    <3> QED
      BY <2>2, <3>1, <3>3
  <2> QED
    BY <1>2, <2>5 DEF Counted
<1> QED
  BY <1>8, <1>9

\* A step that leaves the stream, and what a live reader has of it, alone.
LEMMA ReaderUntouched ==
    ASSUME NEW s \in Readers, ReaderInv, Live(s), UNCHANGED log,
           queue'[s] = queue[s], dropped'[s] = dropped[s], start'[s] = start[s],
           taken'[s] = taken[s]
    PROVE  Recent(s)' /\ (Replay > 0 => Counted(s)')
BY DEF ReaderInv, Recent, Counted, Suffix, seq

LEMMA ReaderStep ==
    TypeOK /\ RingInv /\ AttachInv /\ ReaderInv /\ [Next]_vars => ReaderInv'
<1> SUFFICES ASSUME TypeOK, RingInv, AttachInv, ReaderInv, [Next]_vars PROVE ReaderInv'
  OBVIOUS
<1> USE DEF readerVars, inlineVars
<1>1. ASSUME UNCHANGED <<log, members, done, queue, dropped, start, taken>> PROVE ReaderInv'
  BY <1>1, ReaderUntouched DEF ReaderInv, Live
<1>2. ASSUME NEW e \in Event, PublishEvent(e) PROVE ReaderInv'
  BY <1>2, PublishReader DEF PublishEvent
<1>3. ASSUME NEW q \in Seqs, NEW e \in Event, NestedPublish(q, e) PROVE ReaderInv'
  <2>1. causes[q] \union {q} \in SUBSET Seqs
    BY DEF TypeOK
  <2> QED
    BY <1>3, <2>1, PublishReader DEF NestedPublish
<1>4. ASSUME NEW q \in Seqs, CallbackReturns(q) \/ PublishCancelled(q) PROVE ReaderInv'
  BY <1>1, <1>4 DEF CallbackReturns, PublishCancelled
<1>5. ASSUME NEW c \in Callbacks, Register(c) \/ Unregister(c) PROVE ReaderInv'
  BY <1>1, <1>5 DEF Register, Unregister
<1>6. ASSUME NEW s \in Readers, NEW v \in Runs \union {All}, NEW since \in 0 .. MaxSeq,
             Subscribe(s, v, since)
      PROVE  ReaderInv'
  <2> SUFFICES ASSUME NEW r \in Readers, Live(r)' PROVE Recent(r)' /\ (Replay > 0 => Counted(r)')
    BY DEF ReaderInv
  <2>1. CASE r # s
    BY <1>6, <2>1, ReaderUntouched DEF Subscribe, Live, TypeOK
  <2>2. CASE r = s
    <3>1. /\ queue'[s] \in Seq(Seqs) /\ Suffix(queue'[s], seq) /\ dropped'[s] \in Nat
          /\ since >= seq => start'[s] = seq /\ dropped'[s] + Len(queue'[s]) = 0
          /\ since < seq =>
                /\ start'[s] = since
                /\ dropped'[s] + Len(queue'[s]) = Missing(since) + Len(History(since))
      BY <1>6, SubscribeTypes
    <3>2. log' = log /\ taken'[s] = 0 /\ since \in Nat /\ seq \in Nat /\ seq' = seq
      BY <1>6, RingFacts DEF Subscribe, AttachInv, seq
    <3>3. Recent(s)'
      BY <3>1, <3>2 DEF Recent, Suffix
    <3>4. ASSUME Replay > 0 PROVE Counted(s)'
      <4>1. since < seq => Missing(since) + Len(History(since)) = seq - since
        BY <3>2, <3>4, ReplayAccounts
      <4>2. Len(queue'[s]) \in Nat
        BY <3>1
      <4>3. start'[s] + dropped'[s] + taken'[s] + Len(queue'[s]) = seq
        <5>1. CASE since < seq
          BY <3>1, <3>2, <4>1, <4>2, <5>1
        <5>2. CASE since >= seq
          BY <3>1, <3>2, <4>2, <5>2
        <5> QED
          BY <3>2, <5>1, <5>2
      <4> QED
        BY <3>2, <4>3 DEF Counted
    <3> QED
      BY <2>2, <3>3, <3>4
  <2> QED
    BY <2>1, <2>2
<1>7. ASSUME NEW s \in Readers, SubscribeClosed(s) PROVE ReaderInv'
  BY <1>7 DEF SubscribeClosed, AttachInv, ReaderInv, Live
<1>8. ASSUME NEW s \in Readers, Read(s) PROVE ReaderInv'
  <2> SUFFICES ASSUME NEW r \in Readers, Live(r)' PROVE Recent(r)' /\ (Replay > 0 => Counted(r)')
    BY DEF ReaderInv
  <2>1. UNCHANGED <<log, members, dropped, start>> /\ ~done[s]
    BY <1>8 DEF Read
  <2>2. CASE r # s
    <3>1. queue'[r] = queue[r] /\ taken'[r] = taken[r] /\ done'[r] = done[r]
      BY <1>8, <2>2, ReadTypes
    <3> QED
      BY <2>1, <3>1, ReaderUntouched DEF Live
  <2>3. CASE r = s
    <3>1. Live(s) /\ ~done'[s]
      BY <2>1, <2>3 DEF Live
    <3>2. PICK k \in 1 .. Len(queue[s]) :
            queue'[s] = SubSeq(queue[s], k + 1, Len(queue[s])) /\ taken'[s] = taken[s] + k
      BY <1>8, <3>1, ReadTypes
    <3>3. /\ seq \in Nat /\ seq' = seq /\ queue[s] \in Seq(Item) /\ k \in 0 .. Len(queue[s])
          /\ start[s] \in Nat /\ dropped[s] \in Nat /\ taken[s] \in Nat /\ k \in Nat
          /\ Len(queue[s]) \in Nat
      <4>1. seq \in Nat /\ seq' = seq
        BY <2>1, RingFacts DEF seq
      <4>2. queue[s] \in Seq(Item)
        BY DEF TypeOK, Item
      <4>3. Len(queue[s]) \in Nat
        BY <4>2, LenProperties
      <4>4. start[s] \in Nat /\ dropped[s] \in Nat /\ taken[s] \in Nat
        BY ChannelAssumption DEF TypeOK
      <4> QED
        BY <4>1, <4>2, <4>3, <4>4
    <3>4. Suffix(queue'[s], seq)
      BY <3>1, <3>2, <3>3, RestSuffix DEF ReaderInv, Recent
    <3>5. Len(queue'[s]) = Len(queue[s]) - k
      BY <3>2, <3>3, RestIs
    <3>6. Recent(s)'
      BY <3>3, <3>4 DEF Recent, Suffix
    <3>7. ASSUME Replay > 0 PROVE Counted(s)'
      BY <2>1, <3>1, <3>2, <3>3, <3>5, <3>7 DEF ReaderInv, Counted
    <3> QED
      BY <2>3, <3>6, <3>7
  <2> QED
    BY <2>2, <2>3
<1>9. ASSUME NEW s \in Readers, CloseReader(s) PROVE ReaderInv'
  <2> SUFFICES ASSUME NEW r \in Readers, Live(r)' PROVE Recent(r)' /\ (Replay > 0 => Counted(r)')
    BY DEF ReaderInv
  <2>1. r # s
    BY <1>9 DEF CloseReader, Live, TypeOK
  <2> QED
    BY <1>9, <2>1, ReaderUntouched DEF CloseReader, Live, TypeOK
<1>10. ASSUME Close PROVE ReaderInv'
  BY <1>10 DEF Close, ReaderInv, Live
<1>11. CASE UNCHANGED vars
  BY <1>1, <1>11 DEF vars
<1> QED
  BY <1>2, <1>3, <1>4, <1>5, <1>6, <1>7, <1>8, <1>9, <1>10, <1>11 DEF Next

LEMMA LossInit == Init => AttachInv /\ ReaderInv
BY DEF Init, AttachInv, ReaderInv, Live

\* A reader that falls behind sees recent events: what waits for it is the end
\* of the stream, whole, so whatever it lost is one gap.
THEOREM ReadersSeeTheNewest == Spec => []NewestKept
<1>1. ReaderInv => NewestKept
  BY DEF ReaderInv, Recent, Suffix, NewestKept
<1> QED
  BY <1>1, ChannelInit, ChannelStep, LossInit, AttachStep, ReaderStep, PTL DEF Spec

\* No event a live reader asked for disappears uncounted, if the channel keeps
\* any replay at all; without a ring, what a late reader missed is not counted.
THEOREM LossIsCounted == ASSUME Replay > 0 PROVE Spec => []HonestLoss
<1>1. ReaderInv => HonestLoss
  BY DEF ReaderInv, Counted, HonestLoss
<1> QED
  BY <1>1, ChannelInit, ChannelStep, LossInit, AttachStep, ReaderStep, PTL DEF Spec

-----------------------------------------------------------------------------
(* Order                                                                   *)

Rising(q) == \A i, j \in 1 .. Len(q) : i < j => q[i] < q[j]

\* What waits for a reader that is not over comes after what it was given, is
\* in order, and ends with CLOSED if that is in it at all.
Waits(s) ==
    /\ \A i, j \in 1 .. Len(queue[s]) : i < j =>
        queue[s][i] # CLOSED /\ (queue[s][j] = CLOSED \/ queue[s][i] < queue[s][j])
    /\ \A j \in 1 .. Len(queue[s]) : queue[s][j] <= seq /\ (~closed => queue[s][j] # CLOSED)
    /\ \A i \in 1 .. Len(got[s]), j \in 1 .. Len(queue[s]) :
        queue[s][j] = CLOSED \/ got[s][i] < queue[s][j]

Given(s) == Rising(got[s]) /\ \A i \in 1 .. Len(got[s]) : got[s][i] <= seq

OrderInv == \A s \in Readers : Given(s) /\ (~done[s] => Waits(s))

\* Who is subscribed to an open channel is offered its events, and who is not
\* was given none.
GuestInv ==
    /\ ~closed => subscribed \subseteq members
    /\ \A s \in Readers \ subscribed : got[s] = <<>>

\* What the types say of one reader.
LEMMA ReaderTypes ==
    ASSUME TypeOK, NEW s \in Readers
    PROVE  /\ queue[s] \in Seq(Item) /\ Len(queue[s]) \in Nat /\ Len(queue[s]) <= Backlog
           /\ \A i \in 1 .. Len(queue[s]) : queue[s][i] \in Nat
           /\ got[s] \in Seq(Seqs) /\ Len(got[s]) \in Nat
           /\ \A i \in 1 .. Len(got[s]) : got[s][i] \in Nat /\ got[s][i] # CLOSED
           /\ dropped[s] \in Nat /\ start[s] \in Nat /\ taken[s] \in Nat /\ seq \in Nat
<1>1. /\ queue \in [Readers -> Seq(Item)] /\ got \in [Readers -> Seq(Seqs)]
      /\ dropped \in [Readers -> Nat] /\ start \in [Readers -> 0 .. MaxSeq]
      /\ taken \in [Readers -> Nat] /\ log \in Seq(Event)
  BY DEF TypeOK, Item
<1>2. queue[s] \in Seq(Item) /\ got[s] \in Seq(Seqs)
  BY <1>1
<1>3. \A x \in Item : x \in Nat
  BY ChannelAssumption DEF Item, Seqs, CLOSED
<1>4. \A x \in Seqs : x \in Nat /\ x # CLOSED
  BY ChannelAssumption DEF Seqs, CLOSED
<1>5. \A i \in 1 .. Len(queue[s]) : queue[s][i] \in Nat
  BY <1>2, <1>3
<1>6. \A i \in 1 .. Len(got[s]) : got[s][i] \in Nat /\ got[s][i] # CLOSED
  BY <1>2, <1>4
<1>7. Len(queue[s]) \in Nat /\ Len(got[s]) \in Nat /\ seq \in Nat
  BY <1>1, <1>2 DEF seq
<1>8. Len(queue[s]) <= Backlog
  BY DEF TypeOK
<1>9. dropped[s] \in Nat /\ start[s] \in Nat /\ taken[s] \in Nat
  BY <1>1, ChannelAssumption
<1> QED
  BY <1>2, <1>5, <1>6, <1>7, <1>8, <1>9

\* What a read does: it passes over what the reader does not keep, and returns
\* the item it stopped at if that is an event the reader keeps.
LEMMA ReadIs ==
    ASSUME TypeOK, NEW s \in Readers, Read(s)
    PROVE  \E k \in 1 .. Len(queue[s]) :
              /\ \A i \in 1 .. (k - 1) : Skips(s, queue[s][i])
              /\ queue'[s] = SubSeq(queue[s], k + 1, Len(queue[s]))
              /\ taken'[s] = taken[s] + (IF queue[s][k] = CLOSED THEN k - 1 ELSE k)
              /\ IF queue[s][k] = CLOSED \/ Skips(s, queue[s][k]) THEN got'[s] = got[s]
                 ELSE got'[s] = Append(got[s], queue[s][k])
              /\ \A r \in Readers \ {s} : got'[r] = got[r]
<1>1. PICK k \in 1 .. Len(queue[s]) :
        LET item == queue[s][k] IN
        /\ \A i \in 1 .. (k - 1) : Skips(s, queue[s][i])
        /\ Skips(s, item) => k = Len(queue[s])
        /\ queue' = [queue EXCEPT ![s] = SubSeq(queue[s], k + 1, Len(queue[s]))]
        /\ taken' = [taken EXCEPT ![s] = @ + (IF item = CLOSED THEN k - 1 ELSE k)]
        /\ done' = [done EXCEPT ![s] =
                        item = CLOSED \/ (Keeps(s, item) /\ Ends(s, item))]
        /\ got' = IF item = CLOSED \/ Skips(s, item) THEN got
                  ELSE [got EXCEPT ![s] = Append(@, item)]
  BY DEF Read
<1>2. DOMAIN queue = Readers /\ DOMAIN taken = Readers /\ DOMAIN got = Readers
  BY DEF TypeOK
<1>3. queue'[s] = SubSeq(queue[s], k + 1, Len(queue[s]))
  BY <1>1, <1>2
<1>4. taken'[s] = taken[s] + (IF queue[s][k] = CLOSED THEN k - 1 ELSE k)
  BY <1>1, <1>2
<1>5. CASE queue[s][k] = CLOSED \/ Skips(s, queue[s][k])
  BY <1>1, <1>3, <1>4, <1>5
<1>6. CASE ~(queue[s][k] = CLOSED \/ Skips(s, queue[s][k]))
  <2>1. got' = [got EXCEPT ![s] = Append(got[s], queue[s][k])]
    BY <1>1, <1>2, <1>6
  <2>2. got'[s] = Append(got[s], queue[s][k]) /\ \A r \in Readers \ {s} : got'[r] = got[r]
    BY <1>2, <2>1
  <2> QED
    BY <1>1, <1>3, <1>4, <1>6, <2>2
<1> QED
  BY <1>5, <1>6

LEMMA GuestStep == TypeOK /\ GuestInv /\ [Next]_vars => GuestInv'
<1> SUFFICES ASSUME TypeOK, GuestInv, [Next]_vars PROVE GuestInv'
  OBVIOUS
<1> USE DEF GuestInv, readerVars, inlineVars
<1>1. ASSUME UNCHANGED <<closed, members, subscribed, got>> PROVE GuestInv'
  BY <1>1
<1>2. ASSUME NEW e \in Event, PublishEvent(e) PROVE GuestInv'
  BY <1>1, <1>2 DEF PublishEvent, Publish
<1>3. ASSUME NEW q \in Seqs, NEW e \in Event, NestedPublish(q, e) PROVE GuestInv'
  BY <1>1, <1>3 DEF NestedPublish, Publish
<1>4. ASSUME NEW q \in Seqs, CallbackReturns(q) \/ PublishCancelled(q) PROVE GuestInv'
  BY <1>1, <1>4 DEF CallbackReturns, PublishCancelled
<1>5. ASSUME NEW c \in Callbacks, Register(c) \/ Unregister(c) PROVE GuestInv'
  BY <1>1, <1>5 DEF Register, Unregister
<1>6. ASSUME NEW s \in Readers, NEW v \in Runs \union {All}, NEW since \in 0 .. MaxSeq,
             Subscribe(s, v, since)
      PROVE  GuestInv'
  BY <1>6 DEF Subscribe
<1>7. ASSUME NEW s \in Readers, SubscribeClosed(s) PROVE GuestInv'
  BY <1>7 DEF SubscribeClosed
<1>8. ASSUME NEW s \in Readers, Read(s) PROVE GuestInv'
  <2>1. \A r \in Readers \ {s} : got'[r] = got[r]
    BY <1>8, ReadIs
  <2>2. s \in subscribed /\ UNCHANGED <<closed, members, subscribed>>
    BY <1>8 DEF Read
  <2> QED
    BY <2>1, <2>2
<1>9. ASSUME NEW s \in Readers, CloseReader(s) PROVE GuestInv'
  BY <1>1, <1>9 DEF CloseReader
<1>10. ASSUME Close PROVE GuestInv'
  BY <1>10 DEF Close
<1>11. CASE UNCHANGED vars
  BY <1>1, <1>11 DEF vars
<1> QED
  BY <1>2, <1>3, <1>4, <1>5, <1>6, <1>7, <1>8, <1>9, <1>10, <1>11 DEF Next

\* An open channel's offer keeps the order: the event is newer than everything.
LEMMA PublishOrder ==
    ASSUME TypeOK, RingInv, NEW event \in Event, NEW by \in SUBSET Seqs, Publish(event, by),
           OrderInv
    PROVE  OrderInv'
<1> SUFFICES ASSUME NEW s \in Readers PROVE Given(s)' /\ (~done'[s] => Waits(s)')
  BY DEF OrderInv
<1>1. /\ seq + 1 \in Item /\ seq' = seq + 1 /\ seq \in Nat
      /\ UNCHANGED <<closed, done, got>> /\ ~closed
  BY PublishTypes, RingFacts DEF Publish, Item
<1>2. /\ queue[s] \in Seq(Item) /\ Len(queue[s]) \in Nat /\ Len(queue[s]) <= Backlog
      /\ \A i \in 1 .. Len(queue[s]) : queue[s][i] \in Nat
      /\ \A i \in 1 .. Len(got[s]) : got[s][i] \in Nat
      /\ Len(got[s]) \in Nat
  BY ReaderTypes
<1>3. Given(s)
  BY DEF OrderInv
<1>4. Given(s)'
  BY <1>1, <1>2, <1>3 DEF Given, Rising
<1>5. ASSUME ~done'[s] PROVE Waits(s)'
  <2>1. Waits(s)
    BY <1>1, <1>5 DEF OrderInv
  <2>2. CASE s \notin members
    <3>1. queue'[s] = queue[s]
      BY <2>2 DEF Publish
    <3> QED
      BY <1>1, <1>2, <2>1, <3>1 DEF Waits
  <2>3. CASE s \in members
    <3>1. queue'[s] = Offered(queue[s], seq + 1)
      BY <2>3 DEF Publish
    <3> DEFINE w == Offered(queue[s], seq + 1)
    <3>2. PICK m \in Nat : Shifts(w, queue[s], m, seq + 1)
      <4>1. queue[s] \in Seq(Item) /\ Len(queue[s]) <= Backlog /\ seq + 1 \in Item
        BY <1>1, <1>2
      <4> QED
        BY <4>1, OfferedShift
    <3> HIDE DEF w
    <3>12. /\ Len(w) > 0 /\ w[Len(w)] = seq + 1
           /\ \A i \in 1 .. Len(w) - 1 : w[i] = queue[s][m + i]
      BY <3>2 DEF Shifts
    <3>3. Len(w) \in Nat /\ m \in Nat /\ \A i \in 1 .. Len(w) - 1 : m + i \in 1 .. Len(queue[s])
      BY <3>2 DEF Shifts
    <3>13. queue'[s] = w
      BY <3>1 DEF w
    <3>4. \A i \in 1 .. Len(w) - 1 :
            w[i] \in Nat /\ w[i] <= seq /\ w[i] # CLOSED
      BY <1>1, <1>2, <2>1, <3>12, <3>3 DEF Waits
    <3>5. \A i, j \in 1 .. Len(w) - 1 : i < j => w[i] < w[j]
      <4> TAKE i, j \in 1 .. Len(w) - 1
      <4> HAVE i < j
      <4>1. m + i \in 1 .. Len(queue[s]) /\ m + j \in 1 .. Len(queue[s]) /\ m + i < m + j
        BY <3>3
      <4>2. queue[s][m + j] # CLOSED
        BY <3>12, <3>4
      <4> QED
        BY <2>1, <3>12, <4>1, <4>2 DEF Waits
    <3>6. \A i \in 1 .. Len(got[s]), j \in 1 .. Len(w) - 1 : got[s][i] < w[j]
      <4> TAKE i \in 1 .. Len(got[s]), j \in 1 .. Len(w) - 1
      <4>1. m + j \in 1 .. Len(queue[s]) /\ queue[s][m + j] # CLOSED /\ w[j] = queue[s][m + j]
        BY <3>12, <3>3, <3>4
      <4> QED
        BY <2>1, <4>1 DEF Waits
    <3>7. \A i \in 1 .. Len(got[s]) : got[s][i] < seq + 1
      BY <1>1, <1>2, <1>3 DEF Given
    <3>8. \A j \in 1 .. Len(w) : j \in 1 .. Len(w) - 1 \/ (j = Len(w) /\ w[j] = seq + 1)
      BY <3>12, <3>3
    <3>9. \A i, j \in 1 .. Len(w) : i < j => w[i] # CLOSED /\ w[i] < w[j]
      BY <1>1, <3>3, <3>4, <3>5, <3>8
    <3>10. \A j \in 1 .. Len(w) : w[j] <= seq + 1 /\ w[j] # CLOSED
      BY <1>1, <3>4, <3>8 DEF CLOSED
    <3>11. \A i \in 1 .. Len(got[s]), j \in 1 .. Len(w) : got[s][i] < w[j]
      BY <3>6, <3>7, <3>8
    <3> QED
      BY <1>1, <3>13, <3>12, <3>9, <3>10, <3>11 DEF Waits
  <2> QED
    BY <2>2, <2>3
<1> QED
  BY <1>4, <1>5

LEMMA OrderStep ==
    TypeOK /\ RingInv /\ AttachInv /\ GuestInv /\ OrderInv /\ [Next]_vars => OrderInv'
<1> SUFFICES ASSUME TypeOK, RingInv, AttachInv, GuestInv, OrderInv, [Next]_vars PROVE OrderInv'
  OBVIOUS
<1> USE DEF readerVars, inlineVars
\* A step that leaves a reader's queue and what it was given alone.
<1>1. ASSUME NEW s \in Readers, UNCHANGED <<log, closed>>,
             done'[s] = done[s], queue'[s] = queue[s], got'[s] = got[s]
      PROVE  Given(s)' /\ (~done'[s] => Waits(s)')
  BY <1>1 DEF OrderInv, Given, Rising, Waits, seq
<1>2. ASSUME UNCHANGED <<log, closed, done, queue, got>> PROVE OrderInv'
  BY <1>1, <1>2 DEF OrderInv
<1>3. ASSUME NEW e \in Event, PublishEvent(e) PROVE OrderInv'
  BY <1>3, PublishOrder DEF PublishEvent
<1>4. ASSUME NEW q \in Seqs, NEW e \in Event, NestedPublish(q, e) PROVE OrderInv'
  <2>1. causes[q] \union {q} \in SUBSET Seqs
    BY DEF TypeOK
  <2> QED
    BY <1>4, <2>1, PublishOrder DEF NestedPublish
<1>5. ASSUME NEW q \in Seqs, CallbackReturns(q) \/ PublishCancelled(q) PROVE OrderInv'
  BY <1>2, <1>5 DEF CallbackReturns, PublishCancelled
<1>6. ASSUME NEW c \in Callbacks, Register(c) \/ Unregister(c) PROVE OrderInv'
  BY <1>2, <1>6 DEF Register, Unregister
<1>7. ASSUME NEW s \in Readers, NEW v \in Runs \union {All}, NEW since \in 0 .. MaxSeq,
             Subscribe(s, v, since)
      PROVE  OrderInv'
  <2> SUFFICES ASSUME NEW r \in Readers PROVE Given(r)' /\ (~done'[r] => Waits(r)')
    BY DEF OrderInv
  <2>1. UNCHANGED <<log, closed, done, got>> /\ ~closed /\ s \notin subscribed
    BY <1>7 DEF Subscribe
  <2>2. CASE r # s
    <3>1. queue'[r] = queue[r]
      BY <1>7, <2>2 DEF Subscribe, TypeOK
    <3> QED
      BY <1>1, <2>1, <3>1
  <2>3. CASE r = s
    <3>1. queue'[s] \in Seq(Seqs) /\ Suffix(queue'[s], seq) /\ seq \in Nat /\ seq' = seq
      BY <1>7, <2>1, SubscribeTypes, RingFacts DEF seq
    <3>2. got'[s] = <<>> /\ Len(got'[s]) = 0
      BY <2>1 DEF GuestInv
    <3>3. Len(queue'[s]) \in Nat /\ \A i \in 1 .. Len(queue'[s]) : queue'[s][i] # CLOSED
      BY <3>1, ChannelAssumption DEF Seqs, CLOSED
    <3>4. \A i \in 1 .. Len(queue'[s]) : queue'[s][i] = seq - Len(queue'[s]) + i
      BY <3>1 DEF Suffix
    <3>5. Waits(s)'
      <4> DEFINE w == queue'[s]
      <4>3. Len(w) \in Nat /\ seq \in Nat /\ \A i \in 1 .. Len(w) : w[i] = seq - Len(w) + i
        BY <3>1, <3>3, <3>4
      <4>4. \A j \in 1 .. Len(w) : w[j] # CLOSED
        BY <3>3
      <4> HIDE DEF w
      <4>1. \A j \in 1 .. Len(w) : w[j] <= seq /\ w[j] # CLOSED
        BY <4>3, <4>4
      <4>2. \A i, j \in 1 .. Len(w) : i < j => w[i] < w[j]
        BY <4>3
      <4> USE DEF w
      <4> QED
        BY <3>1, <3>2, <4>1, <4>2 DEF Waits
    <3>6. Given(s)'
      BY <3>2 DEF Given, Rising
    <3> QED
      BY <2>3, <3>5, <3>6
  <2> QED
    BY <2>2, <2>3
<1>8. ASSUME NEW s \in Readers, SubscribeClosed(s) PROVE OrderInv'
  <2> SUFFICES ASSUME NEW r \in Readers PROVE Given(r)' /\ (~done'[r] => Waits(r)')
    BY DEF OrderInv
  <2>1. UNCHANGED <<log, closed, done, got>> /\ closed /\ s \notin subscribed
    BY <1>8 DEF SubscribeClosed
  <2>2. CASE r # s
    <3>1. queue'[r] = queue[r]
      BY <1>8, <2>2 DEF SubscribeClosed, TypeOK
    <3> QED
      BY <1>1, <2>1, <3>1
  <2>3. CASE r = s
    <3>1. queue'[s] = <<CLOSED>>
      BY <1>8 DEF SubscribeClosed, TypeOK
    <3>2. got'[s] = <<>> /\ Len(got'[s]) = 0
      BY <2>1 DEF GuestInv
    <3>3. Len(queue'[s]) = 1 /\ queue'[s][1] = CLOSED /\ seq' \in Nat
      BY <2>1, <3>1, RingFacts DEF seq
    <3>4. Waits(s)'
      BY <2>1, <3>2, <3>3 DEF Waits, CLOSED
    <3>5. Given(s)'
      BY <3>2 DEF Given, Rising
    <3> QED
      BY <2>3, <3>4, <3>5
  <2> QED
    BY <2>2, <2>3
<1>9. ASSUME NEW s \in Readers, Read(s) PROVE OrderInv'
  <2> SUFFICES ASSUME NEW r \in Readers PROVE Given(r)' /\ (~done'[r] => Waits(r)')
    BY DEF OrderInv
  <2>1. UNCHANGED <<log, closed>> /\ ~done[s]
    BY <1>9 DEF Read
  <2>2. CASE r # s
    <3>1. queue'[r] = queue[r] /\ done'[r] = done[r] /\ got'[r] = got[r]
      BY <1>9, <2>2, ReadTypes, ReadIs
    <3> QED
      BY <1>1, <2>1, <3>1
  <2>3. CASE r = s
    <3> DEFINE q == queue[s]
               g == got[s]
    <3>1. PICK k \in 1 .. Len(q) :
              /\ queue'[s] = SubSeq(q, k + 1, Len(q))
              /\ IF q[k] = CLOSED \/ Skips(s, q[k]) THEN got'[s] = g
                 ELSE got'[s] = Append(g, q[k])
      BY <1>9, ReadIs
    <3>2. /\ q \in Seq(Item) /\ Len(q) \in Nat /\ \A i \in 1 .. Len(q) : q[i] \in Nat
          /\ g \in Seq(Seqs) /\ Len(g) \in Nat
          /\ \A i \in 1 .. Len(g) : g[i] \in Nat /\ g[i] # CLOSED
          /\ seq \in Nat /\ seq' = seq
      BY <2>1, ReaderTypes DEF seq
    <3>3. /\ \A i, j \in 1 .. Len(q) : i < j => q[i] # CLOSED /\ (q[j] = CLOSED \/ q[i] < q[j])
          /\ \A j \in 1 .. Len(q) : q[j] <= seq /\ (~closed => q[j] # CLOSED)
          /\ \A i \in 1 .. Len(g), j \in 1 .. Len(q) : q[j] = CLOSED \/ g[i] < q[j]
      BY <2>1 DEF OrderInv, Waits
    <3>4. \A i, j \in 1 .. Len(g) : i < j => g[i] < g[j]
      BY DEF OrderInv, Given, Rising
    <3>5. \A i \in 1 .. Len(g) : g[i] <= seq
      BY DEF OrderInv, Given
    <3> DEFINE w == SubSeq(q, k + 1, Len(q))
               h == got'[s]
    <3>6. /\ Len(w) = Len(q) - k /\ \A i \in 1 .. Len(w) : w[i] = q[k + i]
          /\ k \in Nat /\ k >= 1 /\ k <= Len(q)
      <4>1. k \in 0 .. Len(q) /\ k \in Nat /\ k >= 1 /\ k <= Len(q)
        BY <3>2
      <4> QED
        BY <3>2, <4>1, RestIs
    <3>7. h = g \/ (q[k] # CLOSED /\ h = Append(g, q[k]))
      BY <3>1
    <3>8. h = g \/ /\ q[k] # CLOSED /\ Len(h) = Len(g) + 1 /\ h[Len(g) + 1] = q[k]
                   /\ \A i \in 1 .. Len(g) : h[i] = g[i]
      BY <3>2, <3>7
    <3> HIDE DEF q, g, w, h
    <3>9. \A i, j \in 1 .. Len(w) : i < j => w[i] # CLOSED /\ (w[j] = CLOSED \/ w[i] < w[j])
      <4> TAKE i, j \in 1 .. Len(w)
      <4> HAVE i < j
      <4>1. k + i \in 1 .. Len(q) /\ k + j \in 1 .. Len(q) /\ k + i < k + j
        BY <3>2, <3>6
      <4> QED
        BY <3>3, <3>6, <4>1
    <3>10. \A j \in 1 .. Len(w) : w[j] <= seq /\ (~closed => w[j] # CLOSED)
      BY <3>2, <3>3, <3>6
    <3>11. \A j \in 1 .. Len(w) : k + j \in 1 .. Len(q) /\ k < k + j
      BY <3>2, <3>6
    <3>12. ASSUME NEW i \in 1 .. Len(h), NEW j \in 1 .. Len(w) PROVE w[j] = CLOSED \/ h[i] < w[j]
      <4>1. k \in 1 .. Len(q) /\ k + j \in 1 .. Len(q) /\ k < k + j /\ w[j] = q[k + j]
        BY <3>2, <3>6, <3>11
      <4>2. CASE i \in 1 .. Len(g) /\ h[i] = g[i]
        BY <3>3, <4>1, <4>2
      <4>3. CASE h[i] = q[k]
        BY <3>3, <4>1, <4>3
      <4>4. (i \in 1 .. Len(g) /\ h[i] = g[i]) \/ h[i] = q[k]
        BY <3>2, <3>8
      <4> QED
        BY <4>2, <4>3, <4>4
    <3>13. \A i, j \in 1 .. Len(h) : i < j => h[i] < h[j]
      BY <3>2, <3>3, <3>4, <3>8
    <3>14. \A i \in 1 .. Len(h) : h[i] <= seq
      BY <3>2, <3>3, <3>5, <3>8
    <3>15. queue'[s] = w /\ got'[s] = h
      BY <3>1 DEF w, h
    <3>16. Waits(s)'
      BY <2>1, <3>2, <3>9, <3>10, <3>12, <3>15 DEF Waits
    <3>17. Given(s)'
      BY <3>2, <3>13, <3>14, <3>15 DEF Given, Rising
    <3> QED
      BY <2>3, <3>16, <3>17
  <2> QED
    BY <2>2, <2>3
<1>10. ASSUME NEW s \in Readers, CloseReader(s) PROVE OrderInv'
  <2> SUFFICES ASSUME NEW r \in Readers PROVE Given(r)' /\ (~done'[r] => Waits(r)')
    BY DEF OrderInv
  <2>1. UNCHANGED <<log, closed, got>>
    BY <1>10 DEF CloseReader
  <2>2. CASE r # s
    <3>1. queue'[r] = queue[r] /\ done'[r] = done[r]
      BY <1>10, <2>2 DEF CloseReader, TypeOK
    <3> QED
      BY <1>1, <2>1, <3>1
  <2>3. CASE r = s
    <3>1. done'[s]
      BY <1>10 DEF CloseReader, TypeOK
    <3> QED
      BY <2>1, <2>3, <3>1 DEF OrderInv, Given, Rising, seq
  <2> QED
    BY <2>2, <2>3
<1>11. ASSUME Close PROVE OrderInv'
  <2> SUFFICES ASSUME NEW s \in Readers PROVE Given(s)' /\ (~done'[s] => Waits(s)')
    BY DEF OrderInv
  <2>1. UNCHANGED <<log, done, got>> /\ ~closed /\ closed'
    BY <1>11 DEF Close
  <2>2. Given(s)'
    BY <2>1 DEF OrderInv, Given, Rising, seq
  <2>3. ASSUME ~done'[s] PROVE Waits(s)'
    <3>1. Waits(s)
      BY <2>1, <2>3 DEF OrderInv
    <3>2. seq' = seq /\ seq \in Nat
      BY <2>1, RingFacts DEF seq
    <3>3. CASE s \notin members
      <4>1. queue'[s] = queue[s]
        BY <1>11, <3>3 DEF Close
      <4> QED
        BY <2>1, <3>1, <3>2, <4>1 DEF Waits
    <3>4. CASE s \in members
      <4> DEFINE q == queue[s]
      <4>1. queue'[s] = Offered(q, CLOSED)
        BY <1>11, <3>4 DEF Close
      <4>2. q \in Seq(Item) /\ Len(q) \in Nat /\ Len(q) <= Backlog /\ CLOSED \in Item
            /\ \A i \in 1 .. Len(q) : q[i] \in Nat
        BY ReaderTypes DEF Item
      <4> DEFINE w == Offered(q, CLOSED)
      <4>3. PICK m \in Nat : Shifts(w, q, m, CLOSED)
        <5>1. q \in Seq(Item) /\ Len(q) <= Backlog /\ CLOSED \in Item
          BY <4>2
        <5> QED
          BY <5>1, OfferedShift
      <4>4. queue'[s] = w
        BY <4>1
      <4>5. /\ \A i, j \in 1 .. Len(q) : i < j => q[i] # CLOSED /\ (q[j] = CLOSED \/ q[i] < q[j])
            /\ \A j \in 1 .. Len(q) : q[j] <= seq /\ q[j] # CLOSED
            /\ \A i \in 1 .. Len(got[s]), j \in 1 .. Len(q) : q[j] = CLOSED \/ got[s][i] < q[j]
        BY <2>1, <3>1 DEF Waits
      <4> HIDE DEF q, w
      <4>6. Len(w) \in Nat /\ m \in Nat /\ \A i \in 1 .. Len(w) - 1 : m + i \in 1 .. Len(q)
        BY <4>3 DEF Shifts
      <4>7. Len(w) > 0 /\ w[Len(w)] = CLOSED /\ \A i \in 1 .. Len(w) - 1 : w[i] = q[m + i]
        BY <4>3 DEF Shifts
      <4>8. \A j \in 1 .. Len(w) : j \in 1 .. Len(w) - 1 \/ w[j] = CLOSED
        BY <4>7, <4>6
      <4>9. \A i, j \in 1 .. Len(w) : i < j => i \in 1 .. Len(w) - 1
        BY <4>6
      <4>10. \A i \in 1 .. Len(w) - 1 : w[i] # CLOSED /\ w[i] <= seq
        BY <4>5, <4>6, <4>7
      <4>11. \A i, j \in 1 .. Len(w) - 1 : i < j => w[i] < w[j]
        <5> TAKE i, j \in 1 .. Len(w) - 1
        <5> HAVE i < j
        <5>1. m + i \in 1 .. Len(q) /\ m + j \in 1 .. Len(q) /\ m + i < m + j
          BY <4>6
        <5> QED
          BY <4>5, <4>7, <5>1
      <4>12. \A i \in 1 .. Len(got[s]), j \in 1 .. Len(w) - 1 : got[s][i] < w[j]
        BY <4>5, <4>6, <4>7
      <4>13. \A i, j \in 1 .. Len(w) : i < j => w[i] # CLOSED /\ (w[j] = CLOSED \/ w[i] < w[j])
        BY <4>8, <4>9, <4>10, <4>11
      <4>14. \A j \in 1 .. Len(w) : w[j] <= seq
        BY <3>2, <4>8, <4>10 DEF CLOSED
      <4> QED
        BY <2>1, <3>2, <4>4, <4>6, <4>8, <4>12, <4>13, <4>14 DEF Waits
    <3> QED
      BY <3>3, <3>4
  <2> QED
    BY <2>2, <2>3
<1>12. CASE UNCHANGED vars
  BY <1>2, <1>12 DEF vars
<1> QED
  BY <1>3, <1>4, <1>5, <1>6, <1>7, <1>8, <1>9, <1>10, <1>11, <1>12 DEF Next

LEMMA OrderInit == Init => GuestInv /\ OrderInv
<1> SUFFICES ASSUME Init PROVE GuestInv /\ OrderInv
  OBVIOUS
<1>1. \A s \in Readers : queue[s] = <<>> /\ got[s] = <<>> /\ Len(queue[s]) = 0 /\ Len(got[s]) = 0
  BY DEF Init
<1> QED
  BY <1>1 DEF Init, GuestInv, OrderInv, Given, Rising, Waits

\* No reader ever sees the stream go backwards or an event twice, however
\* replay, overflow, filters and close fall together.
THEOREM StreamNeverGoesBack == Spec => []DeliveredInOrder
<1>1. OrderInv => DeliveredInOrder
  BY DEF OrderInv, Given, Rising, DeliveredInOrder
<1> QED
  BY <1>1, ChannelInit, ChannelStep, LossInit, AttachStep, OrderInit, GuestStep, OrderStep, PTL DEF Spec

-----------------------------------------------------------------------------
(* Completeness                                                            *)

Handed(s) == {got[s][i] : i \in 1 .. Len(got[s])}
Complete(s) == start[s] + taken[s] <= seq /\ (dropped[s] = 0 => Handed(s) = Owed(s))

GapInv == \A s \in subscribed : ~closed => Complete(s)

\* A step that adds at most events to the stream and drops to one reader's
\* count, and hands it nothing.
LEMMA CompleteUntouched ==
    ASSUME TypeOK, TypeOK', NEW s \in Readers, Complete(s), seq <= seq',
           \A q \in 1 .. seq : log'[q] = log[q],
           dropped'[s] = 0 => dropped[s] = 0, view'[s] = view[s], start'[s] = start[s],
           taken'[s] = taken[s], got'[s] = got[s]
    PROVE  Complete(s)'
<1>1. start[s] \in Nat /\ taken[s] \in Nat /\ seq \in Nat
  BY ReaderTypes
<1>2. seq' \in Nat
  BY DEF TypeOK, seq
<1>3. \A q \in start[s] + 1 .. start[s] + taken[s] : log'[q] = log[q]
  BY <1>1 DEF Complete
<1>4. Owed(s)' = Owed(s)
  BY <1>3 DEF Owed, Keeps
<1>5. Handed(s)' = Handed(s)
  BY DEF Handed
<1>6. start'[s] + taken'[s] <= seq'
  BY <1>1, <1>2 DEF Complete
<1> QED
  BY <1>4, <1>5, <1>6 DEF Complete

LEMMA PublishGap ==
    ASSUME TypeOK, TypeOK', RingInv, NEW event \in Event, NEW by \in SUBSET Seqs,
           Publish(event, by), GapInv
    PROVE  GapInv'
<1> SUFFICES ASSUME NEW s \in subscribed PROVE Complete(s)'
  BY DEF GapInv, Publish
<1>1. /\ s \in Readers /\ Complete(s) /\ seq \in Nat /\ seq' = seq + 1
      /\ log \in Seq(Event) /\ log' = Append(log, event)
  BY RingFacts, PublishTypes DEF Publish, GapInv, TypeOK
<1>2. \A q \in 1 .. seq : log'[q] = log[q]
  BY <1>1 DEF seq
<1>3. dropped'[s] = dropped[s] \/ dropped'[s] = dropped[s] + 1
  BY <1>1 DEF Publish
<1>4. dropped'[s] = 0 => dropped[s] = 0
  <2>1. dropped[s] \in Nat
    BY <1>1, ReaderTypes
  <2> QED
    BY <1>3, <2>1
<1>5. /\ view'[s] = view[s] /\ start'[s] = start[s] /\ taken'[s] = taken[s] /\ got'[s] = got[s]
      /\ seq <= seq'
  BY <1>1 DEF Publish
<1> QED
  BY <1>1, <1>2, <1>4, <1>5, CompleteUntouched

\* A live reader's read hands it exactly the events of its view among those it
\* takes, which are the next ones.
LEMMA ReadGap ==
    ASSUME TypeOK, ReaderInv, Replay > 0, NEW s \in Readers, Live(s), Read(s), Complete(s)
    PROVE  Complete(s)'
<1>1. PICK k \in 1 .. Len(queue[s]) :
              /\ \A i \in 1 .. (k - 1) : Skips(s, queue[s][i])
              /\ taken'[s] = taken[s] + (IF queue[s][k] = CLOSED THEN k - 1 ELSE k)
              /\ IF queue[s][k] = CLOSED \/ Skips(s, queue[s][k]) THEN got'[s] = got[s]
                 ELSE got'[s] = Append(got[s], queue[s][k])
  BY ReadIs
<1> DEFINE q == queue[s]
           from == start[s] + taken[s]
           h == got'[s]
<1>2. /\ Len(q) \in Nat /\ got[s] \in Seq(Seqs) /\ dropped[s] \in Nat
      /\ start[s] \in Nat /\ taken[s] \in Nat /\ seq \in Nat /\ k \in Nat /\ k >= 1 /\ k <= Len(q)
  BY ReaderTypes
<1>3. UNCHANGED <<log, view, start, dropped>>
  BY DEF Read
<1>4. from \in Nat /\ from + dropped[s] + Len(q) = seq
  BY <1>2 DEF ReaderInv, Counted
<1>10. \A i \in 1 .. Len(q) : q[i] = seq - Len(q) + i
  BY DEF ReaderInv, Recent, Suffix
<1> HIDE DEF q, from, h
<1>5. \A i \in 1 .. Len(q) : q[i] = from + dropped[s] + i
  <2>1. seq - Len(q) = from + dropped[s]
    BY <1>2, <1>4
  <2> QED
    BY <1>10, <2>1
<1>6. \A i \in 1 .. Len(q) : q[i] # CLOSED
  BY <1>2, <1>4, <1>5 DEF CLOSED
<1>7. taken'[s] = taken[s] + k /\ h = IF Skips(s, q[k]) THEN got[s] ELSE Append(got[s], q[k])
  BY <1>1, <1>2, <1>6 DEF q, h
<1>8. start'[s] + taken'[s] = from + k /\ start'[s] = start[s] /\ from + k <= seq
  BY <1>2, <1>3, <1>4, <1>7 DEF from
<1>9. ASSUME dropped[s] = 0 PROVE Handed(s)' = Owed(s)'
  <2>1. Handed(s) = Owed(s)
    BY <1>9 DEF Complete
  <2>2. \A i \in 1 .. k : q[i] = from + i
    BY <1>2, <1>4, <1>5, <1>9
  <2>3. \A i \in 1 .. k : Skips(s, q[i]) <=> ~Keeps(s, q[i])
    BY <1>2, <1>6 DEF Skips
  <2>4. \A i \in 1 .. (k - 1) : ~Keeps(s, from + i)
    BY <1>1, <1>2, <2>2, <2>3 DEF q
  <2>5. Handed(s)' = Handed(s) \union (IF Keeps(s, from + k) THEN {from + k} ELSE {})
    <3>1. Handed(s)' = {h[i] : i \in 1 .. Len(h)}
      BY DEF Handed, h
    <3>2. CASE Skips(s, q[k])
      <4>1. h = got[s] /\ ~Keeps(s, from + k)
        BY <1>2, <1>7, <2>2, <2>3, <3>2
      <4>2. Handed(s)' = Handed(s)
        BY <3>1, <4>1 DEF Handed
      <4> QED
        BY <4>1, <4>2
    <3>3. CASE ~Skips(s, q[k])
      <4>1. h = Append(got[s], from + k) /\ Keeps(s, from + k)
        BY <1>2, <1>7, <2>2, <2>3, <3>3
      <4>2. /\ Len(h) = Len(got[s]) + 1 /\ h[Len(got[s]) + 1] = from + k /\ Len(got[s]) \in Nat
            /\ \A i \in 1 .. Len(got[s]) : h[i] = got[s][i]
        BY <1>2, <4>1
      <4>4. \A i : i \in 1 .. Len(h) <=> i \in 1 .. Len(got[s]) \/ i = Len(got[s]) + 1
        BY <4>2
      <4>3. \A x : x \in Handed(s)' <=> x \in Handed(s) \/ x = from + k
        <5>1. \A x : x \in Handed(s)' <=> \E i \in 1 .. Len(h) : x = h[i]
          BY <3>1
        <5>2. \A x : x \in Handed(s) <=> \E i \in 1 .. Len(got[s]) : x = got[s][i]
          BY DEF Handed
        <5> QED
          BY <4>2, <4>4, <5>1, <5>2
      <4> QED
        BY <4>1, <4>3
    <3> QED
      BY <3>2, <3>3
  <2>6. Owed(s)' = {x \in start[s] + 1 .. from + k : Keeps(s, x)}
    BY <1>3, <1>8 DEF Owed, Keeps
  <2>7. Owed(s) = {x \in start[s] + 1 .. from : Keeps(s, x)}
    BY DEF Owed, from
  <2>8. \A x \in Int : x \in start[s] + 1 .. from + k <=>
          x \in start[s] + 1 .. from \/ (\E i \in 1 .. (k - 1) : x = from + i) \/ x = from + k
    <3> TAKE x \in Int
    <3>1. start[s] <= from
      BY <1>2 DEF from
    <3>2. ASSUME x \in from + 1 .. from + k - 1 PROVE \E i \in 1 .. (k - 1) : x = from + i
      <4>1. x - from \in 1 .. (k - 1) /\ x = from + (x - from)
        BY <1>2, <1>4, <3>2
      <4> QED
        BY <4>1
    <3> QED
      BY <1>2, <1>4, <3>1, <3>2
  <2>9. \A x : x \in Owed(s)' <=> x \in Owed(s) \/ (x = from + k /\ Keeps(s, from + k))
    <3>1. \A x : x \in Owed(s) \/ x \in Owed(s)' => x \in Int
      BY <1>2, <1>4, <2>6, <2>7
    <3>2. from + k \in Int
      BY <1>2, <1>4
    <3> QED
      BY <2>4, <2>6, <2>7, <2>8, <3>1, <3>2
  <2> QED
    BY <2>1, <2>5, <2>9
<1> QED
  BY <1>3, <1>8, <1>9 DEF Complete, seq

LEMMA GapStep ==
    TypeOK /\ TypeOK' /\ RingInv /\ AttachInv /\ GuestInv /\ ReaderInv /\ Replay > 0 /\ GapInv
        /\ [Next]_vars => GapInv'
<1> SUFFICES ASSUME TypeOK, TypeOK', RingInv, AttachInv, GuestInv, ReaderInv, Replay > 0, GapInv,
                    [Next]_vars
             PROVE  GapInv'
  OBVIOUS
<1> USE DEF readerVars, inlineVars
<1>1. ASSUME NEW s \in subscribed, UNCHANGED log, ~closed, s \in Readers, dropped'[s] = dropped[s],
             view'[s] = view[s], start'[s] = start[s], taken'[s] = taken[s], got'[s] = got[s]
      PROVE  Complete(s)'
  <2>1. seq \in Nat /\ seq' = seq /\ Complete(s)
    BY <1>1, RingFacts DEF seq, GapInv
  <2> QED
    BY <1>1, <2>1, CompleteUntouched
<1>2. ASSUME UNCHANGED <<log, closed, subscribed, dropped, view, start, taken, got>> PROVE GapInv'
  BY <1>1, <1>2 DEF GapInv, TypeOK
<1>3. ASSUME NEW e \in Event, PublishEvent(e) PROVE GapInv'
  BY <1>3, PublishGap DEF PublishEvent
<1>4. ASSUME NEW q \in Seqs, NEW e \in Event, NestedPublish(q, e) PROVE GapInv'
  <2>1. causes[q] \union {q} \in SUBSET Seqs
    BY DEF TypeOK
  <2> QED
    BY <1>4, <2>1, PublishGap DEF NestedPublish
<1>5. ASSUME NEW q \in Seqs, CallbackReturns(q) \/ PublishCancelled(q) PROVE GapInv'
  BY <1>2, <1>5 DEF CallbackReturns, PublishCancelled
<1>6. ASSUME NEW c \in Callbacks, Register(c) \/ Unregister(c) PROVE GapInv'
  BY <1>2, <1>6 DEF Register, Unregister
<1>7. ASSUME NEW s \in Readers, NEW v \in Runs \union {All}, NEW since \in 0 .. MaxSeq,
             Subscribe(s, v, since)
      PROVE  GapInv'
  <2>1. UNCHANGED <<log, closed, taken, got>> /\ ~closed /\ s \notin subscribed
    BY <1>7 DEF Subscribe
  <2>2. subscribed' = subscribed \union {s} /\ subscribed \subseteq Readers
    BY <1>7 DEF Subscribe, TypeOK
  <2>3. ASSUME NEW r \in subscribed PROVE Complete(r)'
    <3>1. r # s /\ r \in Readers
      BY <2>1, <2>2
    <3>2. dropped'[r] = dropped[r] /\ view'[r] = view[r] /\ start'[r] = start[r]
      BY <1>7, <3>1 DEF Subscribe, TypeOK
    <3> QED
      BY <1>1, <2>1, <3>1, <3>2
  <2>4. Complete(s)'
    <3>1. got'[s] = <<>> /\ taken'[s] = 0 /\ seq' = seq /\ seq \in Nat
      BY <2>1, RingFacts DEF GuestInv, AttachInv, seq
    <3>2. start'[s] \in Nat /\ start'[s] <= seq
      <4>1. start'[s] = IF since < seq THEN since ELSE seq
        BY <1>7 DEF Subscribe, TypeOK
      <4> QED
        BY <3>1, <4>1
    <3>3. Handed(s)' = {}
      BY <3>1 DEF Handed
    <3>4. Owed(s)' = {}
      BY <3>1, <3>2 DEF Owed
    <3> QED
      BY <3>1, <3>2, <3>3, <3>4 DEF Complete
  <2> QED
    BY <2>2, <2>3, <2>4 DEF GapInv
<1>8. ASSUME NEW s \in Readers, SubscribeClosed(s) PROVE GapInv'
  BY <1>8 DEF SubscribeClosed, GapInv
<1>9. ASSUME NEW s \in Readers, Read(s) PROVE GapInv'
  <2> SUFFICES ASSUME NEW r \in subscribed, ~closed PROVE Complete(r)'
    BY <1>9 DEF GapInv, Read
  <2>1. UNCHANGED <<log, view, dropped, subscribed, start>> /\ ~done[s] /\ r \in Readers
    BY <1>9 DEF Read, TypeOK
  <2>2. CASE r # s
    <3>1. taken'[r] = taken[r] /\ got'[r] = got[r]
      BY <1>9, <2>1, <2>2, ReadTypes, ReadIs
    <3> QED
      BY <1>1, <2>1, <3>1
  <2>3. CASE r = s
    <3>1. Live(s) /\ Complete(s)
      BY <2>1, <2>3 DEF GuestInv, Live, GapInv
    <3> QED
      BY <1>9, <2>3, <3>1, ReadGap
  <2> QED
    BY <2>2, <2>3
<1>10. ASSUME NEW s \in Readers, CloseReader(s) PROVE GapInv'
  BY <1>2, <1>10 DEF CloseReader
<1>11. ASSUME Close PROVE GapInv'
  BY <1>11 DEF Close, GapInv
<1>12. CASE UNCHANGED vars
  BY <1>2, <1>12 DEF vars
<1> QED
  BY <1>3, <1>4, <1>5, <1>6, <1>7, <1>8, <1>9, <1>10, <1>11, <1>12 DEF Next

LEMMA GapInit == Init => GapInv
BY DEF Init, GapInv

\* What a reader of an open channel is given is in order and, unless the count
\* of dropped events tells it otherwise, everything its view asks for.  Without
\* a ring what a late reader missed is not counted, so the channel needs one.
THEOREM DeliveryIsTrue == ASSUME Replay > 0 PROVE Spec => []DeliveryTrue
<1>1. GapInv => NoSilentGap
  BY DEF GapInv, Complete, Handed, NoSilentGap
<1>2. OrderInv => DeliveredInOrder
  BY DEF OrderInv, Given, Rising, DeliveredInOrder
<1>3. Init => TypeOK /\ RingInv /\ AttachInv /\ ReaderInv /\ GuestInv /\ OrderInv /\ GapInv
  BY ChannelInit, LossInit, OrderInit, GapInit
<1>4. TypeOK /\ RingInv /\ AttachInv /\ ReaderInv /\ GuestInv /\ OrderInv /\ GapInv /\ [Next]_vars
        => (TypeOK /\ RingInv /\ AttachInv /\ ReaderInv /\ GuestInv /\ OrderInv /\ GapInv)'
  BY ChannelStep, AttachStep, ReaderStep, GuestStep, OrderStep, GapStep
<1> QED
  BY <1>1, <1>2, <1>3, <1>4, PTL DEF Spec, DeliveryTrue

-----------------------------------------------------------------------------
(* One request (RetryStream): what the loop has after each chunk.          *)

Slot == [id : Words, name : Words, args : Seq(Nat)]
SlotMaps == UNION {[D -> Slot] : D \in SUBSET Nat}
Chunks == [choice : BOOLEAN, text : Nat, calls : Seq(Sent), usage : Nat, finish : Nat]

StreamTypes ==
    /\ policy \in Policies /\ left \in SUBSET Nat /\ sleep \in Nat
    /\ attempt \in Nat /\ requests \in Nat
    /\ delivered \in Seq([chunk : Chunks, attempt : Nat])
    /\ acc \in [text : Nat, slots : SlotMaps, usage : Nat, finish : Nat]

\* How far the attempts have come in each phase.
PhaseInv ==
    /\ phase \in {"top", "awaiting", "streaming", "sleeping", "over"}
    /\ (phase = "over") = (outcome # "none")
    /\ phase = "top" => /\ requests = attempt
                        /\ attempt < policy.attempts \/ attempt = 0
    /\ phase \in {"awaiting", "streaming"} => requests = attempt + 1 /\ attempt < policy.attempts
    /\ phase = "sleeping" => requests = attempt + 1 /\ attempt < policy.attempts - 1
    /\ requests <= policy.attempts /\ attempt <= policy.attempts + 1
    /\ outcome = "empty" => requests = 0
    /\ phase \in {"top", "awaiting", "sleeping"} => delivered = <<>>

Indices(parts) == {parts[n].index : n \in DOMAIN parts}

\* The accumulator has a slot for each index, with what the fragments say of it.
Told(parts, slots) ==
    /\ slots \in SlotMaps /\ DOMAIN slots = Indices(parts) /\ IsFiniteSet(DOMAIN slots)
    /\ \A i \in DOMAIN slots :
          SaysName(parts, i, slots[i].name) /\ slots[i].args = SaysArgs(parts, i)

\* An identity is minted, or the provider's own id.
Mints(l, i) == \E m \in 1 .. l.minted : l.ids[i] = <<"call", m>>
Gives(parts, l, i) ==
    \E n \in DOMAIN parts :
        parts[n].index = i /\ parts[n].id # "" /\ l.ids[i] = <<"provider", parts[n].id>>

\* The state of the naming.
Identities == ({"call"} \X Nat) \union ({"provider"} \X Words)
Labels ==
    [ids : UNION {[D -> Identities] : D \in SUBSET Nat}, minted : Nat,
     announced : UNION {[D -> SUBSET Identities] : D \in SUBSET Nat}]

\* Each index has one identity, the one announced, and no two share a minted one.
Known(parts, l) ==
    /\ l \in Labels
    /\ DOMAIN l.ids = Indices(parts) /\ DOMAIN l.announced = Indices(parts)
    /\ \A i \in Indices(parts) :
          l.announced[i] = {l.ids[i]} /\ (Mints(l, i) \/ Gives(parts, l, i))
    /\ \A i, k \in Indices(parts) :
          Mints(l, i) /\ i # k => l.ids[i] # l.ids[k]

\* What the loop has is what was delivered, of this attempt.
ContentInv ==
    /\ OneSource
    /\ acc.text = FoldLeft(Plus, 0, Texts)
    /\ Told(Gathered, acc.slots) /\ Known(Gathered, Loop)

\* An answer is made of what the loop had when the stream ended.
AnswerInv == outcome = "answered" => Named /\ response = Built

\* The invariant of a request.
StreamInv == StreamTypes /\ PhaseInv /\ ContentInv /\ AnswerInv

-----------------------------------------------------------------------------
(* Fragments and folds                                                     *)

\* What the wire may carry are fragments.
LEMMA SentTyped == Sent \subseteq Fragments /\ Seq(Sent) \subseteq Seq(Fragments)
<1>1. \A raw \in RawChunks : raw.calls \in Seq(Fragments)
  BY RetryStreamAssumption DEF Raws
<1>2. \A raw \in RawChunks : \A n \in DOMAIN raw.calls : raw.calls[n] \in Fragments
  BY <1>1
<1>3. Sent \subseteq Fragments
  BY <1>2 DEF Sent
<1> QED
  BY <1>3, SeqMonotonic

Join == INSTANCE ListFacts WITH Step <- Concat
Add == INSTANCE ListFacts WITH Step <- Plus
File == INSTANCE ListFacts WITH Step <- Filed
Name == INSTANCE ListFacts WITH Step <- Identified

\* The folds of this module are those of ListFacts.
LEMMA JoinFolds == \A a, list : FoldLeft(Concat, a, list) = Join!FoldLeft(Concat, a, list)
BY DEF FoldLeft, Join!FoldLeft, MapThenFoldSet, Join!MapThenFoldSet, Max, Join!Max

LEMMA AddFolds == \A a, list : FoldLeft(Plus, a, list) = Add!FoldLeft(Plus, a, list)
BY DEF FoldLeft, Add!FoldLeft, MapThenFoldSet, Add!MapThenFoldSet, Max, Add!Max

LEMMA FileFolds == \A a, list : FoldLeft(Filed, a, list) = File!FoldLeft(Filed, a, list)
BY DEF FoldLeft, File!FoldLeft, MapThenFoldSet, File!MapThenFoldSet, Max, File!Max

LEMMA NameFolds == \A a, list : FoldLeft(Identified, a, list) = Name!FoldLeft(Identified, a, list)
BY DEF FoldLeft, Name!FoldLeft, MapThenFoldSet, Name!MapThenFoldSet, Max, Name!Max

\* All of a list of lists, with one more.
Joined(lists) == FoldLeft(Concat, <<>>, lists)

LEMMA JoinedGrows ==
    ASSUME NEW S, NEW lists \in Seq(Seq(S)), NEW more \in Seq(S)
    PROVE  Joined(lists) \in Seq(S) /\ Joined(Append(lists, more)) = Joined(lists) \o more
<1>1. Join!FoldLeft(Concat, <<>>, Append(lists, more))
        = Concat(Join!FoldLeft(Concat, <<>>, lists), more)
  BY Join!FoldAppend
<1>2. Join!FoldLeft(Concat, <<>>, lists) \in Seq(S)
  <2>1. <<>> \in Seq(S)
    OBVIOUS
  <2>2. ASSUME NEW a \in Seq(S), NEW i \in 1 .. Len(lists) PROVE Concat(a, lists[i]) \in Seq(S)
    <3>1. lists[i] \in Seq(S)
      OBVIOUS
    <3> QED
      BY <3>1, ConcatProperties DEF Concat
  <2> QED
    BY <2>1, <2>2, Join!FoldStays
<1>3. /\ Joined(lists) = Join!FoldLeft(Concat, <<>>, lists)
      /\ Joined(Append(lists, more)) = Join!FoldLeft(Concat, <<>>, Append(lists, more))
  BY JoinFolds DEF Joined
<1> QED
  BY <1>1, <1>2, <1>3 DEF Concat

\* Nothing comes to nothing.
LEMMA JoinedEmpty == Joined(<<>>) = <<>>
<1>1. Join!FoldLeft(Concat, <<>>, <<>>) = <<>>
  BY Join!FoldEmpty
<1> QED
  BY <1>1, JoinFolds DEF Joined

\* All of a list of numbers.
Total(counts) == FoldLeft(Plus, 0, counts)

\* One number more.
LEMMA TotalGrows ==
    ASSUME NEW counts \in Seq(Nat), NEW more \in Nat
    PROVE  Total(Append(counts, more)) = Total(counts) + more
<1>1. Add!FoldLeft(Plus, 0, Append(counts, more)) = Plus(Add!FoldLeft(Plus, 0, counts), more)
  BY Add!FoldAppend
<1>3. /\ Total(counts) = Add!FoldLeft(Plus, 0, counts)
      /\ Total(Append(counts, more)) = Add!FoldLeft(Plus, 0, Append(counts, more))
  BY AddFolds DEF Total
<1> QED
  BY <1>1, <1>3 DEF Plus

\* Nothing adds up to nothing.
LEMMA TotalEmpty == Total(<<>>) = 0
<1>1. Add!FoldLeft(Plus, 0, <<>>) = 0
  BY Add!FoldEmpty
<1> QED
  BY <1>1, AddFolds DEF Total

\* What is said of a list with one item more.
LEMMA ArgsGrow ==
    ASSUME NEW parts \in Seq(Fragments), NEW part \in Fragments, NEW index
    PROVE  /\ SaysArgs(parts, index) \in Seq(Nat)
           /\ SaysArgs(Append(parts, part), index)
                = IF part.index = index THEN SaysArgs(parts, index) \o part.args
                  ELSE SaysArgs(parts, index)
<1> DEFINE Of(p) == IF p.index = index THEN p.args ELSE <<>>
           ArgsIn(list) == [n \in DOMAIN list |-> Of(list[n])]
           more == Append(parts, part)
<1>1. /\ more \in Seq(Fragments) /\ DOMAIN more = 1 .. Len(parts) + 1
      /\ DOMAIN parts = 1 .. Len(parts) /\ Len(parts) \in Nat
      /\ \A n \in 1 .. Len(parts) : more[n] = parts[n] /\ parts[n] \in Fragments
      /\ more[Len(parts) + 1] = part
  BY AppendProperties, LenProperties, ElementOfSeq
<1>2. \A p \in Fragments : Of(p) \in Seq(Nat)
  BY DEF Fragments
<1> HIDE DEF Of, more
<1>3. ArgsIn(parts) \in Seq(Seq(Nat))
  BY <1>1, <1>2
<1>4. ArgsIn(more) = Append(ArgsIn(parts), Of(part))
  <2> DEFINE a == ArgsIn(more)
             b == Append(ArgsIn(parts), Of(part))
  <2>1. Len(ArgsIn(parts)) = Len(parts)
    BY <1>1
  <2>2. b \in Seq(Seq(Nat)) /\ Len(b) = Len(parts) + 1
    BY <1>2, <1>3, <2>1, AppendProperties
  <2>3. a \in Seq(Seq(Nat)) /\ Len(a) = Len(parts) + 1
    <3>1. \A n \in 1 .. Len(parts) + 1 : more[n] \in Fragments
      BY <1>1
    <3>2. a \in [1 .. Len(parts) + 1 -> Seq(Nat)]
      BY <1>1, <1>2, <3>1
    <3> HIDE DEF a
    <3> QED
      BY <3>2, <1>1
  <2>4. ASSUME NEW i \in 1 .. Len(parts) + 1 PROVE a[i] = b[i]
    <3>1. a[i] = Of(more[i])
      BY <1>1
    <3>2. CASE i = Len(parts) + 1
      <4>1. b[i] = Of(part)
        BY <1>2, <1>3, <2>1, <3>2, AppendProperties
      <4> QED
        BY <3>1, <3>2, <4>1, <1>1
    <3>3. CASE i # Len(parts) + 1
      <4>1. i \in 1 .. Len(parts)
        BY <1>1, <3>3
      <4>2. b[i] = ArgsIn(parts)[i]
        <5> HIDE DEF ArgsIn
        <5> QED
          BY <1>2, <1>3, <2>1, <4>1, AppendProperties
      <4>3. ArgsIn(parts)[i] = Of(parts[i])
        BY <1>1, <4>1
      <4> QED
        BY <3>1, <4>1, <4>2, <4>3, <1>1
    <3> QED
      BY <3>2, <3>3
  <2> HIDE DEF a, b
  <2> QED
    <3>1. a = b
      BY <2>2, <2>3, <2>4, SeqEqual
    <3> QED
      BY <3>1 DEF a, b
<1>5. /\ SaysArgs(parts, index) = Joined(ArgsIn(parts))
      /\ SaysArgs(more, index) = Joined(ArgsIn(more))
  BY DEF SaysArgs, Joined, Of
<1>6. Of(part) \in Seq(Nat)
  BY <1>2
<1>7. /\ Joined(ArgsIn(parts)) \in Seq(Nat)
      /\ Joined(Append(ArgsIn(parts), Of(part))) = Joined(ArgsIn(parts)) \o Of(part)
  <2> HIDE DEF ArgsIn
  <2> QED
    BY <1>3, <1>6, JoinedGrows
<1> HIDE DEF ArgsIn
<1>8. SaysArgs(more, index) = SaysArgs(parts, index) \o Of(part)
  BY <1>4, <1>5, <1>7
<1>9. SaysArgs(parts, index) \in Seq(Nat)
  BY <1>5, <1>7
<1>10. SaysArgs(parts, index) \o <<>> = SaysArgs(parts, index)
  BY <1>9, ConcatEmptySeq
<1> QED
  BY <1>8, <1>9, <1>10 DEF Of, more

\* A fragment with a name says it, one without says nothing new.
LEMMA NameSaid ==
    ASSUME NEW parts \in Seq(Fragments), NEW part \in Fragments, NEW index, NEW name,
           SaysName(parts, index, name)
    PROVE  SaysName(Append(parts, part), index,
                    IF part.index = index /\ part.name # "" THEN part.name ELSE name)
<1> DEFINE more == Append(parts, part)
           end == Len(parts) + 1
<1>1. /\ DOMAIN more = 1 .. end /\ DOMAIN parts = 1 .. Len(parts) /\ Len(parts) \in Nat
      /\ \A n \in 1 .. Len(parts) : more[n] = parts[n] /\ n < end /\ n # end /\ n \in 1 .. end
      /\ \A n \in 1 .. end : n <= end /\ (n # end => n \in 1 .. Len(parts))
      /\ more[end] = part /\ end \in 1 .. end
  BY AppendProperties, LenProperties
<1> HIDE DEF more, end
<1>2. CASE part.index = index /\ part.name # ""
  <2>1. end \in Naming(more, index) /\ \A n \in Naming(more, index) : n <= end
    BY <1>1, <1>2 DEF Naming
  <2>2. SaysName(more, index, part.name)
    BY <1>1, <2>1 DEF SaysName
  <2> QED
    BY <1>2, <2>2 DEF more
<1>3. CASE ~(part.index = index /\ part.name # "")
  <2>1. Naming(more, index) = Naming(parts, index)
    BY <1>1, <1>3 DEF Naming
  <2>2. \A n \in Naming(parts, index) : more[n] = parts[n]
    BY <1>1 DEF Naming
  <2>3. SaysName(more, index, name)
    BY <2>1, <2>2 DEF SaysName
  <2> QED
    BY <1>3, <2>3 DEF more
<1> QED
  BY <1>2, <1>3

\* A fragment brings its index.
LEMMA IndicesGrow ==
    ASSUME NEW parts \in Seq(Fragments), NEW part \in Fragments
    PROVE  /\ Indices(Append(parts, part)) = Indices(parts) \union {part.index}
           /\ Indices(parts) \in SUBSET Nat
<1> DEFINE more == Append(parts, part)
           end == Len(parts) + 1
<1>1. /\ DOMAIN more = 1 .. end /\ DOMAIN parts = 1 .. Len(parts) /\ Len(parts) \in Nat
      /\ \A n \in 1 .. Len(parts) : more[n] = parts[n] /\ n \in 1 .. end
      /\ \A n \in 1 .. end : n # end => n \in 1 .. Len(parts)
      /\ more[end] = part /\ end \in 1 .. end
  BY AppendProperties, LenProperties
<1>2. \A n \in 1 .. Len(parts) : parts[n] \in Fragments
  BY ElementOfSeq
<1> HIDE DEF more, end
<1>3. Indices(more) = Indices(parts) \union {part.index}
  BY <1>1 DEF Indices
<1>4. Indices(parts) \in SUBSET Nat
  BY <1>1, <1>2 DEF Indices, Fragments
<1> QED
  BY <1>3, <1>4 DEF more

\* Nothing is said of an index that is in no fragment.
LEMMA NothingSaid ==
    ASSUME NEW parts \in Seq(Fragments), NEW index, index \notin Indices(parts)
    PROVE  SaysArgs(parts, index) = <<>> /\ SaysName(parts, index, "")
<1>1. \A n \in DOMAIN parts : parts[n].index # index
  BY DEF Indices
<1>2. SaysName(parts, index, "")
  BY <1>1 DEF SaysName, Naming
<1> DEFINE all == [n \in DOMAIN parts |-> IF parts[n].index = index THEN parts[n].args ELSE <<>>]
<1>3. all \in Seq({<<>>}) /\ \A i \in 1 .. Len(all) : all[i] = <<>>
  <2>1. DOMAIN parts = 1 .. Len(parts) /\ Len(parts) \in Nat
    BY LenProperties
  <2>2. all \in [1 .. Len(parts) -> {<<>>}]
    BY <1>1, <2>1
  <2> HIDE DEF all
  <2>3. all \in Seq({<<>>})
    BY <2>1, <2>2
  <2> QED
    BY <2>3, ElementOfSeq
<1>4. SaysArgs(parts, index) = FoldLeft(Concat, <<>>, all)
  BY DEF SaysArgs
<1> HIDE DEF all
<1>5. Join!FoldLeft(Concat, <<>>, all) \in {<<>>}
  <2> DEFINE none == <<>>
  <2>1. \A a \in {none}, i \in 1 .. Len(all) : Concat(a, all[i]) \in {none}
    <3>1. none \o none = none
      BY ConcatEmptySeq, EmptySeq
    <3> QED
      BY <1>3, <3>1 DEF Concat
  <2>2. none \in {none} /\ all \in Seq({none})
    BY <1>3
  <2>3. Join!FoldLeft(Concat, none, all) \in {none}
    <3> HIDE DEF none
    <3> QED
      BY <2>1, <2>2, Join!FoldStays
  <2> QED
    BY <2>3
<1> QED
  BY <1>2, <1>4, <1>5, JoinFolds

\* One fragment more is filed in its slot.
LEMMA ToldGrows ==
    ASSUME NEW parts \in Seq(Fragments), NEW part \in Fragments, NEW slots, Told(parts, slots)
    PROVE  Told(Append(parts, part), Filed(slots, part))
<1> DEFINE more == Append(parts, part)
           new == Filed(slots, part)
           old == At(slots, part.index, NoSlot)
<1>1. PICK D \in SUBSET Nat : slots \in [D -> Slot]
  BY DEF Told, SlotMaps
<1>2. DOMAIN slots = Indices(parts) /\ IsFiniteSet(DOMAIN slots)
  BY DEF Told
<1>3. /\ part.index \in Nat /\ part.id \in Words /\ part.name \in Words
      /\ part.args \in Seq(Nat)
  BY DEF Fragments
<1>4. /\ old \in Slot /\ SaysName(parts, part.index, old.name)
      /\ old.args = SaysArgs(parts, part.index)
  <2>1. CASE part.index \in DOMAIN slots
    BY <1>1, <2>1 DEF Told, At
  <2>2. CASE part.index \notin DOMAIN slots
    <3>1. old = NoSlot
      BY <2>2 DEF At
    <3>2. NoSlot \in Slot /\ NoSlot.name = "" /\ NoSlot.args = <<>>
      <4>1. <<>> \in Seq(Nat)
        OBVIOUS
      <4>2. "" \in Words
        BY RetryStreamAssumption
      <4> QED
        BY <4>1, <4>2 DEF NoSlot, Slot
    <3> QED
      BY <1>2, <2>2, <3>1, <3>2, NothingSaid
  <2> QED
    BY <2>1, <2>2
<1>5. /\ DOMAIN new = DOMAIN slots \union {part.index}
      /\ new[part.index] = Slotted(old, part)
      /\ \A i \in DOMAIN slots : i # part.index => new[i] = slots[i]
      /\ new = [i \in DOMAIN new |-> new[i]]
  BY DEF Filed, With
<1> HIDE DEF new, old
<1>6. /\ Slotted(old, part) \in Slot
      /\ Slotted(old, part).args = old.args \o part.args
      /\ Slotted(old, part).name = IF part.name # "" THEN part.name ELSE old.name
  <2>1. old.args \o part.args \in Seq(Nat)
    BY <1>3, <1>4, ConcatProperties DEF Slot
  <2> QED
    BY <1>3, <1>4, <2>1 DEF Slotted, Slot
<1>7. DOMAIN new = Indices(more) /\ IsFiniteSet(DOMAIN new) /\ DOMAIN new \in SUBSET Nat
  <2>1. IsFiniteSet(DOMAIN slots \union {part.index})
    BY <1>2, FS_AddElement
  <2>2. /\ Indices(more) = Indices(parts) \union {part.index}
        /\ Indices(parts) \in SUBSET Nat
    BY IndicesGrow
  <2> HIDE DEF more
  <2> QED
    BY <1>2, <1>3, <1>5, <2>1, <2>2
<1>8. ASSUME NEW i \in DOMAIN new
      PROVE  new[i] \in Slot /\ SaysName(more, i, new[i].name) /\ new[i].args = SaysArgs(more, i)
  <2>1. CASE i = part.index
    <3>1. SaysName(more, i, IF part.name # "" THEN part.name ELSE old.name)
      BY <1>4, <2>1, NameSaid
    <3>2. SaysArgs(more, i) = SaysArgs(parts, i) \o part.args
      BY <2>1, ArgsGrow
    <3> HIDE DEF more
    <3> QED
      BY <1>4, <1>5, <1>6, <2>1, <3>1, <3>2
  <2>2. CASE i # part.index
    <3>1. i \in DOMAIN slots /\ new[i] = slots[i]
      BY <1>5, <2>2
    <3>2. slots[i] \in Slot /\ SaysName(parts, i, slots[i].name) /\ slots[i].args = SaysArgs(parts, i)
      BY <1>1, <3>1 DEF Told
    <3>3. SaysName(more, i, slots[i].name)
      BY <2>2, <3>2, NameSaid
    <3>4. SaysArgs(more, i) = SaysArgs(parts, i)
      BY <2>2, ArgsGrow
    <3> HIDE DEF more
    <3> QED
      BY <3>1, <3>2, <3>3, <3>4
  <2> QED
    BY <2>1, <2>2
<1>9. new \in SlotMaps
  <2>1. new \in [DOMAIN new -> Slot]
    BY <1>5, <1>8
  <2> QED
    BY <1>7, <2>1 DEF SlotMaps
<1> HIDE DEF more
<1>10. Told(more, new)
  BY <1>7, <1>8, <1>9 DEF Told
<1> QED
  BY <1>10 DEF more, new

\* What an identity can be; a minted one is unlike any given one.
LEMMA MintedApart ==
    ASSUME NEW m, NEW k, NEW x
    PROVE  <<"call", m>> # <<"provider", x>> /\ (<<"call", m>> = <<"call", k>> => m = k)
<1>1. <<"call", m>>[1] = "call" /\ <<"provider", x>>[1] = "provider"
  OBVIOUS
<1>2. <<"call", m>>[2] = m /\ <<"call", k>>[2] = k
  OBVIOUS
<1> QED
  BY <1>1, <1>2

\* An id that was given stays so while fragments arrive.
LEMMA GivesStays ==
    ASSUME NEW parts \in Seq(Fragments), NEW part \in Fragments, NEW l, NEW new, NEW i,
           Gives(parts, l, i), new.ids[i] = l.ids[i]
    PROVE  Gives(Append(parts, part), new, i)
<1> DEFINE more == Append(parts, part)
<1>1. /\ DOMAIN more = 1 .. Len(parts) + 1 /\ DOMAIN parts = 1 .. Len(parts) /\ Len(parts) \in Nat
      /\ \A n \in 1 .. Len(parts) : more[n] = parts[n] /\ n \in 1 .. Len(parts) + 1
  BY AppendProperties, LenProperties
<1> HIDE DEF more
<1>2. Gives(more, new, i)
  BY <1>1 DEF Gives
<1> QED
  BY <1>2 DEF more

\* A function to which a value is added.
LEMMA WithTyped ==
    ASSUME NEW S, NEW map \in UNION {[D -> S] : D \in SUBSET Nat}, NEW key \in Nat,
           NEW value \in S
    PROVE  With(map, key, value) \in UNION {[D -> S] : D \in SUBSET Nat}
<1>1. PICK D \in SUBSET Nat : map \in [D -> S]
  OBVIOUS
<1>2. With(map, key, value) \in [D \union {key} -> S]
  BY <1>1 DEF With
<1> QED
  BY <1>1, <1>2

\* Naming keeps its state in type.
LEMMA LabelsGrow ==
    ASSUME NEW l \in Labels, NEW part \in Fragments, DOMAIN l.announced = DOMAIN l.ids
    PROVE  Identified(l, part) \in Labels
<1> DEFINE x == part.index
           value == IF part.id = "" THEN <<"call", l.minted + 1>> ELSE <<"provider", part.id>>
           ids == IF x \in DOMAIN l.ids THEN l.ids ELSE With(l.ids, x, value)
           was == At(l.announced, x, {})
           minted2 == IF x \in DOMAIN l.ids THEN l.minted ELSE l.minted + 1
<1>1. /\ x \in Nat /\ l.minted \in Nat
      /\ l.ids \in UNION {[D -> Identities] : D \in SUBSET Nat}
      /\ l.announced \in UNION {[D -> SUBSET Identities] : D \in SUBSET Nat}
  BY DEF Labels, Fragments
<1>2. value \in Identities
  <2>1. part.id \in Words /\ l.minted + 1 \in Nat
    BY <1>1 DEF Fragments
  <2> QED
    BY <2>1 DEF Identities
<1> HIDE DEF value
<1>3. ids \in UNION {[D -> Identities] : D \in SUBSET Nat} /\ ids[x] \in Identities
  <2>1. CASE x \in DOMAIN l.ids
    BY <1>1, <2>1
  <2>2. CASE x \notin DOMAIN l.ids
    <3>1. With(l.ids, x, value) \in UNION {[D -> Identities] : D \in SUBSET Nat}
      BY <1>1, <1>2, WithTyped
    <3>2. With(l.ids, x, value)[x] = value
      BY DEF With
    <3> QED
      BY <1>2, <2>2, <3>1, <3>2
  <2> QED
    BY <2>1, <2>2
<1>4. was \in SUBSET Identities
  <2>1. CASE x \in DOMAIN l.announced
    BY <1>1, <2>1 DEF At
  <2>2. CASE x \notin DOMAIN l.announced
    BY <2>2 DEF At
  <2> QED
    BY <2>1, <2>2
<1>5. Identified(l, part)
        = [ids |-> ids, minted |-> minted2, announced |-> With(l.announced, x, was \union {ids[x]})]
  BY DEF Identified, value
<1> HIDE DEF ids, was
<1>6. With(l.announced, x, was \union {ids[x]}) \in UNION {[D -> SUBSET Identities] : D \in SUBSET Nat}
  <2>1. was \union {ids[x]} \in SUBSET Identities
    BY <1>3, <1>4
  <2> QED
    BY <1>1, <2>1, WithTyped
<1>7. minted2 \in Nat
  BY <1>1
<1> DEFINE announced2 == With(l.announced, x, was \union {ids[x]})
<1> HIDE DEF announced2, minted2
<1>8. [ids |-> ids, minted |-> minted2, announced |-> announced2] \in Labels
  BY <1>3, <1>6, <1>7 DEF Labels, announced2
<1> QED
  BY <1>5, <1>8 DEF announced2

\* The first fragment of an index names the call, the others find its name.
LEMMA KnownGrows ==
    ASSUME NEW parts \in Seq(Fragments), NEW part \in Fragments, NEW l, Known(parts, l)
    PROVE  Known(Append(parts, part), Identified(l, part))
<1> DEFINE more == Append(parts, part)
           x == part.index
           new == Identified(l, part)
           value == IF part.id = "" THEN <<"call", l.minted + 1>> ELSE <<"provider", part.id>>
           I == Indices(parts)
<1>1. /\ l \in Labels /\ l.minted \in Nat /\ DOMAIN l.ids = I /\ DOMAIN l.announced = I
      /\ \A i \in I : l.announced[i] = {l.ids[i]} /\ (Mints(l, i) \/ Gives(parts, l, i))
      /\ \A i, k \in I : Mints(l, i) /\ i # k => l.ids[i] # l.ids[k]
  BY DEF Known, Labels
<1>2. Indices(more) = I \union {x} /\ I \in SUBSET Nat /\ x \in Nat
  BY IndicesGrow DEF Fragments
<1> HIDE DEF new, more
<1>5. new \in Labels
  BY <1>1, <1>2, LabelsGrow DEF new
<1>3. CASE x \in I
  <2>1. /\ new.ids = l.ids /\ new.minted = l.minted
        /\ new.announced = With(l.announced, x, At(l.announced, x, {}) \union {l.ids[x]})
    BY <1>1, <1>3 DEF Identified, new
  <2>2. At(l.announced, x, {}) = {l.ids[x]}
    BY <1>1, <1>3 DEF At
  <2>3. /\ DOMAIN new.announced = I
        /\ \A i \in I : new.announced[i] = {l.ids[i]}
    BY <1>1, <1>3, <2>1, <2>2 DEF With
  <2>4. \A i \in I : (Mints(new, i) <=> Mints(l, i)) /\ (Gives(parts, l, i) => Gives(more, new, i))
    BY <2>1, GivesStays DEF Mints, more
  <2>5. Indices(more) = I
    BY <1>2, <1>3
  <2> HIDE DEF new, I, more
  <2>6. Known(more, new)
    BY <1>1, <1>5, <2>1, <2>3, <2>4, <2>5 DEF Known
  <2> QED
    BY <2>6 DEF new, more
<1>4. CASE x \notin I
  <2>1. /\ new.ids = With(l.ids, x, value) /\ new.minted = l.minted + 1
        /\ new.announced = With(l.announced, x, At(l.announced, x, {}) \union {new.ids[x]})
    BY <1>1, <1>4 DEF Identified, new
  <2>2. At(l.announced, x, {}) = {}
    BY <1>1, <1>4 DEF At
  <2>3. /\ DOMAIN new.ids = I \union {x} /\ new.ids[x] = value
        /\ \A i \in I : new.ids[i] = l.ids[i]
    BY <1>1, <1>4, <2>1 DEF With
  <2>4. /\ DOMAIN new.announced = I \union {x} /\ new.announced[x] = {value}
        /\ \A i \in I : new.announced[i] = {l.ids[i]}
    BY <1>1, <1>4, <2>1, <2>2, <2>3 DEF With
  <2> HIDE DEF new, I
  <2>5. /\ new.minted \in Nat /\ l.minted < new.minted
        /\ \A m \in 1 .. l.minted : m \in 1 .. new.minted
        /\ l.minted + 1 \in 1 .. new.minted
    <3> DEFINE k == l.minted
               n == new.minted
    <3>1. k \in Nat /\ n = k + 1
      BY <1>1, <2>1
    <3> HIDE DEF k, n
    <3>2. /\ n \in Nat /\ k < n /\ (\A m \in 1 .. k : m \in 1 .. n) /\ k + 1 \in 1 .. n
      BY <3>1
    <3> QED
      BY <3>2 DEF k, n
  <2>6. \A i \in I : Mints(l, i) \/ Gives(more, new, i)
    BY <1>1, <2>3, GivesStays DEF more
  <2>7. \A i \in I : Mints(l, i) => Mints(new, i)
    BY <2>3, <2>5 DEF Mints
  <2>8. Mints(new, x) \/ Gives(more, new, x)
    <3>1. CASE part.id = ""
      BY <2>3, <2>5, <3>1 DEF Mints
    <3>2. CASE part.id # ""
      <4>1. Len(parts) + 1 \in DOMAIN more /\ more[Len(parts) + 1] = part
        BY AppendProperties, LenProperties DEF more
      <4>2. new.ids[x] = <<"provider", part.id>>
        BY <2>3, <3>2
      <4> HIDE DEF more
      <4> QED
        BY <3>2, <4>1, <4>2 DEF Gives
    <3> QED
      BY <3>1, <3>2
  <2>9. ASSUME NEW i \in I, Mints(new, i) PROVE Mints(l, i)
    <3>1. PICK m \in 1 .. new.minted : l.ids[i] = <<"call", m>>
      BY <2>3, <2>9 DEF Mints
    <3>2. CASE Mints(l, i)
      BY <3>2
    <3>3. CASE Gives(parts, l, i)
      <4>1. PICK n \in DOMAIN parts : l.ids[i] = <<"provider", parts[n].id>>
        BY <3>3 DEF Gives
      <4> QED
        BY <3>1, <4>1, MintedApart
    <3> QED
      BY <1>1, <3>2, <3>3
  <2>10. ASSUME NEW i \in I PROVE l.ids[i] # value \/ (~Mints(l, i) /\ ~Mints(new, x))
    <3>1. CASE Mints(l, i)
      <4>1. PICK m \in 1 .. l.minted : l.ids[i] = <<"call", m>>
        BY <3>1 DEF Mints
      <4>2. m # l.minted + 1
        BY <1>1, <4>1
      <4> QED
        BY <4>1, <4>2, MintedApart
    <3>2. CASE ~Mints(l, i) /\ part.id = ""
      <4>1. PICK n \in DOMAIN parts : l.ids[i] = <<"provider", parts[n].id>>
        BY <1>1, <3>2 DEF Gives
      <4> QED
        BY <3>2, <4>1, MintedApart
    <3>3. CASE ~Mints(l, i) /\ part.id # ""
      <4>1. ~Mints(new, x)
        BY <2>3, <3>3, MintedApart DEF Mints
      <4> QED
        BY <3>3, <4>1
    <3> QED
      BY <3>1, <3>2, <3>3
  <2>11. \A i, k \in I \union {x} : Mints(new, i) /\ i # k => new.ids[i] # new.ids[k]
    <3> HIDE DEF value
    <3> SUFFICES ASSUME NEW i \in I \union {x}, NEW k \in I \union {x}, Mints(new, i), i # k
                 PROVE  new.ids[i] # new.ids[k]
      OBVIOUS
    <3>1. CASE i \in I /\ k \in I
      BY <1>1, <2>3, <2>9, <3>1
    <3>2. CASE i \in I /\ k = x
      BY <2>3, <2>9, <2>10, <3>2
    <3>3. CASE i = x /\ k \in I
      BY <2>3, <2>10, <3>3
    <3> QED
      BY <3>1, <3>2, <3>3
  <2>12. \A i \in I \union {x} :
             new.announced[i] = {new.ids[i]} /\ (Mints(new, i) \/ Gives(more, new, i))
    <3> HIDE DEF value, more
    <3> QED
      BY <2>3, <2>4, <2>6, <2>7, <2>8
  <2> HIDE DEF more, value
  <2>13. Known(more, new)
    BY <1>2, <1>5, <2>3, <2>4, <2>11, <2>12 DEF Known, I
  <2> QED
    BY <2>13 DEF new, more
<1> QED
  BY <1>3, <1>4

\* Nothing was delivered, nothing is known.
LEMMA NothingKnown ==
    /\ Told(<<>>, <<>>)
    /\ Known(<<>>, [ids |-> <<>>, minted |-> 0, announced |-> <<>>])
<1>1. Indices(<<>>) = {}
  BY DEF Indices
<1>2. DOMAIN <<>> = {} /\ IsFiniteSet({})
  BY FS_EmptySet
<1>3. <<>> \in SlotMaps
  <2>1. <<>> \in [{} -> Slot]
    OBVIOUS
  <2> QED
    BY <2>1 DEF SlotMaps
<1>4. [ids |-> <<>>, minted |-> 0, announced |-> <<>>] \in Labels
  <2>1. <<>> \in [{} -> Identities] /\ <<>> \in [{} -> SUBSET Identities]
    OBVIOUS
  <2> QED
    BY <2>1 DEF Labels
<1> QED
  BY <1>1, <1>2, <1>3, <1>4 DEF Told, Known

\* What the fragments of one chunk make of the slots and of the identities.
LEMMA ToldFold ==
    ASSUME NEW parts \in Seq(Sent), NEW calls \in Seq(Sent), NEW slots, Told(parts, slots)
    PROVE  Told(parts \o calls, FoldLeft(Filed, slots, calls))
<1> DEFINE R == {pair \in Seq(Sent) \X SlotMaps : Told(pair[1], pair[2])}
<1>1. Sent \subseteq Fragments /\ Seq(Sent) \subseteq Seq(Fragments)
  BY SentTyped
<1>2. \A s, a : <<s, a>> \in R <=> (s \in Seq(Sent) /\ Told(s, a))
  BY DEF Told
<1> HIDE DEF R
<1>3. ASSUME NEW s \in Seq(Sent), NEW item \in Sent, NEW a, <<s, a>> \in R
      PROVE  <<Append(s, item), Filed(a, item)>> \in R
  <2>1. Told(Append(s, item), Filed(a, item))
    BY <1>1, <1>2, <1>3, ToldGrows
  <2>2. Append(s, item) \in Seq(Sent)
    BY AppendProperties
  <2> QED
    BY <1>2, <2>1, <2>2
<1>4. <<parts, slots>> \in R
  BY <1>2
<1>5. <<parts \o calls, File!FoldLeft(Filed, slots, calls)>> \in R
  BY <1>3, <1>4, File!FoldTracks
<1> QED
  BY <1>2, <1>5, FileFolds

\* The same of the identities.
LEMMA KnownFold ==
    ASSUME NEW parts \in Seq(Sent), NEW calls \in Seq(Sent), NEW l, Known(parts, l)
    PROVE  Known(parts \o calls, FoldLeft(Identified, l, calls))
<1> DEFINE R == {pair \in Seq(Sent) \X Labels : Known(pair[1], pair[2])}
<1>1. Sent \subseteq Fragments /\ Seq(Sent) \subseteq Seq(Fragments)
  BY SentTyped
<1>2. \A s, a : <<s, a>> \in R <=> (s \in Seq(Sent) /\ Known(s, a))
  BY DEF Known
<1> HIDE DEF R
<1>3. ASSUME NEW s \in Seq(Sent), NEW item \in Sent, NEW a, <<s, a>> \in R
      PROVE  <<Append(s, item), Identified(a, item)>> \in R
  <2>1. Known(Append(s, item), Identified(a, item))
    BY <1>1, <1>2, <1>3, KnownGrows
  <2>2. Append(s, item) \in Seq(Sent)
    BY AppendProperties
  <2> QED
    BY <1>2, <2>1, <2>2
<1>4. <<parts, l>> \in R
  BY <1>2
<1>5. <<parts \o calls, Name!FoldLeft(Identified, l, calls)>> \in R
  BY <1>3, <1>4, Name!FoldTracks
<1> QED
  BY <1>2, <1>5, NameFolds

\* The text and the fragments of some chunks, and of one more.
Deliveries == [chunk : Chunks, attempt : Nat]
TextIn(list) == Total([n \in DOMAIN list |-> list[n].chunk.text])
CallsIn(list) == Joined([n \in DOMAIN list |-> list[n].chunk.calls])

LEMMA DeliveryGrows ==
    ASSUME NEW list \in Seq(Deliveries), NEW item \in Deliveries
    PROVE  /\ TextIn(Append(list, item)) = TextIn(list) + item.chunk.text
           /\ CallsIn(list) \in Seq(Sent)
           /\ CallsIn(Append(list, item)) = CallsIn(list) \o item.chunk.calls
<1> DEFINE more == Append(list, item)
           k == Len(list)
           Texts1(s) == [n \in DOMAIN s |-> s[n].chunk.text]
           Calls1(s) == [n \in DOMAIN s |-> s[n].chunk.calls]
<1>1. /\ more \in Seq(Deliveries) /\ DOMAIN more = 1 .. k + 1
      /\ DOMAIN list = 1 .. k /\ k \in Nat
      /\ \A n \in 1 .. k : more[n] = list[n] /\ list[n] \in Deliveries
      /\ more[k + 1] = item
  BY AppendProperties, LenProperties, ElementOfSeq
<1>2. \A d \in Deliveries : d.chunk.text \in Nat /\ d.chunk.calls \in Seq(Sent)
  BY DEF Deliveries, Chunks
<1> HIDE DEF more, k
<1>3. \A n \in 1 .. k + 1 : more[n] \in Deliveries /\ (n # k + 1 => n \in 1 .. k)
  BY <1>1
<1>4. Texts1(list) \in Seq(Nat) /\ Texts1(more) = Append(Texts1(list), item.chunk.text)
  <2> DEFINE s == Texts1(list)
             t == Texts1(more)
             x == item.chunk.text
  <2>1. s \in [1 .. k -> Nat] /\ t \in [1 .. k + 1 -> Nat] /\ x \in Nat
    BY <1>1, <1>2, <1>3
  <2>2. t[k + 1] = x /\ \A n \in 1 .. k : t[n] = s[n]
    BY <1>1
  <2> HIDE DEF s, t, x
  <2>3. s \in Seq(Nat) /\ t \in Seq(Nat) /\ Len(s) = k /\ Len(t) = k + 1
    BY <1>1, <2>1
  <2>4. Append(s, x) \in Seq(Nat) /\ Len(Append(s, x)) = k + 1
    BY <2>1, <2>3, AppendProperties
  <2>5. \A n \in 1 .. k + 1 : t[n] = Append(s, x)[n]
    BY <1>3, <2>1, <2>2, <2>3, AppendProperties
  <2>6. t = Append(s, x)
    BY <2>3, <2>4, <2>5, SeqEqual
  <2> QED
    BY <2>3, <2>6 DEF s, t, x
<1>5. Calls1(list) \in Seq(Seq(Sent)) /\ Calls1(more) = Append(Calls1(list), item.chunk.calls)
  <2> DEFINE s == Calls1(list)
             t == Calls1(more)
             x == item.chunk.calls
  <2>1. s \in [1 .. k -> Seq(Sent)] /\ t \in [1 .. k + 1 -> Seq(Sent)] /\ x \in Seq(Sent)
    BY <1>1, <1>2, <1>3
  <2>2. t[k + 1] = x /\ \A n \in 1 .. k : t[n] = s[n]
    BY <1>1
  <2> HIDE DEF s, t, x
  <2>3. s \in Seq(Seq(Sent)) /\ t \in Seq(Seq(Sent)) /\ Len(s) = k /\ Len(t) = k + 1
    BY <1>1, <2>1
  <2>4. Append(s, x) \in Seq(Seq(Sent)) /\ Len(Append(s, x)) = k + 1
    BY <2>1, <2>3, AppendProperties
  <2>5. \A n \in 1 .. k + 1 : t[n] = Append(s, x)[n]
    BY <1>3, <2>1, <2>2, <2>3, AppendProperties
  <2>6. t = Append(s, x)
    BY <2>3, <2>4, <2>5, SeqEqual
  <2> QED
    BY <2>3, <2>6 DEF s, t, x
<1>6. item.chunk.text \in Nat /\ item.chunk.calls \in Seq(Sent)
  BY <1>2
<1>7. /\ TextIn(list) = Total(Texts1(list)) /\ TextIn(more) = Total(Texts1(more))
      /\ CallsIn(list) = Joined(Calls1(list)) /\ CallsIn(more) = Joined(Calls1(more))
  BY DEF TextIn, CallsIn
<1> HIDE DEF Texts1, Calls1
<1>8. Total(Append(Texts1(list), item.chunk.text)) = Total(Texts1(list)) + item.chunk.text
  BY <1>4, <1>6, TotalGrows
<1>9. /\ Joined(Calls1(list)) \in Seq(Sent)
      /\ Joined(Append(Calls1(list), item.chunk.calls)) = Joined(Calls1(list)) \o item.chunk.calls
  BY <1>5, <1>6, JoinedGrows
<1> QED
  BY <1>4, <1>5, <1>7, <1>8, <1>9 DEF more

\* Before anything was delivered there is no text and no fragment.
LEMMA NothingIn == TextIn(<<>>) = 0 /\ CallsIn(<<>>) = <<>>
<1>1. [n \in DOMAIN <<>> |-> <<>>[n].chunk.text] = <<>>
  OBVIOUS
<1>2. [n \in DOMAIN <<>> |-> <<>>[n].chunk.calls] = <<>>
  OBVIOUS
<1> QED
  BY <1>1, <1>2, TotalEmpty, JoinedEmpty DEF TextIn, CallsIn

\* A chunk is what the wire carried, or its usage alone.
LEMMA ChunkTyped ==
    ASSUME NEW raw \in RawChunks, NEW chunk \in Chunk(raw)
    PROVE  chunk \in Chunks
<1>1. raw \in Raws
  BY RetryStreamAssumption
<1>2. raw.calls \in Seq(Sent)
  <2>1. raw.calls \in Seq(Fragments) /\ \A n \in DOMAIN raw.calls : raw.calls[n] \in Sent
    BY <1>1 DEF Raws, Sent
  <2> DEFINE calls == raw.calls
  <2> HIDE DEF calls
  <2>2. calls \in [1 .. Len(calls) -> Sent] /\ Len(calls) \in Nat
    BY <2>1, LenProperties DEF calls
  <2>3. calls \in Seq(Sent)
    BY <2>2
  <2> QED
    BY <2>3 DEF calls
<1>3. chunk = raw \/ chunk = [raw EXCEPT !.text = 0, !.calls = <<>>, !.finish = 0]
  BY DEF Chunk
<1>4. raw \in Chunks
  BY <1>1, <1>2 DEF Raws, Chunks
<1>5. <<>> \in Seq(Sent)
  OBVIOUS
<1>6. [raw EXCEPT !.text = 0, !.calls = <<>>, !.finish = 0] \in Chunks
  BY <1>4, <1>5 DEF Chunks
<1> QED
  BY <1>3, <1>4, <1>6

\* A delay is a number of ticks.
LEMMA DelayTyped ==
    ASSUME NEW p \in Policies, NEW n \in Nat, NEW header \in Headers
    PROVE  Delays(p, n, header) \subseteq Nat
<1>1. p.base \in Nat /\ p.cap \in Nat /\ p.jitter \in Nat /\ header.value \in Int
  BY RetryStreamAssumption
<1>2. 2 ^ n \in Nat
  <2>1. 1 \in Int /\ n \in Int
    OBVIOUS
  <2>2. IsFiniteSet(1 .. n) /\ Cardinality(1 .. n) = IF 1 > n THEN 0 ELSE n - 1 + 1
    BY ONLY <2>1, FS_Interval
  <2>3. Cardinality(1 .. n) = n
    BY <2>2
  <2>4. IsFiniteSet(SUBSET (1 .. n)) /\ Cardinality(SUBSET (1 .. n)) = 2 ^ Cardinality(1 .. n)
    BY <2>2, FS_SUBSET
  <2>5. Cardinality(SUBSET (1 .. n)) \in Nat
    BY <2>4, FS_CardinalityType
  <2> QED
    BY <2>3, <2>4, <2>5
<1> DEFINE power == 2 ^ n
<1> HIDE DEF power
<1>3. \A j \in 0 .. p.jitter : AtMost(p.base * power + j, p.cap) \in Nat
  <2>1. p.base * power \in Nat
    BY <1>1, <1>2 DEF power
  <2> DEFINE q == p.base * power
  <2> HIDE DEF q
  <2>2. \A j \in 0 .. p.jitter : AtMost(q + j, p.cap) \in Nat
    BY <1>1, <2>1 DEF AtMost, q
  <2> QED
    BY <2>2 DEF q
<1>4. AtLeast(header.value, 0) \in Nat
  BY <1>1 DEF AtLeast
<1> QED
  BY <1>3, <1>4 DEF Delays, power

\* What the properties call gathered is what the lemmas call it.
LEMMA GatheredIs ==
    ASSUME delivered \in Seq(Deliveries)
    PROVE  /\ Gathered \in Seq(Sent) /\ Gathered = CallsIn(delivered)
           /\ FoldLeft(Plus, 0, Texts) = TextIn(delivered)
<1>1. Gathered = CallsIn(delivered) /\ FoldLeft(Plus, 0, Texts) = TextIn(delivered)
  BY DEF Gathered, Texts, CallsIn, TextIn, Joined, Total
<1>2. CallsIn(delivered) \in Seq(Sent)
  <2> DEFINE calls == [n \in DOMAIN delivered |-> delivered[n].chunk.calls]
  <2>1. \A n \in 1 .. Len(delivered) : delivered[n].chunk.calls \in Seq(Sent)
    <3>1. \A n \in 1 .. Len(delivered) : delivered[n] \in Deliveries
      BY ElementOfSeq
    <3> QED
      BY <3>1 DEF Deliveries, Chunks
  <2>2. Len(delivered) \in Nat /\ DOMAIN delivered = 1 .. Len(delivered)
    BY LenProperties
  <2>3. calls \in [1 .. Len(delivered) -> Seq(Sent)]
    BY <2>1, <2>2
  <2> HIDE DEF calls
  <2>4. calls \in Seq(Seq(Sent)) /\ <<>> \in Seq(Sent)
    BY <2>2, <2>3
  <2>5. Joined(calls) \in Seq(Sent)
    BY <2>4, JoinedGrows
  <2> QED
    BY <2>5 DEF CallsIn, calls
<1> QED
  BY <1>1, <1>2

-----------------------------------------------------------------------------
(* The steps of a request                                                  *)

\* The invariant holds before the first request.
LEMMA StreamStart == StreamInit => StreamInv
<1> SUFFICES ASSUME StreamInit PROVE StreamInv
  OBVIOUS
<1>1. /\ policy \in Policies /\ left \in Budgets
      /\ phase = "top" /\ attempt = 0 /\ sleep = 0
      /\ acc = Empty /\ callIds = <<>> /\ minted = 0
      /\ outcome = "none" /\ delivered = <<>> /\ announced = <<>> /\ requests = 0
  BY DEF StreamInit
<1>2. policy.attempts \in Nat /\ left \in SUBSET Nat
  BY <1>1, RetryStreamAssumption
<1>3. StreamTypes
  <2>1. Empty \in [text : Nat, slots : SlotMaps, usage : Nat, finish : Nat]
    BY NothingKnown DEF Empty, Told
  <2>2. <<>> \in Seq([chunk : Chunks, attempt : Nat])
    OBVIOUS
  <2> QED
    BY <1>1, <1>2, <2>1, <2>2 DEF StreamTypes
<1>4. PhaseInv
  BY <1>1, <1>2 DEF PhaseInv
<1>5. ContentInv
  <2>1. OneSource
    BY <1>1 DEF OneSource
  <2>2. Gathered = <<>> /\ FoldLeft(Plus, 0, Texts) = 0
    BY <1>1, NothingIn DEF Gathered, Texts, TextIn, CallsIn, Joined, Total
  <2>3. acc.text = 0 /\ acc.slots = <<>>
    BY <1>1 DEF Empty
  <2>4. Loop = [ids |-> <<>>, minted |-> 0, announced |-> <<>>]
    BY <1>1 DEF Loop
  <2> QED
    BY <2>1, <2>2, <2>3, <2>4, NothingKnown DEF ContentInv
<1>6. AnswerInv
  BY <1>1 DEF AnswerInv
<1> QED
  BY <1>3, <1>4, <1>5, <1>6 DEF StreamInv

\* A failure is the end of it or a back-off with an attempt to come.
LEMMA FailureIs ==
    ASSUME Failure, StreamTypes
    PROVE  /\ phase = "awaiting" /\ sleep' \in Nat
           /\ UNCHANGED <<policy, left, attempt, raws, response, requests, loop>>
           /\ \/ phase' = "over" /\ outcome' \in {"failed", "deadline"}
              \/ phase' = "sleeping" /\ outcome' = outcome /\ attempt < policy.attempts - 1
<1>1. PICK retriable \in BOOLEAN, header \in Headers : Fails(retriable, header)
  BY DEF Failure
<1>2. policy \in Policies /\ attempt \in Nat /\ sleep \in Nat /\ policy.attempts \in Nat
  BY RetryStreamAssumption DEF StreamTypes
<1>3. Delays(policy, attempt, header) \subseteq Nat
  BY <1>2, DelayTyped
<1>4. ~GivesUp(retriable) => attempt < policy.attempts - 1
  BY <1>2 DEF GivesUp
<1> QED
  BY <1>1, <1>2, <1>3, <1>4 DEF Fails, Settle

\* What every step keeps in type.
LEMMA StreamTypesStep ==
    ASSUME StreamTypes, ContentInv, [StreamNext]_streamVars
    PROVE  StreamTypes'
<1>1. /\ policy \in Policies /\ left \in SUBSET Nat /\ sleep \in Nat
      /\ attempt \in Nat /\ requests \in Nat /\ policy.attempts \in Nat
      /\ delivered \in Seq([chunk : Chunks, attempt : Nat])
      /\ acc \in [text : Nat, slots : SlotMaps, usage : Nat, finish : Nat]
  BY RetryStreamAssumption DEF StreamTypes
<1>2. ASSUME UNCHANGED <<policy, left, loop>>, sleep' \in Nat, attempt' \in Nat, requests' \in Nat
      PROVE  StreamTypes'
  BY <1>1, <1>2 DEF StreamTypes, loop
<1>3. CASE Request
  <2>1. requests' \in Nat
    BY <1>1, <1>3 DEF Request
  <2> QED
    BY <1>1, <1>2, <1>3, <2>1 DEF Request
<1>4. CASE Failure
  BY <1>1, <1>2, <1>4, FailureIs
<1>5. CASE Wakes
  BY <1>1, <1>2, <1>5 DEF Wakes
<1>6. CASE Tick
  <2>1. left' \in SUBSET Nat /\ sleep' \in Nat
    BY <1>1, <1>6 DEF Tick, AtLeast
  <2> QED
    BY <1>1, <1>6, <2>1 DEF Tick, StreamTypes, loop
<1>7. CASE Breaks
  BY <1>1, <1>2, <1>7 DEF Breaks
<1>8. CASE StreamEnds
  BY <1>1, <1>2, <1>8 DEF StreamEnds
<1>9. CASE Cancel
  BY <1>1, <1>2, <1>9 DEF Cancel
<1>10. ASSUME NEW raw \in RawChunks, Delivers(raw) PROVE StreamTypes'
  <2>1. UNCHANGED <<policy, left, attempt, sleep, requests>>
    BY <1>10 DEF Delivers
  <2>2. CASE UNCHANGED <<phase, loop>>
    BY <1>1, <1>2, <2>1, <2>2
  <2>3. ASSUME NEW chunk \in Chunk(raw), Takes(chunk) PROVE StreamTypes'
    <3>1. chunk \in Chunks
      BY ChunkTyped
    <3>2. acc' = Fed(acc, chunk) /\ delivered' = Append(delivered, [chunk |-> chunk, attempt |-> attempt])
      BY <2>3 DEF Takes
    <3>3. delivered' \in Seq([chunk : Chunks, attempt : Nat])
      BY <1>1, <3>1, <3>2, AppendProperties
    <3>4. FoldLeft(Filed, acc.slots, chunk.calls) \in SlotMaps
      <4>1. Gathered \in Seq(Sent) /\ chunk.calls \in Seq(Sent)
        BY <1>1, <3>1, GatheredIs DEF Chunks, Deliveries
      <4> QED
        BY <4>1, ToldFold DEF ContentInv, Told
    <3>5. chunk.text \in Nat /\ chunk.usage \in Nat /\ chunk.finish \in Nat
      BY <3>1 DEF Chunks
    <3>6. acc' \in [text : Nat, slots : SlotMaps, usage : Nat, finish : Nat]
      <4> DEFINE slots2 == FoldLeft(Filed, acc.slots, chunk.calls)
      <4> HIDE DEF slots2
      <4>1. slots2 \in SlotMaps
        BY <3>4 DEF slots2
      <4>2. Fed(acc, chunk) = [text |-> acc.text + chunk.text, slots |-> slots2,
                usage |-> IF chunk.usage = 0 THEN acc.usage ELSE chunk.usage,
                finish |-> IF chunk.finish = 0 THEN acc.finish ELSE chunk.finish]
        BY DEF Fed, slots2
      <4> QED
        BY <1>1, <3>2, <3>5, <4>1, <4>2
    <3> QED
      BY <1>1, <2>1, <3>3, <3>6 DEF StreamTypes
  <2> QED
    BY <1>10, <2>2, <2>3 DEF Delivers
<1>11. CASE UNCHANGED streamVars
  BY <1>1, <1>2, <1>11 DEF streamVars, loop
<1> QED
  BY <1>3, <1>4, <1>5, <1>6, <1>7, <1>8, <1>9, <1>10, <1>11 DEF StreamNext

\* Every step keeps the count of attempts and requests.
LEMMA PhaseStep ==
    ASSUME StreamTypes, PhaseInv, [StreamNext]_streamVars
    PROVE  PhaseInv'
<1>1. /\ policy \in Policies /\ attempt \in Nat /\ requests \in Nat /\ policy.attempts \in Nat
  BY RetryStreamAssumption DEF StreamTypes
<1>3. CASE Request
  BY <1>1, <1>3 DEF Request, PhaseInv, Settle, loop
<1>4. CASE Failure
  BY <1>1, <1>4, FailureIs DEF PhaseInv, loop
<1>5. CASE Wakes
  BY <1>1, <1>5 DEF Wakes, PhaseInv, loop
<1>6. CASE Tick
  BY <1>1, <1>6 DEF Tick, PhaseInv, loop
<1>7. CASE Breaks
  BY <1>1, <1>7 DEF Breaks, PhaseInv, Settle, loop
<1>8. CASE StreamEnds
  BY <1>1, <1>8 DEF StreamEnds, PhaseInv, Settle, loop
<1>9. CASE Cancel
  BY <1>1, <1>9 DEF Cancel, PhaseInv, Settle, loop
<1>10. ASSUME NEW raw \in RawChunks, Delivers(raw) PROVE PhaseInv'
  <2>1. /\ UNCHANGED <<policy, attempt, outcome, requests>>
        /\ phase \in {"awaiting", "streaming"}
        /\ \/ phase' = phase /\ delivered' = delivered
           \/ phase' = "streaming"
    BY <1>10 DEF Delivers, Takes, loop
  <2> QED
    BY <1>1, <2>1 DEF PhaseInv
<1>11. CASE UNCHANGED streamVars
  BY <1>1, <1>11 DEF streamVars, PhaseInv
<1> QED
  BY <1>3, <1>4, <1>5, <1>6, <1>7, <1>8, <1>9, <1>10, <1>11 DEF StreamNext

\* What the loop has stays true of what was delivered.
LEMMA ContentStays ==
    ASSUME StreamTypes, ContentInv, UNCHANGED loop, attempt' = attempt \/ delivered = <<>>
    PROVE  ContentInv'
<1>1. /\ acc' = acc /\ callIds' = callIds /\ minted' = minted /\ announced' = announced
      /\ delivered' = delivered
  BY DEF loop
<1>2. OneSource'
  BY <1>1 DEF ContentInv, OneSource
<1>3. Gathered' = Gathered /\ Texts' = Texts /\ Loop' = Loop
  BY <1>1 DEF Gathered, Texts, Loop
<1> QED
  BY <1>1, <1>2, <1>3 DEF ContentInv

\* A chunk is fed to the accumulator as it is delivered to the loop.
LEMMA ContentTakes ==
    ASSUME StreamTypes, ContentInv, NEW chunk \in Chunks, Takes(chunk), attempt' = attempt
    PROVE  ContentInv'
<1> DEFINE item == [chunk |-> chunk, attempt |-> attempt]
           l == FoldLeft(Identified, Loop, chunk.calls)
<1>1. /\ acc' = Fed(acc, chunk) /\ delivered' = Append(delivered, item)
      /\ callIds' = l.ids /\ minted' = l.minted /\ announced' = l.announced
  BY DEF Takes
<1>2. /\ delivered \in Seq(Deliveries) /\ item \in Deliveries /\ delivered' \in Seq(Deliveries)
      /\ chunk.calls \in Seq(Sent) /\ chunk.text \in Nat
  <2>1. delivered \in Seq(Deliveries) /\ item \in Deliveries
    BY DEF StreamTypes, Deliveries
  <2> HIDE DEF item
  <2> QED
    BY <1>1, <2>1, AppendProperties DEF Chunks
<1>3. item.chunk = chunk /\ item.attempt = attempt
  OBVIOUS
<1> HIDE DEF item, l
<1>4. /\ Gathered \in Seq(Sent) /\ Gathered = CallsIn(delivered)
      /\ FoldLeft(Plus, 0, Texts) = TextIn(delivered)
  BY <1>2, GatheredIs
<1>5. Gathered' = CallsIn(delivered') /\ FoldLeft(Plus, 0, Texts)' = TextIn(delivered')
  BY DEF Gathered, Texts, CallsIn, TextIn, Joined, Total
<1>6. /\ TextIn(delivered') = TextIn(delivered) + chunk.text
      /\ CallsIn(delivered') = CallsIn(delivered) \o chunk.calls
  BY <1>1, <1>2, <1>3, DeliveryGrows
<1>7. OneSource'
  <2>1. /\ DOMAIN delivered' = 1 .. Len(delivered) + 1 /\ DOMAIN delivered = 1 .. Len(delivered)
        /\ Len(delivered) \in Nat
        /\ \A i \in 1 .. Len(delivered) : delivered'[i] = delivered[i]
        /\ delivered'[Len(delivered) + 1] = item
    BY <1>1, <1>2, AppendProperties, LenProperties
  <2> QED
    BY <1>3, <2>1 DEF ContentInv, OneSource
<1>8. /\ acc'.text = acc.text + chunk.text
      /\ acc'.slots = FoldLeft(Filed, acc.slots, chunk.calls)
  BY <1>1 DEF Fed
<1>9. Told(Gathered', acc'.slots)
  BY <1>2, <1>4, <1>5, <1>6, <1>8, ToldFold DEF ContentInv
<1>10. Known(Gathered', Loop')
  <2>1. Known(Gathered', l)
    BY <1>2, <1>4, <1>5, <1>6, KnownFold DEF ContentInv, l
  <2>2. Loop'.ids = l.ids /\ Loop'.minted = l.minted /\ Loop'.announced = l.announced
    BY <1>1 DEF Loop
  <2>3. l \in Labels
    BY <2>1 DEF Known
  <2>4. Loop' = l
    <3>1. l = [ids |-> l.ids, minted |-> l.minted, announced |-> l.announced]
      BY <2>3 DEF Labels
    <3> QED
      BY <1>1, <3>1 DEF Loop
  <2> QED
    BY <2>1, <2>4
<1>11. acc'.text = FoldLeft(Plus, 0, Texts)'
  BY <1>4, <1>5, <1>6, <1>8 DEF ContentInv
<1> QED
  BY <1>7, <1>9, <1>10, <1>11 DEF ContentInv

\* Every step keeps what the loop has true of what was delivered.
LEMMA ContentStep ==
    ASSUME StreamTypes, PhaseInv, ContentInv, [StreamNext]_streamVars
    PROVE  ContentInv'
<1>3. CASE Request
  BY <1>3, ContentStays DEF Request
<1>4. CASE Failure
  BY <1>4, FailureIs, ContentStays
<1>5. CASE Wakes
  BY <1>5, ContentStays DEF Wakes, PhaseInv
<1>6. CASE Tick
  BY <1>6, ContentStays DEF Tick
<1>7. CASE Breaks
  BY <1>7, ContentStays DEF Breaks
<1>8. CASE StreamEnds
  BY <1>8, ContentStays DEF StreamEnds
<1>9. CASE Cancel
  BY <1>9, ContentStays DEF Cancel
<1>10. ASSUME NEW raw \in RawChunks, Delivers(raw) PROVE ContentInv'
  <2>1. CASE UNCHANGED <<phase, loop>>
    BY <1>10, <2>1, ContentStays DEF Delivers
  <2>2. ASSUME NEW chunk \in Chunk(raw), Takes(chunk) PROVE ContentInv'
    BY <1>10, <2>2, ChunkTyped, ContentTakes DEF Delivers
  <2> QED
    BY <1>10, <2>1, <2>2 DEF Delivers
<1>11. CASE UNCHANGED streamVars
  BY <1>11, ContentStays DEF streamVars, loop
<1> QED
  BY <1>3, <1>4, <1>5, <1>6, <1>7, <1>8, <1>9, <1>10, <1>11 DEF StreamNext

\* Only an end of the stream answers, and nothing moves after it.
LEMMA AnswerStep ==
    ASSUME PhaseInv, AnswerInv, StreamTypes, [StreamNext]_streamVars
    PROVE  AnswerInv'
<1>1. ASSUME UNCHANGED <<outcome, response, loop>> PROVE AnswerInv'
  BY <1>1 DEF AnswerInv, Named, Built, Slots, loop
<1>2. ASSUME outcome' # "answered" PROVE AnswerInv'
  BY <1>2 DEF AnswerInv
<1>12. outcome = "answered" => phase = "over"
  BY DEF PhaseInv
<1>3. CASE Request
  BY <1>2, <1>3, <1>12 DEF Request, Settle
<1>4. CASE Failure
  BY <1>2, <1>4, <1>12, FailureIs
<1>5. CASE Wakes
  BY <1>1, <1>5 DEF Wakes
<1>6. CASE Tick
  BY <1>1, <1>6 DEF Tick
<1>7. CASE Breaks
  BY <1>2, <1>7 DEF Breaks, Settle
<1>8. CASE StreamEnds
  BY <1>8 DEF StreamEnds, Settle, AnswerInv, Named, Built, Slots, loop
<1>9. CASE Cancel
  BY <1>2, <1>9 DEF Cancel, Settle
<1>10. ASSUME NEW raw \in RawChunks, Delivers(raw) PROVE AnswerInv'
  BY <1>2, <1>10, <1>12 DEF Delivers
<1>11. CASE UNCHANGED streamVars
  BY <1>1, <1>11 DEF streamVars, loop
<1> QED
  BY <1>3, <1>4, <1>5, <1>6, <1>7, <1>8, <1>9, <1>10, <1>11 DEF StreamNext

\* The invariant of a request, for every policy and every stream.
LEMMA StreamInvariant == StreamSpec => []StreamInv
<1>1. StreamInv /\ [StreamNext]_streamVars => StreamInv'
  BY StreamTypesStep, PhaseStep, ContentStep, AnswerStep DEF StreamInv
<1> QED
  BY StreamStart, <1>1, PTL DEF StreamSpec

-----------------------------------------------------------------------------
(* The response                                                            *)

\* When every place is an index, the indices are the places.
LEMMA PlacesAre ==
    ASSUME NEW D \in SUBSET Nat, IsFiniteSet(D),
           \A place \in 1 .. Cardinality(D) : place - 1 \in D
    PROVE  /\ Cardinality(D) \in Nat
           /\ \A place \in 1 .. Cardinality(D) : Ascending(D)[place] = place - 1
           /\ DOMAIN Ascending(D) = 1 .. Cardinality(D) /\ Len(Ascending(D)) = Cardinality(D)
<1> DEFINE k == Cardinality(D)
<1>1. k \in Nat
  BY FS_CardinalityType
<1> HIDE DEF k
<1>2. /\ IsFiniteSet(0 .. k - 1)
      /\ Cardinality(0 .. k - 1) = IF 0 > k - 1 THEN 0 ELSE (k - 1) - 0 + 1
  <2>1. 0 \in Int /\ k - 1 \in Int
    BY <1>1
  <2> QED
    BY ONLY <2>1, FS_Interval
<1>3. 0 .. k - 1 \in SUBSET D
  <2>1. \A i \in 0 .. k - 1 : i + 1 \in 1 .. k /\ (i + 1) - 1 = i
    BY <1>1
  <2> QED
    BY <2>1 DEF k
<1>4. D = 0 .. k - 1
  <2>1. Cardinality(0 .. k - 1) = k
    BY <1>1, <1>2
  <2>2. Cardinality(D) = Cardinality(0 .. k - 1)
    BY <2>1 DEF k
  <2> QED
    BY <1>3, <2>2, FS_Subset
<1>5. ASSUME NEW x \in D PROVE Cardinality({y \in D : y <= x}) = x + 1
  <2>1. x \in Nat /\ x <= k - 1
    BY <1>1, <1>4, <1>5
  <2>2. {y \in D : y <= x} = 0 .. x
    BY <1>1, <1>4, <2>1
  <2>3. Cardinality(0 .. x) = IF 0 > x THEN 0 ELSE x - 0 + 1
    <3>1. 0 \in Int /\ x \in Int
      BY <2>1
    <3> QED
      BY ONLY <3>1, FS_Interval
  <2>4. Cardinality(0 .. x) = x + 1
    BY <2>1, <2>3
  <2> QED
    BY <2>2, <2>4, Zenon
<1>6. ASSUME NEW place \in 1 .. k PROVE Ascending(D)[place] = place - 1
  <2>1. Ascending(D)[place] = CHOOSE x \in D : Cardinality({y \in D : y <= x}) = place
    BY DEF Ascending, k
  <2>2. place - 1 \in D /\ Cardinality({y \in D : y <= place - 1}) = place
    <3> DEFINE x == place - 1
    <3>1. x \in D /\ x + 1 = place
      BY <1>1, <1>4
    <3> HIDE DEF x
    <3>2. Cardinality({y \in D : y <= x}) = place
      BY <1>5, <3>1
    <3> QED
      BY <3>1, <3>2 DEF x
  <2>3. \A x \in D : Cardinality({y \in D : y <= x}) = place => x = place - 1
    <3>1. \A x \in D : x \in Nat
      OBVIOUS
    <3> QED
      BY <1>5, <3>1
  <2> QED
    BY <2>1, <2>2, <2>3
<1>7. DOMAIN Ascending(D) = 1 .. k /\ Len(Ascending(D)) = k
  BY <1>1 DEF Ascending, k
<1> QED
  BY <1>1, <1>6, <1>7 DEF k

\* An answer has the slots at their places, under their identities.
LEMMA AnswerIs ==
    ASSUME StreamInv, outcome = "answered"
    PROVE  /\ response.text = acc.text
           /\ DOMAIN response.slots = 1 .. Cardinality(DOMAIN announced)
           /\ Len(response.slots) = Cardinality(DOMAIN announced)
           /\ \A place \in DOMAIN response.slots :
                 /\ place - 1 \in Indices(Gathered)
                 /\ response.slots[place].id = callIds[place - 1]
                 /\ response.slots[place].name = acc.slots[place - 1].name
                 /\ response.slots[place].args = acc.slots[place - 1].args
<1> DEFINE D == DOMAIN acc.slots
<1>1. /\ Named /\ response = Built
      /\ acc \in [text : Nat, slots : SlotMaps, usage : Nat, finish : Nat]
      /\ D = Indices(Gathered) /\ IsFiniteSet(D)
      /\ DOMAIN callIds = D /\ DOMAIN announced = D
  BY DEF StreamInv, StreamTypes, ContentInv, AnswerInv, Told, Known, Loop
<1>2. D \in SUBSET Nat /\ \A i \in D : acc.slots[i] \in Slot
  <2>1. acc.slots \in SlotMaps
    BY <1>1
  <2> QED
    BY <2>1 DEF SlotMaps
<1>3. Slots = Ascending(D) /\ DOMAIN Ascending(D) = 1 .. Cardinality(D)
  BY DEF Slots, Ascending
<1>4. \A place \in 1 .. Cardinality(D) : place - 1 \in D
  BY <1>1, <1>3 DEF Named
<1>5. /\ Cardinality(D) \in Nat
      /\ \A place \in 1 .. Cardinality(D) : Slots[place] = place - 1
  <2> HIDE DEF D
  <2> QED
    BY <1>1, <1>2, <1>3, <1>4, PlacesAre
<1> DEFINE made == [place \in DOMAIN Slots |->
                       [acc.slots[Slots[place]] EXCEPT !.id = callIds[place - 1]]]
<1>6. response.text = acc.text /\ response.slots = made
  BY <1>1 DEF Built
<1>7. DOMAIN made = 1 .. Cardinality(D) /\ Len(made) = Cardinality(D)
  BY <1>3, <1>5
<1>8. ASSUME NEW place \in 1 .. Cardinality(D)
      PROVE  /\ made[place].id = callIds[place - 1]
             /\ made[place].name = acc.slots[place - 1].name
             /\ made[place].args = acc.slots[place - 1].args
  <2>1. made[place] = [acc.slots[place - 1] EXCEPT !.id = callIds[place - 1]]
    BY <1>3, <1>5
  <2>2. acc.slots[place - 1] \in Slot
    BY <1>2, <1>4
  <2> HIDE DEF made
  <2> QED
    BY <2>1, <2>2 DEF Slot
<1> HIDE DEF made
<1> QED
  BY <1>1, <1>4, <1>6, <1>7, <1>8

\* Whatever the provider sends, an answer is what was delivered, of one attempt.
THEOREM ResponsesAlwaysWhole ==
    StreamSpec => [](StreamTypeOK /\ OneSource /\ FailureShown /\ ResponseWhole)
<1>1. StreamInv => StreamTypeOK /\ OneSource /\ FailureShown /\ ResponseWhole
  <2> SUFFICES ASSUME StreamInv PROVE StreamTypeOK /\ OneSource /\ FailureShown /\ ResponseWhole
    OBVIOUS
  <2>1. StreamTypeOK
    <3>1. /\ DOMAIN callIds = Indices(Gathered) /\ DOMAIN announced = Indices(Gathered)
          /\ DOMAIN acc.slots = Indices(Gathered)
      BY DEF StreamInv, ContentInv, Told, Known, Loop
    <3>2. policy.attempts \in Nat /\ attempt \in Nat /\ sleep \in Nat /\ requests \in Nat
      BY RetryStreamAssumption DEF StreamInv, StreamTypes
    <3> QED
      BY <3>1, <3>2 DEF StreamInv, PhaseInv, StreamTypeOK
  <2>2. OneSource /\ FailureShown
    BY DEF StreamInv, ContentInv, PhaseInv, FailureShown
  <2>3. ResponseWhole
    <3> SUFFICES ASSUME outcome = "answered"
                 PROVE  /\ response.text = FoldLeft(Plus, 0, Texts)
                        /\ Len(response.slots) = Cardinality(DOMAIN announced)
                        /\ \A place \in DOMAIN response.slots :
                              /\ SaysName(Gathered, place - 1, response.slots[place].name)
                              /\ response.slots[place].args = SaysArgs(Gathered, place - 1)
      BY DEF ResponseWhole
    <3>1. acc.text = FoldLeft(Plus, 0, Texts)
      BY DEF StreamInv, ContentInv
    <3>2. \A i \in Indices(Gathered) :
              SaysName(Gathered, i, acc.slots[i].name) /\ acc.slots[i].args = SaysArgs(Gathered, i)
      BY DEF StreamInv, ContentInv, Told
    <3> QED
      BY <3>1, <3>2, AnswerIs
  <2> QED
    BY <2>1, <2>2, <2>3
<1> QED
  BY StreamInvariant, <1>1, PTL

\* Where the endpoint gives no id to two calls, no two calls share an identity.
THEOREM ResponsesAlwaysTrue ==
    ASSUME OneIdPerCall PROVE StreamSpec => []ResponseTrue
<1>1. StreamInv => OneIdentity
  <2> SUFFICES ASSUME StreamInv, outcome = "answered", NEW place \in DOMAIN response.slots
               PROVE  /\ announced[place - 1] = {response.slots[place].id}
                      /\ \A other \in DOMAIN announced \ {place - 1} :
                            response.slots[place].id \notin announced[other]
    BY DEF OneIdentity
  <2> DEFINE i == place - 1
             I == Indices(Gathered)
  <2>1. i \in I /\ response.slots[place].id = callIds[i]
    BY AnswerIs
  <2>2. /\ DOMAIN announced = I
        /\ \A k \in I : announced[k] = {callIds[k]} /\ (Mints(Loop, k) \/ Gives(Gathered, Loop, k))
        /\ \A j, k \in I : Mints(Loop, j) /\ j # k => callIds[j] # callIds[k]
        /\ Loop.ids = callIds
    BY DEF StreamInv, ContentInv, Known, Loop
  <2>3. ASSUME NEW other \in I, other # i PROVE callIds[i] # callIds[other]
    <3>1. CASE Mints(Loop, i)
      BY <2>1, <2>2, <2>3, <3>1
    <3>2. CASE Mints(Loop, other)
      BY <2>1, <2>2, <2>3, <3>2
    <3>3. CASE Gives(Gathered, Loop, i) /\ Gives(Gathered, Loop, other)
      <4>1. PICK a \in DOMAIN Gathered :
                /\ Gathered[a].index = i /\ Gathered[a].id # ""
                /\ callIds[i] = <<"provider", Gathered[a].id>>
        BY <2>2, <3>3 DEF Gives
      <4>2. PICK b \in DOMAIN Gathered :
                /\ Gathered[b].index = other /\ callIds[other] = <<"provider", Gathered[b].id>>
        BY <2>2, <3>3 DEF Gives
      <4>3. Gathered[a] \in Sent /\ Gathered[b] \in Sent
        <5>1. Gathered \in Seq(Sent)
          BY GatheredIs DEF StreamInv, StreamTypes, Deliveries
        <5> QED
          BY <5>1, LenProperties, ElementOfSeq
      <4>4. Gathered[a].id # Gathered[b].id
        BY <2>3, <4>1, <4>2, <4>3 DEF OneIdPerCall
      <4>5. <<"provider", Gathered[a].id>>[2] = Gathered[a].id
            /\ <<"provider", Gathered[b].id>>[2] = Gathered[b].id
        OBVIOUS
      <4> QED
        BY <4>1, <4>2, <4>4, <4>5
    <3> QED
      BY <2>1, <2>2, <3>1, <3>2, <3>3
  <2> HIDE DEF i, I
  <2> QED
    BY <2>1, <2>2, <2>3 DEF i
<1> QED
  BY StreamInvariant, ResponsesAlwaysWhole, <1>1, PTL DEF ResponseTrue

\* No request goes out after the deadline, however long the sleep was.
THEOREM RequestsNeverLate == StreamSpec => NoLateRequest
<1>1. StreamInv /\ [StreamNext]_streamVars => [requests' > requests => ~Late]_streamVars
  <2> SUFFICES ASSUME StreamInv, StreamNext, Late PROVE ~(requests' > requests)
    BY DEF streamVars
  <2>1. requests \in Nat
    BY DEF StreamInv, StreamTypes
  <2>2. requests' = requests
    <3>1. CASE Request
      BY <3>1 DEF Request
    <3>2. CASE Failure
      BY <3>2, FailureIs DEF StreamInv
    <3>3. CASE Wakes \/ Tick \/ Breaks \/ StreamEnds \/ Cancel
      BY <3>3 DEF Wakes, Tick, Breaks, StreamEnds, Cancel
    <3>4. CASE \E raw \in RawChunks : Delivers(raw)
      BY <3>4 DEF Delivers
    <3> QED
      BY <3>1, <3>2, <3>3, <3>4 DEF StreamNext
  <2> QED
    BY <2>1, <2>2
<1> QED
  BY StreamInvariant, <1>1, PTL DEF StreamSpec, NoLateRequest

=============================================================================
