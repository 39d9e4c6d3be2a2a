-------------------------- MODULE ConversationProofs --------------------------
(***************************************************************************)
(* Proofs about Conversation, for every set of sessions and versions and   *)
(* every bound.  What is said of records and of the request surface is for *)
(* one task of the application at a time, or for the overlaps it excludes. *)
(***************************************************************************)
EXTENDS Conversation, SequenceTheorems, TLAPS

-----------------------------------------------------------------------------
(* Histories                                                               *)

Kinds == {"user", "notice", "answer", "round", "stop"}
MessagesOf(s) == [in : {s}, kind : Kinds, says : Surfaces]

LEMMA MessageTypes ==
    ASSUME NEW s \in Sessions
    PROVE  /\ \A m \in MessagesOf(s) : m \in Message /\ m.in = s /\ m.kind \in Kinds
           /\ \A kind \in Kinds, v \in Surfaces :
                  [in |-> s, kind |-> kind, says |-> v] \in MessagesOf(s)
  BY DEF MessagesOf, Message, Kinds

\* A sequence over a set is one over a larger set.
LEMMA Wider ==
    ASSUME NEW T, NEW U, T \subseteq U, NEW h \in Seq(T)
    PROVE  h \in Seq(U)
<1>1. Len(h) \in Nat /\ h \in [1 .. Len(h) -> T]
  BY LenProperties
<1>2. h \in [1 .. Len(h) -> U]
  BY <1>1
<1> QED
  BY <1>1, <1>2

\* A message before the last one.
LEMMA Inserted ==
    ASSUME NEW T, NEW h \in Seq(T), h # <<>>, NEW m \in T
    PROVE  /\ InsertAt(h, Len(h), m) \in Seq(T)
           /\ Len(InsertAt(h, Len(h), m)) = Len(h) + 1
           /\ \A i \in 1 .. Len(h) - 1 : InsertAt(h, Len(h), m)[i] = h[i]
           /\ InsertAt(h, Len(h), m)[Len(h)] = m
           /\ InsertAt(h, Len(h), m)[Len(h) + 1] = h[Len(h)]
<1> DEFINE n == Len(h)
           front == SubSeq(h, 1, n - 1)
           end == SubSeq(h, n, n)
           new == (front \o <<m>>) \o end
<1>1. n \in Nat /\ n >= 1 /\ \A i \in 1 .. n : h[i] \in T
  <2>1. Len(h) \in Nat /\ (Len(h) = 0 => h = <<>>)
    BY EmptySeq
  <2> QED
    BY <2>1, LenProperties
<1>2. InsertAt(h, Len(h), m) = new
  BY DEF InsertAt
<1> HIDE DEF n
<1>3. n - 1 \in Int /\ n \in Int /\ 1 \in Int
  BY <1>1
<1>4. /\ front \in Seq(T) /\ Len(front) = n - 1
      /\ \A i \in 1 .. n - 1 : front[i] = h[i]
  <2>1. \A i \in 1 .. n - 1 : h[i] \in T
    BY <1>1
  <2>2. /\ front \in Seq(T) /\ Len(front) = IF 1 <= n - 1 THEN n - 1 - 1 + 1 ELSE 0
        /\ \A i \in 1 .. n - 1 - 1 + 1 : front[i] = h[1 + i - 1]
    BY ONLY <1>3, <2>1, SubSeqProperties
  <2> QED
    BY <1>1, <2>2
<1>5. end \in Seq(T) /\ Len(end) = 1 /\ end[1] = h[n]
  <2>1. \A i \in n .. n : h[i] \in T
    BY <1>1
  <2>2. /\ end \in Seq(T) /\ Len(end) = IF n <= n THEN n - n + 1 ELSE 0
        /\ \A i \in 1 .. n - n + 1 : end[i] = h[n + i - 1]
    BY ONLY <1>3, <2>1, SubSeqProperties
  <2> QED
    BY <1>1, <2>2
<1>6. <<m>> \in Seq(T) /\ Len(<<m>>) = 1 /\ <<m>>[1] = m
  OBVIOUS
<1> HIDE DEF front, end
<1>7. /\ front \o <<m>> \in Seq(T) /\ Len(front \o <<m>>) = n
      /\ \A i \in 1 .. n : (front \o <<m>>)[i] = IF i <= n - 1 THEN front[i] ELSE <<m>>[i - (n - 1)]
  <2>1. /\ front \o <<m>> \in Seq(T) /\ Len(front \o <<m>>) = Len(front) + Len(<<m>>)
        /\ \A i \in 1 .. Len(front) + Len(<<m>>) :
              (front \o <<m>>)[i] = IF i <= Len(front) THEN front[i] ELSE <<m>>[i - Len(front)]
    BY ONLY <1>4, <1>6, ConcatProperties
  <2>2. Len(front) + Len(<<m>>) = n
    BY <1>1, <1>4, <1>6
  <2> QED
    BY <1>4, <2>1, <2>2
<1> DEFINE head == front \o <<m>>
<1>8. head \in Seq(T) /\ Len(head) = n /\ head[n] = m /\ \A i \in 1 .. n - 1 : head[i] = h[i]
  <2>1. n \in 1 .. n /\ ~(n <= n - 1) /\ n - (n - 1) = 1
    BY <1>1
  <2>2. head[n] = m
    BY <1>6, <1>7, <2>1
  <2>3. ASSUME NEW i \in 1 .. n - 1 PROVE head[i] = h[i]
    <3>1. i \in 1 .. n /\ i <= n - 1
      BY <1>1
    <3> QED
      BY <1>4, <1>7, <3>1
  <2> QED
    BY <1>7, <2>2, <2>3
<1> HIDE DEF head
<1>9. /\ head \o end \in Seq(T) /\ Len(head \o end) = n + 1
      /\ \A i \in 1 .. n + 1 : (head \o end)[i] = IF i <= n THEN head[i] ELSE end[i - n]
  <2>1. /\ head \o end \in Seq(T) /\ Len(head \o end) = Len(head) + Len(end)
        /\ \A i \in 1 .. Len(head) + Len(end) :
              (head \o end)[i] = IF i <= Len(head) THEN head[i] ELSE end[i - Len(head)]
    BY ONLY <1>5, <1>8, ConcatProperties
  <2> QED
    BY <1>5, <1>8, <2>1
<1>10. new = head \o end
  BY DEF head
<1> HIDE DEF new
<1>11. new[n] = m /\ new[n + 1] = h[n] /\ \A i \in 1 .. n - 1 : new[i] = h[i]
  <2>1. n \in 1 .. n + 1 /\ n <= n /\ n + 1 \in 1 .. n + 1 /\ ~(n + 1 <= n) /\ n + 1 - n = 1
    BY <1>1
  <2>2. new[n] = m /\ new[n + 1] = h[n]
    BY <1>5, <1>8, <1>9, <1>10, <2>1
  <2>3. ASSUME NEW i \in 1 .. n - 1 PROVE new[i] = h[i]
    <3>1. i \in 1 .. n + 1 /\ i <= n
      BY <1>1
    <3> QED
      BY <1>8, <1>9, <1>10, <3>1
  <2> QED
    BY <2>2, <2>3
<1> QED
  BY <1>2, <1>9, <1>10, <1>11 DEF n

\* One history begins with another.
LEMMA Prefix ==
    ASSUME NEW T, NEW s \in Seq(T), NEW t \in Seq(T)
    PROVE  IsPrefix(s, t) <=> Len(s) <= Len(t) /\ \A i \in 1 .. Len(s) : s[i] = t[i]
<1> DEFINE n == Len(s)
           a == SubSeq(s, 1, n)
           b == SubSeq(t, 1, n)
<1>1. n \in Nat /\ Len(t) \in Nat /\ 1 \in Int /\ n \in Int
      /\ \A i \in 1 .. n : s[i] \in T
  BY LenProperties
<1>2. /\ a \in Seq(T) /\ Len(a) = IF 1 <= n THEN n - 1 + 1 ELSE 0
      /\ \A i \in 1 .. n - 1 + 1 : a[i] = s[1 + i - 1]
  BY ONLY <1>1, SubSeqProperties
<1>3. Len(a) = n /\ \A i \in 1 .. n : a[i] = s[i]
  BY <1>1, <1>2
<1>4. ASSUME n <= Len(t)
      PROVE  b \in Seq(T) /\ Len(b) = n /\ \A i \in 1 .. n : b[i] = t[i]
  <2>1. \A i \in 1 .. n : t[i] \in T
    BY <1>1, <1>4, LenProperties
  <2>2. /\ b \in Seq(T) /\ Len(b) = IF 1 <= n THEN n - 1 + 1 ELSE 0
        /\ \A i \in 1 .. n - 1 + 1 : b[i] = t[1 + i - 1]
    BY ONLY <1>1, <2>1, SubSeqProperties
  <2> QED
    BY <1>1, <2>2
<1> HIDE DEF a, b, n
<1>5. ASSUME n <= Len(t) PROVE a = b <=> \A i \in 1 .. n : s[i] = t[i]
  <2>1. a = b => \A i \in 1 .. n : s[i] = t[i]
    BY <1>3, <1>4, <1>5
  <2>2. (\A i \in 1 .. n : s[i] = t[i]) => a = b
    <3>1. a \in Seq(T) /\ b \in Seq(T) /\ Len(a) = n /\ Len(b) = n
      BY <1>2, <1>3, <1>4, <1>5
    <3>2. a = [i \in 1 .. n |-> a[i]] /\ b = [i \in 1 .. n |-> b[i]]
      BY <3>1, LenProperties
    <3> QED
      BY <1>3, <1>4, <1>5, <3>2
  <2> QED
    BY <2>1, <2>2
<1> QED
  BY <1>5 DEF IsPrefix, a, b, n

-----------------------------------------------------------------------------
(* Types                                                                   *)

Everyone == Callers \union {"turn"}
HostRec == HostType(Everyone)
Phases == {"none", "new", "preparing", "opening", "ready", "asking", "calling", "finishing", "ending"}
Stops == {"no", "asked", "sent", "taken"}
Ops == {"idle", "preparing", "changing", "announcing", "replaying", "waiting", "ended"}
TurnRec == [phase : Phases, atStart : Surfaces, stop : Stops]
CallRec == [op : Ops, left : Seq(Nat)]
ClosedRec == [how : {"open", "close", "aclose"}, saved : BOOLEAN]
SeenRec == [asked : BOOLEAN, prompt : Surfaces, messages : Seq(Message), since : Nat,
            inherited : BOOLEAN, torn : BOOLEAN]
RecordRec(s) == [hist : Seq(MessagesOf(s)), surface : Surfaces, base : Surfaces,
                 captured : Seq(Nat), seen : SeenRec]

\* Every file that is there holds a record whose history is of its session.
DiskTyped(d) ==
    /\ d = [s \in Sessions |-> d[s]]
    /\ \A s \in Sessions : d[s] # Absent => d[s] \in RecordRec(s)

\* The types; the history of the conversation is of its session.
Typed ==
    /\ world \in Versions
    /\ DiskTyped(disk)
    /\ host \in HostRec
    /\ id \in Sessions
    /\ hist \in Seq(MessagesOf(id))
    /\ base \in Surfaces
    /\ captured \in Seq(Nat)
    /\ replaying \in BOOLEAN
    /\ turn \in TurnRec
    /\ doing \in [Callers -> CallRec]
    /\ closed \in ClosedRec
    /\ seen \in SeenRec

\* A replay has something left.
LeftInv == \A c \in Callers : doing[c].op = "replaying" => doing[c].left # <<>>

\* What the operations on the surface make of it.
LEMMA HostTypes ==
    ASSUME NEW h \in HostRec, NEW task \in Everyone, NEW v \in Versions, NEW x \in Surfaces
    PROVE  /\ Reinstated(h, x) \in HostRec /\ Prepared(h, task, v) \in HostRec
           /\ Rebuilt(h, v) \in HostRec /\ Assembled(x) \in HostRec
           /\ Materialized(h, task) \in HostRec
           /\ [h EXCEPT !.prompt = x] \in HostRec
<1> USE DEF HostRec, HostType
<1>1. v \in Surfaces /\ Nothing \in Surfaces
  BY DEF Surfaces
<1>2. \A y \in Surfaces : Reinstated(h, y) \in HostRec
  BY DEF Reinstated
<1>3. Prepared(h, task, v) \in HostRec
  BY <1>1 DEF Prepared
<1>4. Rebuilt(h, v) \in HostRec
  BY <1>1 DEF Rebuilt
<1>5. Assembled(x) \in HostRec
  BY <1>1 DEF Assembled
<1>6. [h EXCEPT !.materialized = TRUE, !.preparing = @ \union {task}] \in HostRec
  OBVIOUS
<1>7. Materialized(h, task) \in HostRec
  BY <1>2, <1>6 DEF Materialized
<1> QED
  BY <1>2, <1>3, <1>4, <1>5, <1>7

\* The pieces actions build their next states from.
LEMMA Pieces ==
    ASSUME Typed
    PROVE  /\ \A kind \in Kinds : Said(kind) \in MessagesOf(id)
           /\ \A v \in Surfaces : Notice(v) \in MessagesOf(id)
           /\ \A s \in Sessions : <<>> \in Seq(MessagesOf(s))
           /\ Record \in RecordRec(id) /\ DiskTyped(Saved)
           /\ NoTurn \in TurnRec /\ Stopped \in TurnRec
           /\ Idle \in CallRec /\ Open \in ClosedRec /\ Unseen \in SeenRec
           /\ world \in Surfaces /\ Nothing \in Surfaces
<1>1. id \in Sessions /\ world \in Surfaces /\ Nothing \in Surfaces
  BY DEF Typed, Surfaces
<1>2. /\ \A kind \in Kinds : Said(kind) \in MessagesOf(id)
      /\ \A v \in Surfaces : Notice(v) \in MessagesOf(id)
  BY <1>1, MessageTypes DEF Said, Notice, Kinds
<1>3. Record \in RecordRec(id)
  <2> DEFINE told == [seen EXCEPT !.torn = @ \/ (seen.asked /\ host.prompt = Nothing)]
  <2>1. told \in SeenRec
    BY DEF Typed, SeenRec
  <2> HIDE DEF told
  <2>2. host.prompt \in Surfaces
    BY DEF Typed, HostRec, HostType
  <2>3. Record = [hist |-> hist, surface |-> host.prompt, base |-> base, captured |-> captured,
                  seen |-> told]
    BY DEF Record, told
  <2> QED
    BY <2>1, <2>2, <2>3 DEF Typed, RecordRec
<1>4. DiskTyped(Saved)
  <2>1. DiskTyped(disk)
    BY DEF Typed
  <2>2. CASE hist = <<>>
    BY <2>1, <2>2 DEF Saved
  <2>3. CASE hist # <<>>
    <3>1. Saved = [disk EXCEPT ![id] = Record]
      BY <2>3 DEF Saved, Written
    <3> QED
      BY <1>1, <1>3, <2>1, <3>1 DEF DiskTyped
  <2> QED
    BY <2>2, <2>3
<1>5. NoTurn \in TurnRec
  BY <1>1 DEF NoTurn, TurnRec, Phases, Stops
<1>6. Stopped \in TurnRec
  BY DEF Stopped, Typed, TurnRec, Stops
<1>7. <<>> \in Seq(Nat) /\ <<>> \in Seq(Message) /\ \A s \in Sessions : <<>> \in Seq(MessagesOf(s))
  OBVIOUS
<1>8. Idle \in CallRec /\ Open \in ClosedRec /\ Unseen \in SeenRec
  BY <1>1, <1>7 DEF Idle, CallRec, Ops, Open, ClosedRec, Unseen, SeenRec
<1> QED
  BY <1>1, <1>2, <1>3, <1>4, <1>5, <1>6, <1>7, <1>8

\* A step writes no file but that of the conversation's own session, and there
\* the conversation as it stands.
DiskMoves ==
    /\ DiskTyped(disk')
    /\ \A s \in Sessions : disk'[s] = disk[s] \/ (s = id /\ disk'[s] = Record /\ hist # <<>>)

LEMMA SavedMoves == ASSUME Typed, disk' = Saved \/ disk' = disk PROVE DiskMoves
<1>1. DiskTyped(disk) /\ DiskTyped(disk')
  BY Pieces DEF Typed
<1>2. CASE disk' = disk \/ hist = <<>>
  BY <1>1, <1>2 DEF DiskMoves, Saved
<1>3. CASE disk' = Saved /\ hist # <<>>
  <2>1. disk' = [disk EXCEPT ![id] = Record]
    BY <1>3 DEF Saved, Written
  <2> QED
    BY <1>1, <1>3, <2>1 DEF DiskMoves, DiskTyped
<1> QED
  BY <1>2, <1>3

LEMMA DiskSteps == ASSUME Typed, [Next]_vars PROVE DiskMoves
<1>1. CASE UNCHANGED vars
  BY <1>1, SavedMoves DEF vars
<1>2. CASE TurnSteps
  BY <1>2, SavedMoves
     DEF TurnSteps, TurnStarts, TurnPrepared, TurnAnnounces, TurnAsks, TurnAnswers, TurnCalls,
         TurnResults, TurnCut, TurnFails, TurnSays, TurnInterrupted, TurnEnds
<1>3. ASSUME NEW c \in Callers, Calls(c) PROVE disk' = Saved \/ disk' = disk
  BY <1>3 DEF Calls, Run, Cancel, Prepare, Save, Rebuild, NewSession, LoadSession, Close, AClose, TornDown
<1>4. ASSUME NEW c \in Callers, CallerGoesOn(c) PROVE disk' = Saved \/ disk' = disk
  BY <1>4 DEF CallerGoesOn, CallerPrepared, ChangeAnnounced, Replays, ACloseReturns, TornDown
<1>5. CASE Emit \/ EmissionArrives \/ WorldChanges \/ Reopen
  BY <1>5, SavedMoves DEF Emit, EmissionArrives, WorldChanges, Reopen
<1> QED
  BY <1>1, <1>2, <1>3, <1>4, <1>5, SavedMoves DEF Next

\* A notice leaves a history of the same session.
LEMMA AnnounceTypes ==
    ASSUME Typed
    PROVE  /\ AtTheEnd(Notice(world)) \in Seq(MessagesOf(id))
           /\ BeforeUser(Notice(world)) \in Seq(MessagesOf(id))
           /\ \A noticed \in Seq(MessagesOf(id)) : Announces(noticed) =>
                  hist' \in Seq(MessagesOf(id)) /\ base' \in Surfaces /\ seen' \in SeenRec
<1>1. hist \in Seq(MessagesOf(id)) /\ Notice(world) \in MessagesOf(id) /\ world \in Surfaces
  BY Pieces DEF Typed
<1>2. AtTheEnd(Notice(world)) \in Seq(MessagesOf(id))
  BY <1>1, AppendProperties DEF AtTheEnd
<1>3. BeforeUser(Notice(world)) \in Seq(MessagesOf(id))
  BY <1>1, <1>2, Inserted DEF BeforeUser
<1>4. [seen EXCEPT !.inherited = FALSE] \in SeenRec
  BY DEF Typed, SeenRec
<1> QED
  BY <1>1, <1>2, <1>3, <1>4 DEF Announces, Typed

LEMMA TurnTypes == ASSUME Typed, TurnSteps PROVE Typed'
<1> USE DEF Typed
<1>1. DiskTyped(disk')
  BY DiskSteps DEF DiskMoves, Next
<1>2. hist \in Seq(MessagesOf(id)) /\ turn \in TurnRec /\ host \in HostRec /\ seen \in SeenRec
      /\ "turn" \in Everyone /\ host.prompt \in Surfaces
  BY DEF Everyone, HostRec, HostType
<1>3. \A m \in MessagesOf(id) : Append(hist, m) \in Seq(MessagesOf(id))
  BY <1>2, AppendProperties
<1>4. \A phase \in Phases : [turn EXCEPT !.phase = phase] \in TurnRec
  BY DEF TurnRec
<1>5. ASSUME NEW surface \in HostRec, Begins(surface)
      PROVE  /\ host' \in HostRec /\ turn' \in TurnRec /\ hist' \in Seq(MessagesOf(id)) /\ seen' \in SeenRec
  <2>1. surface.prompt \in Surfaces
    BY DEF HostRec, HostType
  <2>2. turn' \in TurnRec
    BY <1>2, <1>5, <2>1 DEF Begins, BeginsAfter, TurnRec, Phases, Stops
  <2>3. hist' \in Seq(MessagesOf(id))
    BY <1>3, <1>5, Pieces DEF Begins, BeginsAfter, Kinds
  <2>4. seen' \in SeenRec
    BY <1>5 DEF Begins, BeginsAfter, SeenRec
  <2> QED
    BY <1>5, <2>2, <2>3, <2>4 DEF Begins, BeginsAfter
<1>6. CASE TurnStarts
  <2>1. Materialized(host, "turn") \in HostRec
    BY <1>2, Pieces, HostTypes
  <2>2. [turn EXCEPT !.phase = "preparing"] \in TurnRec
    BY <1>4 DEF Phases
  <2> QED
    BY <1>1, <1>5, <1>6, <2>1, <2>2 DEF TurnStarts, capture
<1>7. CASE TurnPrepared
  <2>1. Prepared(host, "turn", world) \in HostRec
    BY <1>2, Pieces, HostTypes
  <2> QED
    BY <1>1, <1>5, <1>7, <2>1 DEF TurnPrepared, capture
<1>8. CASE TurnAnnounces
  <2>1. [turn EXCEPT !.phase = "ready"] \in TurnRec
    BY <1>4 DEF Phases
  <2> QED
    BY <1>1, <1>8, <2>1, AnnounceTypes DEF TurnAnnounces, capture
<1>9. CASE TurnAsks
  <2>1. hist \in Seq(Message)
    BY <1>2, MessageTypes, Wider
  <2>2. [seen EXCEPT !.asked = TRUE, !.prompt = host.prompt, !.messages = hist] \in SeenRec
    BY <1>2, <2>1 DEF SeenRec
  <2>3. [turn EXCEPT !.phase = "asking"] \in TurnRec
    BY <1>4 DEF Phases
  <2> QED
    BY <1>1, <1>9, <2>2, <2>3 DEF TurnAsks, capture
<1>10. ASSUME NEW kinds \in {<<>>, <<"answer">>, <<"round">>}, NEW phase \in Phases, TurnSays(kinds, phase)
       PROVE  Typed'
  <2>1. [i \in DOMAIN kinds |-> Said(kinds[i])] \in Seq(MessagesOf(id))
    <3>1. CASE kinds = <<>>
      BY <3>1
    <3>2. ASSUME NEW kind \in Kinds, kinds = <<kind>> PROVE [i \in DOMAIN kinds |-> Said(kinds[i])] \in Seq(MessagesOf(id))
      <4>1. Said(kind) \in MessagesOf(id)
        BY Pieces
      <4>2. [i \in DOMAIN kinds |-> Said(kinds[i])] = [i \in 1 .. 1 |-> Said(kind)]
        BY <3>2
      <4> QED
        BY <4>1, <4>2
    <3> QED
      BY <3>1, <3>2 DEF Kinds
  <2>2. hist' \in Seq(MessagesOf(id))
    BY <1>2, <1>10, <2>1, ConcatProperties DEF TurnSays
  <2> QED
    BY <1>1, <1>4, <1>10, <2>2 DEF TurnSays, capture
<1>11. CASE TurnAnswers \/ TurnCalls \/ TurnResults \/ TurnCut \/ TurnFails
  BY <1>10, <1>11 DEF TurnAnswers, TurnCalls, TurnResults, TurnCut, TurnFails, Phases
<1>12. CASE TurnInterrupted
  <2> DEFINE round == IF turn.phase = "calling" THEN <<Said("round")>> ELSE <<>>
  <2>1. Said("round") \in MessagesOf(id) /\ Said("stop") \in MessagesOf(id)
    BY Pieces DEF Kinds
  <2>2. round \in Seq(MessagesOf(id)) /\ <<Said("stop")>> \in Seq(MessagesOf(id))
    BY <2>1
  <2>3. hist' = (hist \o round) \o <<Said("stop")>>
    BY <1>12 DEF TurnInterrupted
  <2> HIDE DEF round
  <2>4. hist \o round \in Seq(MessagesOf(id))
    BY <1>2, <2>2, ConcatProperties
  <2>5. hist' \in Seq(MessagesOf(id))
    BY <2>2, <2>3, <2>4, ConcatProperties
  <2>6. turn' \in TurnRec
    BY <1>12 DEF TurnInterrupted, TurnRec, Phases, Stops
  <2> QED
    BY <1>1, <1>12, <2>5, <2>6 DEF TurnInterrupted, capture
<1>13. CASE TurnEnds
  <2>1. [host EXCEPT !.prompt = turn.atStart] \in HostRec
    BY DEF HostRec, HostType, TurnRec
  <2>2. doing' \in [Callers -> CallRec]
    <3>1. \A c \in Callers : [doing[c] EXCEPT !.op = "ended"] \in CallRec
      BY DEF CallRec, Ops
    <3> QED
      BY <1>13, <3>1 DEF TurnEnds
  <2> QED
    BY <1>1, <1>13, <2>1, <2>2, Pieces DEF TurnEnds, capture
<1> QED
  BY <1>6, <1>7, <1>8, <1>9, <1>11, <1>12, <1>13 DEF TurnSteps

LEMMA CallTypes == ASSUME Typed, NEW c \in Callers, Calls(c) PROVE Typed'
<1> USE DEF Typed
<1>1. DiskTyped(disk')
  BY DiskSteps DEF DiskMoves, Next
<1>2. c \in Everyone /\ <<>> \in Seq(Nat) /\ host.prompt \in Surfaces
  BY DEF Everyone, HostRec, HostType
<1>3. ASSUME NEW op \in Ops, NEW left \in Seq(Nat), Goes(c, op, left) PROVE doing' \in [Callers -> CallRec]
  <2>1. [op |-> op, left |-> left] \in CallRec
    BY DEF CallRec
  <2> QED
    BY <1>3, <2>1 DEF Goes
<1>4. CASE Run(c) \/ Cancel(c) \/ Save(c)
  <2>1. [NoTurn EXCEPT !.phase = "new"] \in TurnRec
    BY Pieces DEF NoTurn, TurnRec, Phases
  <2> QED
    BY <1>1, <1>4, <2>1, Pieces DEF Run, Cancel, Save, capture
<1>5. CASE Prepare(c)
  <2>1. Materialized(host, c) \in HostRec
    BY <1>2, Pieces, HostTypes
  <2>2. doing' \in [Callers -> CallRec]
    BY <1>2, <1>3, <1>5 DEF Prepare, Ops
  <2> QED
    BY <1>1, <1>5, <2>1, <2>2 DEF Prepare, capture
<1>6. CASE Rebuild(c)
  <2>1. Rebuilt(host, world) \in HostRec
    BY <1>2, Pieces, HostTypes
  <2>2. Len(hist) \in Nat
    BY LenProperties
  <2>3. seen' \in SeenRec
    BY <1>6, <2>2 DEF Rebuild, SeenRec
  <2> QED
    BY <1>1, <1>6, <2>1, <2>3, Pieces DEF Rebuild, capture
<1>7. ASSUME NEW surface \in HostRec, NEW left \in Seq(Nat), Changes(c, surface, left)
      PROVE  host' \in HostRec /\ doing' \in [Callers -> CallRec]
  <2>1. Materialized(surface, c) \in HostRec
    BY <1>2, Pieces, HostTypes
  <2> QED
    BY <1>3, <1>7, <2>1 DEF Changes, Ops
<1>8. CASE NewSession(c)
  <2>1. id' \in Sessions /\ <<>> \in Seq(MessagesOf(id'))
    BY <1>8 DEF NewSession
  <2>2. seen' \in SeenRec
    BY <1>8, Pieces DEF NewSession, SeenRec
  <2>3. host' \in HostRec /\ doing' \in [Callers -> CallRec]
    BY <1>2, <1>7, <1>8 DEF NewSession
  <2> QED
    BY <1>1, <1>2, <1>8, <2>1, <2>2, <2>3 DEF NewSession
<1>9. CASE LoadSession(c)
  <2>1. PICK s \in Stored :
           /\ id' = s
           /\ hist' = disk[s].hist
           /\ base' = disk[s].base
           /\ captured' = disk[s].captured
           /\ seen' = [disk[s].seen EXCEPT !.torn =
                          @ \/ (disk[s].surface = Nothing /\ seen.torn)]
           /\ Changes(c, Reinstated(host, disk[s].surface), disk[s].captured)
    BY <1>9 DEF LoadSession
  <2>2. s \in Sessions /\ disk[s] \in RecordRec(s)
    BY DEF Stored, DiskTyped
  <2>3. /\ hist' \in Seq(MessagesOf(id')) /\ base' \in Surfaces /\ captured' \in Seq(Nat)
        /\ disk[s].surface \in Surfaces /\ disk[s].seen \in SeenRec
    BY <2>1, <2>2 DEF RecordRec
  <2>4. seen' \in SeenRec
    BY <2>1, <2>3 DEF SeenRec
  <2>5. Reinstated(host, disk[s].surface) \in HostRec
    BY <1>2, <2>3, HostTypes, Pieces
  <2>6. host' \in HostRec /\ doing' \in [Callers -> CallRec]
    BY <1>7, <2>1, <2>3, <2>5
  <2> QED
    BY <1>1, <1>9, <2>1, <2>2, <2>3, <2>4, <2>6 DEF LoadSession
<1>10. CASE Close(c) \/ AClose(c)
  <2>1. \A how \in {"close", "aclose"} : TornDown(how) => closed' \in ClosedRec
    BY DEF TornDown, ClosedRec
  <2>2. Goes(c, "waiting", <<>>) => doing' \in [Callers -> CallRec]
    BY <1>2, <1>3 DEF Ops
  <2> QED
    BY <1>1, <1>10, <2>1, <2>2, Pieces DEF Close, AClose, capture
<1> QED
  BY <1>4, <1>5, <1>6, <1>8, <1>9, <1>10 DEF Calls

LEMMA OtherTypes ==
    ASSUME Typed, Emit \/ EmissionArrives \/ WorldChanges \/ Reopen \/ (\E c \in Callers : CallerGoesOn(c)),
           LeftInv, flying \subseteq Nat
    PROVE  Typed'
<1> USE DEF Typed
<1>1. DiskTyped(disk')
  BY DiskSteps DEF DiskMoves, Next
<1>2. CASE Emit \/ WorldChanges
  BY <1>1, <1>2 DEF Emit, WorldChanges, capture
<1>3. \A m \in Nat : Capture(m) \in Seq(Nat)
  BY AppendProperties DEF Capture
<1>4. CASE EmissionArrives
  BY <1>1, <1>3, <1>4 DEF EmissionArrives
<1>5. CASE Reopen
  <2>1. ASSUME NEW s \in Sessions, NEW old \in RecordRec(s), Opened(s, old)
        PROVE  /\ host' \in HostRec /\ id' \in Sessions /\ hist' \in Seq(MessagesOf(id')) /\ base' \in Surfaces
               /\ captured' \in Seq(Nat) /\ replaying' \in BOOLEAN /\ turn' \in TurnRec
               /\ doing' \in [Callers -> CallRec] /\ closed' \in ClosedRec /\ seen' \in SeenRec
    <3>1. old.surface \in Surfaces /\ old.base \in Surfaces /\ old.seen \in SeenRec /\ old.hist \in Seq(MessagesOf(s))
      BY DEF RecordRec
    <3>2. Assembled(old.surface) \in HostRec
      BY <3>1, Pieces DEF Assembled, HostRec, HostType
    <3>3. hist' \in Seq(MessagesOf(s)) /\ id' = s /\ host' = Assembled(old.surface) /\ seen' = old.seen
          /\ base' = old.base /\ captured' = <<>> /\ replaying' = FALSE /\ turn' = NoTurn /\ closed' = Open
      BY <2>1, <3>1 DEF Opened
    <3>4. NoTurn \in TurnRec /\ Open \in ClosedRec /\ Idle \in CallRec
      BY Pieces
    <3>5. doing' \in [Callers -> CallRec]
      BY <2>1, <3>4 DEF Opened
    <3>6. <<>> \in Seq(Nat)
      OBVIOUS
    <3> QED
      BY <3>1, <3>2, <3>3, <3>4, <3>5, <3>6
  <2>2. \A s \in Stored : s \in Sessions /\ disk[s] \in RecordRec(s)
    BY DEF Stored, DiskTyped
  <2>3. \A s \in Sessions : Empty \in RecordRec(s)
    BY Pieces DEF Empty, RecordRec
  <2> QED
    BY <1>1, <1>5, <2>1, <2>2, <2>3 DEF Reopen
<1>6. ASSUME NEW c \in Callers, CallerGoesOn(c) PROVE Typed'
  <2>1. doing[c].left \in Seq(Nat) /\ doing[c] \in CallRec /\ <<>> \in Seq(Nat)
    BY DEF CallRec
  <2>2. ASSUME NEW op \in Ops, NEW left \in Seq(Nat), Goes(c, op, left) PROVE doing' \in [Callers -> CallRec]
    <3>1. [op |-> op, left |-> left] \in CallRec
      BY DEF CallRec
    <3> QED
      BY <2>2, <3>1 DEF Goes
  <2>3. CASE CallerPrepared(c)
    <3>1. Prepared(host, c, world) \in HostRec
      BY Pieces, HostTypes DEF Everyone
    <3>2. doing' \in [Callers -> CallRec]
      BY <2>1, <2>2, <2>3 DEF CallerPrepared, Ops
    <3> QED
      BY <1>1, <2>3, <3>1, <3>2 DEF CallerPrepared, capture
  <2>4. CASE ChangeAnnounced(c)
    <3>1. hist' \in Seq(MessagesOf(id)) /\ base' \in Surfaces /\ seen' \in SeenRec
      BY <2>4, AnnounceTypes DEF ChangeAnnounced
    <3>2. doing' \in [Callers -> CallRec]
      BY <2>1, <2>2, <2>4 DEF ChangeAnnounced, Ops
    <3> QED
      BY <1>1, <2>4, <3>1, <3>2 DEF ChangeAnnounced
  <2>5. CASE Replays(c)
    <3>1. doing[c].left # <<>>
      BY <2>5 DEF Replays, LeftInv
    <3>2. Head(doing[c].left) \in Nat /\ Tail(doing[c].left) \in Seq(Nat)
      BY <2>1, <3>1, HeadTailProperties
    <3>3. captured' \in Seq(Nat)
      BY <1>3, <2>5, <3>2 DEF Replays
    <3>4. doing' \in [Callers -> CallRec] /\ replaying' \in BOOLEAN
      BY <2>1, <2>2, <2>5, <3>2 DEF Replays, Ops
    <3> QED
      BY <1>1, <2>5, <3>3, <3>4 DEF Replays
  <2>6. CASE ACloseReturns(c)
    <3>1. closed' \in ClosedRec
      BY <2>6 DEF ACloseReturns, TornDown, ClosedRec
    <3>a. doing' \in [Callers -> CallRec]
      <4>1. Goes(c, "idle", <<>>) /\ "idle" \in Ops
        BY <2>6 DEF ACloseReturns, Ops
      <4> QED
        BY <2>1, <2>2, <4>1
    <3> QED
      BY <1>1, <2>6, <3>1, <3>a DEF ACloseReturns, capture
  <2> QED
    BY <1>6, <2>3, <2>4, <2>5, <2>6 DEF CallerGoesOn
<1> QED
  BY <1>2, <1>4, <1>5, <1>6

LEMMA LeftKept == ASSUME Typed, LeftInv, [Next]_vars PROVE LeftInv'
<1> USE DEF LeftInv
<1>1. doing \in [Callers -> CallRec]
  BY DEF Typed
<1>2. ASSUME NEW c \in Callers, NEW op, NEW left, Goes(c, op, left), op = "replaying" => left # <<>>
      PROVE  LeftInv'
  BY <1>1, <1>2 DEF Goes
<1>3. CASE UNCHANGED doing
  BY <1>3
<1>4. CASE TurnEnds \/ Reopen
  <2>1. \A c \in Callers : doing'[c].op = "replaying" => doing'[c] = doing[c]
    <3>1. CASE TurnEnds
      BY <1>1, <3>1 DEF TurnEnds, CallRec
    <3>2. CASE Reopen
      BY <3>2 DEF Reopen, Opened, Idle
    <3> QED
      BY <1>4, <3>1, <3>2
  <2> QED
    BY <2>1
<1>5. CASE TurnSteps
  BY <1>3, <1>4, <1>5
     DEF TurnSteps, TurnStarts, TurnPrepared, TurnAnnounces, TurnAsks, TurnAnswers, TurnCalls,
         TurnResults, TurnCut, TurnFails, TurnSays, TurnInterrupted
<1>6. ASSUME NEW c \in Callers, Calls(c) PROVE LeftInv'
  BY <1>2, <1>3, <1>6 DEF Calls, Run, Cancel, Prepare, Save, Rebuild, NewSession, LoadSession, Changes, Close, AClose
<1>7. ASSUME NEW c \in Callers, CallerGoesOn(c) PROVE LeftInv'
  <2>1. CASE Replays(c)
    <3>1. doing[c].left \in Seq(Nat) /\ doing[c].left # <<>>
      BY <1>1, <2>1 DEF Replays, CallRec
    <3>2. Len(doing[c].left) # 1 => Tail(doing[c].left) # <<>>
      <4>1. Tail(doing[c].left) = <<>> => Len(Tail(doing[c].left)) = 0
        <5>1. Len(<<>>) = 0
          OBVIOUS
        <5> QED
          BY ONLY <5>1
      <4>2. Len(doing[c].left) \in Nat /\ Len(Tail(doing[c].left)) = Len(doing[c].left) - 1
        BY <3>1, HeadTailProperties, LenProperties
      <4> QED
        BY <4>1, <4>2
    <3> QED
      BY <1>2, <2>1, <3>2 DEF Replays
  <2>2. CASE CallerPrepared(c) \/ ChangeAnnounced(c) \/ ACloseReturns(c)
    BY <1>2, <2>2 DEF CallerPrepared, ChangeAnnounced, ACloseReturns
  <2> QED
    BY <1>7, <2>1, <2>2 DEF CallerGoesOn
<1>8. CASE Emit \/ EmissionArrives \/ WorldChanges
  BY <1>3, <1>8 DEF Emit, EmissionArrives, WorldChanges
<1>9. CASE UNCHANGED vars
  BY <1>3, <1>9 DEF vars
<1> QED
  BY <1>4, <1>5, <1>6, <1>7, <1>8, <1>9 DEF Next

-----------------------------------------------------------------------------
(* Plugin messages                                                         *)

\* Of the first n messages some are recorded, once each and none that is still
\* on its way.
Once(messages, n, coming) ==
    /\ messages \in Seq(1 .. n)
    /\ IsInjective(messages)
    /\ \A i \in DOMAIN messages : messages[i] \notin coming
Recorded(messages) == Once(messages, emits, flying)

\* While a replay runs the capture is switched off.
CaptureInv ==
    /\ emits \in 0 .. MaxEmits
    /\ flying \subseteq 1 .. emits
    /\ Recorded(captured)
    /\ \A s \in Stored : Recorded(disk[s].captured)
    /\ \A c \in Callers : doing[c].op = "replaying" => replaying

\* No two sessions are replayed at once.
OneReplay ==
    \A c, d \in Callers : doing[c].op = "replaying" /\ doing[d].op = "replaying" => c = d

\* Messages that were recorded once stay so when later ones are on their way.
LEMMA OnceStays ==
    ASSUME NEW n \in Nat, NEW more \in Nat, n <= more, NEW coming, NEW next,
           \A m \in next : m \in coming \/ m > n
    PROVE  \A messages : Once(messages, n, coming) => Once(messages, more, next)
<1> SUFFICES ASSUME NEW messages, Once(messages, n, coming) PROVE Once(messages, more, next)
  OBVIOUS
<1>1. messages \in Seq(1 .. n) /\ 1 .. n \subseteq 1 .. more
  BY DEF Once
<1>2. messages \in Seq(1 .. more)
  BY <1>1, Wider
<1>3. ASSUME NEW i \in DOMAIN messages PROVE messages[i] \notin next
  <2>1. messages[i] \in 1 .. n
    BY <1>1, LenProperties
  <2>2. messages[i] \notin coming /\ ~(messages[i] > n)
    BY <2>1 DEF Once
  <2> QED
    BY <2>2
<1> QED
  BY <1>2, <1>3 DEF Once

\* A message that arrives is recorded once more.
LEMMA OnceMore ==
    ASSUME NEW n \in Nat, NEW coming, NEW m \in coming, m \in 1 .. n,
           NEW messages, Once(messages, n, coming)
    PROVE  Once(Append(messages, m), n, coming \ {m})
<1> DEFINE more == Append(messages, m)
           k == Len(messages)
<1>1. messages \in Seq(1 .. n) /\ DOMAIN messages = 1 .. k /\ k \in Nat
  BY LenProperties DEF Once
<1>2. /\ more \in Seq(1 .. n) /\ Len(more) = k + 1 /\ more[k + 1] = m
      /\ \A i \in 1 .. k : more[i] = messages[i]
  BY <1>1, AppendProperties
<1>3. DOMAIN more = 1 .. k + 1
  BY <1>2, LenProperties
<1> HIDE DEF more, k
<1>4. \A i \in 1 .. k + 1 : i \in 1 .. k \/ i = k + 1
  BY <1>1
<1>5. \A i \in 1 .. k : messages[i] \notin coming /\ messages[i] # m
  BY <1>1 DEF Once
<1>6. IsInjective(more)
  <2> SUFFICES ASSUME NEW a \in 1 .. k + 1, NEW b \in 1 .. k + 1, more[a] = more[b] PROVE a = b
    BY <1>3 DEF IsInjective
  <2>1. CASE a \in 1 .. k /\ b \in 1 .. k
    BY <1>1, <1>2, <2>1 DEF Once, IsInjective
  <2> QED
    BY <1>2, <1>4, <1>5, <2>1
<1>7. \A i \in DOMAIN more : more[i] \notin coming \ {m}
  BY <1>2, <1>3, <1>4, <1>5
<1> QED
  BY <1>2, <1>6, <1>7 DEF Once, more

LEMMA OnceNone == \A n, coming : Once(<<>>, n, coming)
  BY DEF Once, IsInjective

\* Messages on file stay recorded once.
LEMMA OnFile ==
    ASSUME CaptureInv, DiskMoves,
           \A messages : Recorded(messages) => Once(messages, emits', flying')
    PROVE  \A s \in Stored' : Once(disk'[s].captured, emits', flying')
<1>1. Recorded(captured) /\ \A s \in Stored : Recorded(disk[s].captured)
  BY DEF CaptureInv
<1>2. Record.captured = captured
  BY DEF Record
<1> QED
  BY <1>1, <1>2 DEF DiskMoves, Stored

\* A step keeps what was captured apart from what is on its way.
LEMMA CaptureKept ==
    ASSUME Typed, CaptureInv, OneReplay, [Next]_vars
    PROVE  CaptureInv'
<1>1. DiskMoves
  BY DiskSteps
<1>2. emits \in Nat /\ flying \subseteq 1 .. emits /\ emits \in 0 .. MaxEmits /\ MaxEmits \in Nat
  BY ConversationAssumption DEF CaptureInv
<1>3. doing \in [Callers -> CallRec]
  BY DEF Typed
<1>4. /\ Recorded(captured) /\ Recorded(<<>>)
      /\ \A c \in Callers : doing[c].op = "replaying" => replaying
      /\ \A s \in Stored : Recorded(disk[s].captured)
  BY OnceNone DEF CaptureInv, Recorded
<1>5. ASSUME emits' \in 0 .. MaxEmits, flying' \subseteq 1 .. emits', emits <= emits',
             \A m \in flying' : m \in flying \/ m > emits,
             Recorded(captured') \/ Once(captured', emits', flying'),
             \A c \in Callers : doing'[c].op = "replaying" => replaying'
      PROVE  CaptureInv'
  <2>1. emits' \in Nat
    BY <1>2, <1>5
  <2>2. \A messages : Recorded(messages) => Once(messages, emits', flying')
    BY <1>2, <1>5, <2>1, OnceStays DEF Recorded
  <2>3. \A s \in Stored' : Once(disk'[s].captured, emits', flying')
    BY <1>1, <2>2, OnFile
  <2>4. Once(captured', emits', flying')
    BY <1>5, <2>2
  <2> QED
    BY <1>5, <2>3, <2>4 DEF CaptureInv, Recorded
<1>6. ASSUME emits' = emits, flying' \subseteq flying, Recorded(captured'),
             \A c \in Callers : doing'[c].op = "replaying" => replaying'
      PROVE  CaptureInv'
  <2>1. flying' \subseteq 1 .. emits' /\ emits <= emits' /\ \A m \in flying' : m \in flying \/ m > emits
    BY <1>2, <1>6
  <2> QED
    BY <1>2, <1>5, <1>6, <2>1
<1>7. ASSUME NEW c \in Callers, NEW op, NEW left, Goes(c, op, left), op # "replaying" \/ replaying',
             \A d \in Callers \ {c} : doing[d].op = "replaying" => replaying'
      PROVE  \A d \in Callers : doing'[d].op = "replaying" => replaying'
  BY <1>3, <1>7 DEF Goes
<1>8. CASE UNCHANGED <<capture, doing>>
  BY <1>4, <1>6, <1>8 DEF capture
<1>9. CASE TurnSteps
  <2>1. UNCHANGED capture
    BY <1>9 DEF TurnSteps, TurnStarts, TurnPrepared, TurnAnnounces, TurnAsks, TurnAnswers, TurnCalls,
         TurnResults, TurnCut, TurnFails, TurnSays, TurnInterrupted, TurnEnds
  <2>2. \A c \in Callers : doing'[c].op = "replaying" => doing[c].op = "replaying"
    <3>1. CASE TurnEnds
      BY <1>3, <3>1 DEF TurnEnds, CallRec
    <3>2. CASE ~TurnEnds
      BY <1>9, <3>2
         DEF TurnSteps, TurnStarts, TurnPrepared, TurnAnnounces, TurnAsks, TurnAnswers, TurnCalls,
             TurnResults, TurnCut, TurnFails, TurnSays, TurnInterrupted
    <3> QED
      BY <3>1, <3>2
  <2> QED
    BY <1>4, <1>6, <2>1, <2>2 DEF capture
<1>10. ASSUME NEW c \in Callers, Calls(c) PROVE CaptureInv'
  <2>1. CASE Run(c) \/ Cancel(c) \/ Save(c) \/ Close(c)
    BY <1>8, <2>1 DEF Run, Cancel, Save, Close
  <2>2. CASE Prepare(c) \/ Rebuild(c) \/ AClose(c)
    <3>1. UNCHANGED capture
      BY <2>2 DEF Prepare, Rebuild, AClose
    <3>2. \A d \in Callers : doing'[d].op = "replaying" => replaying'
      BY <1>4, <1>7, <2>2, <3>1 DEF Prepare, Rebuild, AClose, capture
    <3> QED
      BY <1>4, <1>6, <3>1, <3>2 DEF capture
  <2>3. CASE NewSession(c) \/ LoadSession(c)
    <3>1. emits' = emits /\ flying' = flying /\ replaying' = replaying
      BY <2>3 DEF NewSession, LoadSession
    <3>2. Recorded(captured')
      BY <1>4, <2>3 DEF NewSession, LoadSession
    <3>3. \E left : \E op \in {"changing", "announcing"} : Goes(c, op, left)
      BY <2>3 DEF NewSession, LoadSession, Changes
    <3>4. \A d \in Callers : doing'[d].op = "replaying" => replaying'
      BY <1>4, <1>7, <3>1, <3>3
    <3> QED
      BY <1>6, <3>1, <3>2, <3>4
  <2> QED
    BY <1>10, <2>1, <2>2, <2>3 DEF Calls
<1>11. ASSUME NEW c \in Callers, CallerGoesOn(c) PROVE CaptureInv'
  <2>1. CASE CallerPrepared(c) \/ ACloseReturns(c)
    <3>1. UNCHANGED capture
      BY <2>1 DEF CallerPrepared, ACloseReturns
    <3>2. \A d \in Callers : doing'[d].op = "replaying" => replaying'
      BY <1>4, <1>7, <2>1, <3>1 DEF CallerPrepared, ACloseReturns, capture
    <3> QED
      BY <1>4, <1>6, <3>1, <3>2 DEF capture
  <2>2. CASE ChangeAnnounced(c)
    <3>1. captured' = captured /\ emits' = emits /\ flying' = flying
          /\ replaying' = (replaying \/ doing[c].left # <<>>)
      BY <2>2 DEF ChangeAnnounced
    <3>2. \E op, left : Goes(c, op, left) /\ (op # "replaying" \/ replaying')
      <4>1. CASE doing[c].left = <<>>
        BY <2>2, <4>1 DEF ChangeAnnounced
      <4>2. CASE doing[c].left # <<>>
        BY <2>2, <3>1, <4>2 DEF ChangeAnnounced
      <4> QED
        BY <4>1, <4>2
    <3>3. \A d \in Callers : doing'[d].op = "replaying" => replaying'
      BY <1>4, <1>7, <3>1, <3>2
    <3> QED
      BY <1>4, <1>6, <3>1, <3>3
  <2>3. CASE Replays(c)
    <3>1. replaying /\ doing[c].op = "replaying"
      BY <1>4, <2>3 DEF Replays
    <3>2. captured' = captured /\ emits' = emits /\ flying' = flying
      BY <2>3, <3>1 DEF Replays, Capture
    <3>3. \A d \in Callers \ {c} : doing[d].op # "replaying"
      BY <3>1 DEF OneReplay
    <3>4. \A d \in Callers : doing'[d].op = "replaying" => replaying'
      BY <1>7, <2>3, <3>1, <3>3 DEF Replays
    <3> QED
      BY <1>4, <1>6, <3>2, <3>4
  <2> QED
    BY <1>11, <2>1, <2>2, <2>3 DEF CallerGoesOn
<1>12. CASE Emit
  <2>1. emits' = emits + 1 /\ emits < MaxEmits /\ flying' = flying \union {emits'}
        /\ captured' = captured /\ replaying' = replaying /\ doing' = doing
    BY <1>12 DEF Emit
  <2>2. emits <= emits' /\ emits' \in 0 .. MaxEmits /\ flying' \subseteq 1 .. emits'
        /\ \A m \in flying' : m \in flying \/ m > emits
    BY <1>2, <2>1
  <2> QED
    BY <1>4, <1>5, <2>1, <2>2
<1>13. CASE EmissionArrives
  <2>1. PICK m \in flying : flying' = flying \ {m} /\ captured' = Capture(m)
    BY <1>13 DEF EmissionArrives
  <2>2. emits' = emits /\ doing' = doing /\ replaying' = replaying /\ m \in 1 .. emits
    BY <1>2, <1>13 DEF EmissionArrives
  <2>3. CASE replaying
    BY <1>4, <1>6, <2>1, <2>2, <2>3 DEF Capture
  <2>4. CASE ~replaying
    <3>1. captured' = Append(captured, m)
      BY <2>1, <2>4 DEF Capture
    <3>2. Once(captured', emits', flying')
      BY <1>2, <1>4, <2>1, <2>2, <3>1, OnceMore DEF Recorded
    <3>3. flying' \subseteq 1 .. emits' /\ emits <= emits' /\ \A k \in flying' : k \in flying \/ k > emits
      BY <1>2, <2>1, <2>2
    <3> QED
      BY <1>2, <1>4, <1>5, <2>2, <3>2, <3>3
  <2> QED
    BY <2>3, <2>4
<1>14. CASE WorldChanges
  BY <1>8, <1>14 DEF WorldChanges
<1>15. CASE Reopen
  <2>1. flying' = {} /\ captured' = <<>> /\ emits' = emits /\ \A c \in Callers : doing'[c].op # "replaying"
    BY <1>15 DEF Reopen, Opened, Idle
  <2> QED
    BY <1>4, <1>6, <2>1
<1>16. CASE UNCHANGED vars
  BY <1>8, <1>16 DEF vars
<1> QED
  BY <1>9, <1>10, <1>11, <1>12, <1>13, <1>14, <1>15, <1>16 DEF Next

-----------------------------------------------------------------------------
(* Records                                                                 *)

\* The types, and where a replay stands, whatever the tasks do.
TypesInv ==
    /\ Typed
    /\ LeftInv
    /\ emits \in Nat
    /\ flying \subseteq Nat

LEMMA TypesKept == ASSUME TypesInv, [Next]_vars PROVE TypesInv'
<1> USE DEF TypesInv
<1>1. Typed'
  <2>1. CASE UNCHANGED vars
    BY <2>1 DEF vars, capture, Typed
  <2> QED
    BY <2>1, TurnTypes, CallTypes, OtherTypes DEF Next
<1>2. emits' \in Nat /\ flying' \subseteq Nat
  <2>1. CASE Emit \/ EmissionArrives
    <3>1. CASE Emit
      <4>1. emits' = emits + 1 /\ flying' = flying \union {emits'}
        BY <3>1 DEF Emit
      <4> QED
        BY <4>1
    <3>2. CASE EmissionArrives
      BY <3>2 DEF EmissionArrives
    <3> QED
      BY <2>1, <3>1, <3>2
  <2>2. CASE UNCHANGED vars \/ WorldChanges \/ Reopen
    BY <2>2 DEF vars, capture, WorldChanges, Reopen, Opened
  <2>3. CASE TurnSteps
    BY <2>3 DEF capture, TurnSteps, TurnStarts, TurnPrepared, TurnAnnounces, TurnAsks, TurnAnswers, TurnCalls,
         TurnResults, TurnCut, TurnFails, TurnSays, TurnInterrupted, TurnEnds
  <2>4. ASSUME NEW c \in Callers, Calls(c) \/ CallerGoesOn(c) PROVE emits' = emits /\ flying' = flying
    BY <2>4
       DEF capture, Calls, Run, Cancel, Prepare, Save, Rebuild, NewSession, LoadSession, Close, AClose,
           CallerGoesOn, CallerPrepared, ChangeAnnounced, Replays, ACloseReturns
  <2> QED
    BY <2>1, <2>2, <2>3, <2>4 DEF Next
<1>3. LeftInv'
  BY LeftKept
<1> QED
  BY <1>1, <1>2, <1>3

RecordsInv == TypesInv /\ CaptureInv

LEMMA Starts == ASSUME Init PROVE RecordsInv /\ ClosedWhole
<1>1. Nothing \in Surfaces /\ Versions \subseteq Surfaces /\ MaxEmits \in Nat
  BY ConversationAssumption DEF Surfaces
<1>2. Unseen \in SeenRec
  <2>1. <<>> \in Seq(Message)
    OBVIOUS
  <2> QED
    BY <1>1, <2>1 DEF Unseen, SeenRec
<1>3. \A s \in Sessions : OldRecord(s) \in RecordRec(s)
  <2> SUFFICES ASSUME NEW s \in Sessions PROVE OldRecord(s) \in RecordRec(s)
    OBVIOUS
  <2>1. [in |-> s, kind |-> "user", says |-> Nothing] \in MessagesOf(s)
    BY <1>1, MessageTypes DEF Kinds
  <2>2. <<[in |-> s, kind |-> "user", says |-> Nothing]>> \in Seq(MessagesOf(s)) /\ <<>> \in Seq(Nat)
    BY <2>1
  <2> QED
    BY <1>1, <1>2, <2>2 DEF OldRecord, RecordRec
<1>4. PICK old \in SUBSET Sessions :
         /\ disk = [s \in Sessions |-> IF s \in old THEN OldRecord(s) ELSE Absent]
         /\ id \in Sessions \ old
  BY DEF Init
<1>5. DiskTyped(disk)
  BY <1>3, <1>4 DEF DiskTyped
<1>6. NoTurn \in TurnRec /\ Idle \in CallRec /\ Open \in ClosedRec
  <2>1. <<>> \in Seq(Nat)
    OBVIOUS
  <2> QED
    BY <1>1, <2>1 DEF NoTurn, TurnRec, Phases, Stops, Idle, CallRec, Ops, Open, ClosedRec
<1>7. Assembled(Nothing) \in HostRec
  BY <1>1 DEF Assembled, HostRec, HostType
<1>8. <<>> \in Seq(MessagesOf(id)) /\ <<>> \in Seq(Nat)
  OBVIOUS
<1>9. Typed
  BY <1>1, <1>2, <1>4, <1>5, <1>6, <1>7, <1>8 DEF Init, Typed
<1>10. LeftInv
  BY DEF Init, Idle, LeftInv
<1>11. CaptureInv
  <2>1. \A s \in Stored : disk[s].captured = <<>>
    BY <1>4 DEF Stored, OldRecord
  <2> QED
    BY <1>1, <2>1, OnceNone DEF Init, Idle, CaptureInv, Recorded
<1>12. ClosedWhole
  BY DEF Init, Open, ClosedWhole
<1>13. emits \in Nat /\ flying \subseteq Nat
  BY DEF Init
<1> QED
  BY <1>9, <1>10, <1>11, <1>12, <1>13 DEF RecordsInv, TypesInv

LEMMA RecordsMeant == ASSUME RecordsInv PROVE RecordsApart
<1>1. CapturedOnce
  BY DEF RecordsInv, CaptureInv, Recorded, Once, CapturedOnce
<1>2. SessionsApart
  <2> SUFFICES ASSUME NEW s \in Stored, NEW i \in DOMAIN disk[s].hist PROVE disk[s].hist[i].in = s
    BY DEF SessionsApart
  <2>1. s \in Sessions /\ disk[s].hist \in Seq(MessagesOf(s))
    BY DEF Stored, RecordsInv, TypesInv, Typed, DiskTyped, RecordRec
  <2>2. disk[s].hist[i] \in MessagesOf(s)
    BY <2>1, LenProperties
  <2> QED
    BY <2>1, <2>2, MessageTypes
<1> QED
  BY <1>1, <1>2 DEF RecordsApart

\* Conversation._capture_plugin_message and save(): whatever the plugins and the
\* tasks of the application do, a session's file holds the messages of that
\* session only, and every plugin message once, in memory and on disk, as long as
\* no two load_session() replay their messages at the same time.
THEOREM RecordsKeptApart == Spec /\ []OneReplay => []RecordsApart
<1>1. Init => RecordsInv
  BY Starts
<1>2. RecordsInv /\ OneReplay /\ [Next]_vars => RecordsInv'
  BY TypesKept, CaptureKept DEF RecordsInv, TypesInv
<1>3. RecordsInv => RecordsApart
  BY RecordsMeant
<1> QED
  BY <1>1, <1>2, <1>3, PTL DEF Spec

-----------------------------------------------------------------------------
(* Closing                                                                 *)

\* No step starts a turn between the end of the one aclose() waited for and the
\* step in which aclose() goes on.
Undisturbed == \A c \in Callers : Run(c) => \A d \in Callers : doing[d].op # "ended"

\* Then nothing runs while an aclose() is about to tear down.
Quiet == \A c \in Callers : doing[c].op = "ended" => ~Busy

LEMMA QuietKept ==
    ASSUME Typed, Quiet, Undisturbed, [Next]_vars
    PROVE  Quiet'
<1>1. doing \in [Callers -> CallRec]
  BY DEF Typed
<1>2. ASSUME turn' = turn \/ turn' = NoTurn \/ turn' = Stopped,
             \A c \in Callers : doing'[c].op = "ended" => doing[c].op = "ended"
      PROVE  Quiet'
  BY <1>2 DEF Quiet, Busy, Stopped, NoTurn, Typed, TurnRec
<1>3. ASSUME NEW c \in Callers, NEW op \in Ops \ {"ended"}, NEW left, Goes(c, op, left)
      PROVE  \A d \in Callers : doing'[d].op = "ended" => doing[d].op = "ended"
  BY <1>1, <1>3 DEF Goes
<1>4. CASE TurnSteps
  <2>1. CASE TurnEnds
    BY <2>1 DEF TurnEnds, Quiet, Busy, NoTurn
  <2>2. CASE ~TurnEnds
    <3>1. Busy /\ doing' = doing
      BY <1>4, <2>2
         DEF TurnSteps, TurnStarts, TurnPrepared, TurnAnnounces, TurnAsks, TurnAnswers, TurnCalls,
             TurnResults, TurnCut, TurnFails, TurnSays, TurnInterrupted, At, Busy
    <3> QED
      BY <3>1 DEF Quiet
  <2> QED
    BY <2>1, <2>2
<1>5. ASSUME NEW c \in Callers, Calls(c) PROVE Quiet'
  <2>1. CASE Run(c)
    BY <2>1 DEF Undisturbed, Run, Quiet
  <2>2. CASE Cancel(c) \/ Save(c) \/ Rebuild(c) \/ Close(c)
    BY <1>2, <2>2 DEF Cancel, Save, Rebuild, Close
  <2>3. CASE Prepare(c)
    <3>1. doing' = doing \/ Goes(c, "preparing", <<>>)
      BY <2>3 DEF Prepare
    <3> QED
      BY <1>2, <1>3, <2>3, <3>1 DEF Prepare, Ops
  <2>4. CASE NewSession(c) \/ LoadSession(c)
    <3>1. \E op \in {"changing", "announcing"} : \E left : Goes(c, op, left)
      BY <2>4 DEF NewSession, LoadSession, Changes
    <3> QED
      BY <1>2, <1>3, <2>4, <3>1 DEF NewSession, LoadSession, Ops
  <2>5. CASE AClose(c)
    <3>1. doing' = doing \/ Goes(c, "waiting", <<>>)
      BY <2>5 DEF AClose
    <3> QED
      BY <1>2, <1>3, <2>5, <3>1 DEF AClose, Ops
  <2> QED
    BY <1>5, <2>1, <2>2, <2>3, <2>4, <2>5 DEF Calls
<1>6. ASSUME NEW c \in Callers, CallerGoesOn(c) PROVE Quiet'
  <2>1. turn' = turn
    BY <1>6 DEF CallerGoesOn, CallerPrepared, ChangeAnnounced, Replays, ACloseReturns
  <2>2. \E op \in {"idle", "announcing", "replaying"} : \E left : Goes(c, op, left)
    BY <1>6 DEF CallerGoesOn, CallerPrepared, ChangeAnnounced, Replays, ACloseReturns
  <2> QED
    BY <1>2, <1>3, <2>1, <2>2 DEF Ops
<1>7. CASE Emit \/ EmissionArrives \/ WorldChanges
  BY <1>2, <1>7 DEF Emit, EmissionArrives, WorldChanges
<1>8. CASE Reopen
  BY <1>8 DEF Reopen, Opened, Quiet, Busy, NoTurn
<1>9. CASE UNCHANGED vars
  BY <1>2, <1>9 DEF vars
<1> QED
  BY <1>4, <1>5, <1>6, <1>7, <1>8, <1>9 DEF Next

LEMMA ClosedKept ==
    ASSUME Typed, ClosedWhole, Quiet, [Next]_vars
    PROVE  ClosedWhole'
<1>1. id \in Sessions
  BY DEF Typed
<1>2. ASSUME UNCHANGED <<closed, turn, id, hist>>, disk' = disk \/ closed.how # "aclose" PROVE ClosedWhole'
  BY <1>2 DEF ClosedWhole, Busy
<1>3. ASSUME closed'.how # "aclose" PROVE ClosedWhole'
  BY <1>3 DEF ClosedWhole
<1>4. ASSUME TornDown("aclose"), ~Busy, UNCHANGED <<id, hist, turn>> PROVE ClosedWhole'
  <2>1. PICK save \in BOOLEAN :
           disk' = (IF save THEN Saved ELSE disk) /\ closed' = [how |-> "aclose", saved |-> save]
    BY <1>4 DEF TornDown
  <2>2. CASE save /\ hist # <<>>
    <3>1. disk' = [disk EXCEPT ![id] = Record]
      BY <2>1, <2>2 DEF Saved, Written
    <3>2. disk'[id].hist = hist
      BY <1>1, <3>1 DEF Record, Typed, DiskTyped
    <3> QED
      BY <1>4, <3>2 DEF ClosedWhole, Busy
  <2>3. CASE ~save \/ hist = <<>>
    BY <1>4, <2>1, <2>3 DEF ClosedWhole, Busy
  <2> QED
    BY <2>2, <2>3
<1>5. CASE TurnSteps
  <2>1. Busy /\ closed' = closed
    BY <1>5
       DEF TurnSteps, TurnStarts, TurnPrepared, TurnAnnounces, TurnAsks, TurnAnswers, TurnCalls,
           TurnResults, TurnCut, TurnFails, TurnSays, TurnInterrupted, TurnEnds, At, Busy
  <2> QED
    BY <1>3, <2>1 DEF ClosedWhole
<1>6. ASSUME NEW c \in Callers, Calls(c) PROVE ClosedWhole'
  <2>1. closed = Open
    BY <1>6 DEF Calls, Run, Cancel, Prepare, Save, Rebuild, NewSession, LoadSession, Close, AClose, Free
  <2>2. CASE AClose(c) /\ ~Busy
    <3>1. turn' = turn
      BY <2>2 DEF AClose, Stopped
    <3> QED
      BY <1>4, <2>2, <3>1 DEF AClose
  <2>3. CASE ~(AClose(c) /\ ~Busy)
    <3>1. closed'.how # "aclose"
      BY <1>6, <2>1, <2>3 DEF Calls, Run, Cancel, Prepare, Save, Rebuild, NewSession, LoadSession, Close, AClose,
                              TornDown, Open
    <3> QED
      BY <1>3, <3>1
  <2> QED
    BY <2>2, <2>3
<1>7. ASSUME NEW c \in Callers, CallerGoesOn(c) PROVE ClosedWhole'
  <2>1. CASE CallerPrepared(c) \/ Replays(c)
    BY <1>2, <2>1 DEF CallerPrepared, Replays
  <2>2. CASE ChangeAnnounced(c)
    BY <1>2, <1>3, <2>2 DEF ChangeAnnounced, Open
  <2>3. CASE ACloseReturns(c)
    BY <1>4, <2>3 DEF ACloseReturns, Quiet
  <2> QED
    BY <1>7, <2>1, <2>2, <2>3 DEF CallerGoesOn
<1>8. CASE Emit \/ EmissionArrives \/ WorldChanges
  BY <1>2, <1>8 DEF Emit, EmissionArrives, WorldChanges
<1>9. CASE Reopen
  BY <1>3, <1>9 DEF Reopen, Opened, Open
<1>10. CASE UNCHANGED vars
  BY <1>2, <1>10 DEF vars
<1> QED
  BY <1>5, <1>6, <1>7, <1>8, <1>9, <1>10 DEF Next

\* aclose(): the plugins are released and the channel is closed only after the
\* turn has ended, and what is saved then is the whole conversation, as long as
\* no task starts a turn between that ending and the step in which aclose() goes
\* on, whatever else the tasks do.
THEOREM ClosesWhole == Spec /\ [][Undisturbed]_vars => []ClosedWhole
<1>1. Init => TypesInv /\ ClosedWhole /\ Quiet
  <2> SUFFICES ASSUME Init PROVE TypesInv /\ ClosedWhole /\ Quiet
    OBVIOUS
  <2>1. TypesInv /\ ClosedWhole
    BY Starts DEF RecordsInv
  <2>2. Quiet
    BY DEF Init, Quiet, Busy, NoTurn
  <2> QED
    BY <2>1, <2>2
<1>2. TypesInv /\ ClosedWhole /\ Quiet /\ [Next]_vars /\ [Undisturbed]_vars
          => TypesInv' /\ ClosedWhole' /\ Quiet'
  <2> SUFFICES ASSUME TypesInv, ClosedWhole, Quiet, [Next]_vars, [Undisturbed]_vars
               PROVE  TypesInv' /\ ClosedWhole' /\ Quiet'
    OBVIOUS
  <2>1. TypesInv' /\ ClosedWhole'
    BY TypesKept, ClosedKept DEF TypesInv
  <2>2. CASE Undisturbed
    BY <2>1, <2>2, QuietKept DEF TypesInv
  <2>3. CASE UNCHANGED vars
    BY <2>1, <2>3 DEF vars, Quiet, Busy
  <2> QED
    BY <2>1, <2>2, <2>3
<1> QED
  BY <1>1, <1>2, PTL DEF Spec

-----------------------------------------------------------------------------
(* The surface: what is announced in a history                             *)

\* A history grows by messages that announce nothing.
Grows(h, g) ==
    /\ Len(h) <= Len(g)
    /\ \A i \in 1 .. Len(h) : g[i] = h[i]
    /\ \A i \in Len(h) + 1 .. Len(g) : g[i].kind # "notice"

\* A history takes in a notice at p, with at most ordinary messages after it.
Takes(h, g, p, v) ==
    /\ p \in 1 .. Len(h) + 1
    /\ Len(g) = Len(h) + 1
    /\ \A i \in 1 .. p - 1 : g[i] = h[i]
    /\ g[p].kind = "notice" /\ g[p].says = v
    /\ \A i \in p + 1 .. Len(g) : g[i].kind # "notice"

\* The notices after a point, and what the last of them says: b, or none is there.
News(h, since) == {i \in DOMAIN h : i > since /\ h[i].kind = "notice"}
Latest(h, since, b) ==
    IF b = Nothing THEN News(h, since) = {}
    ELSE \E i \in News(h, since) : (\A j \in News(h, since) : j <= i) /\ h[i].says = b

LEMMA GrowsNews ==
    ASSUME NEW T, NEW h \in Seq(T), NEW g \in Seq(T), Grows(h, g), NEW since \in Nat
    PROVE  /\ News(g, since) = News(h, since)
           /\ \A b : Latest(h, since, b) => Latest(g, since, b)
<1> DEFINE m == Len(h)
           n == Len(g)
<1>1. m \in Nat /\ n \in Nat /\ DOMAIN h = 1 .. m /\ DOMAIN g = 1 .. n
  BY LenProperties
<1>2. m <= n /\ (\A i \in 1 .. m : g[i] = h[i]) /\ \A i \in m + 1 .. n : g[i].kind # "notice"
  BY DEF Grows
<1> HIDE DEF m, n
<1>3. \A i \in 1 .. n : i \in 1 .. m \/ i \in m + 1 .. n
  BY <1>1
<1>4. \A i \in 1 .. m : i \in 1 .. n
  BY <1>1, <1>2
<1>5. News(g, since) = News(h, since)
  BY <1>1, <1>2, <1>3, <1>4 DEF News
<1>6. \A i \in News(h, since) : g[i] = h[i]
  BY <1>1, <1>2 DEF News
<1> QED
  BY <1>5, <1>6 DEF Latest

LEMMA TakesNews ==
    ASSUME NEW T, NEW h \in Seq(T), NEW g \in Seq(T), NEW p, NEW v, Takes(h, g, p, v),
           v # Nothing, NEW since \in Nat, since < p
    PROVE  Latest(g, since, v)
<1>1. Len(h) \in Nat /\ p \in 1 .. Len(g) /\ DOMAIN g = 1 .. Len(g) /\ p \in Nat /\ Len(g) \in Nat
  BY LenProperties DEF Takes
<1>2. p \in News(g, since) /\ g[p].says = v
  BY <1>1 DEF Takes, News
<1>3. ASSUME NEW j \in News(g, since) PROVE j <= p
  <2>1. j \in 1 .. Len(g) /\ g[j].kind = "notice"
    BY <1>1 DEF News
  <2>2. CASE j > p
    <3>1. j \in p + 1 .. Len(g)
      BY <1>1, <2>1, <2>2
    <3> QED
      BY <2>1, <3>1 DEF Takes
  <2> QED
    BY <1>1, <2>1, <2>2
<1> QED
  BY <1>2, <1>3 DEF Latest

\* What began a history still begins it.
LEMMA PrefixStays ==
    ASSUME NEW T, NEW m \in Seq(T), NEW h \in Seq(T), NEW g \in Seq(T), IsPrefix(m, h),
           Grows(h, g) \/ (\E p, v : Takes(h, g, p, v) /\ Len(m) < p)
    PROVE  IsPrefix(m, g)
<1>1. Len(m) \in Nat /\ Len(h) \in Nat /\ Len(g) \in Nat
  BY LenProperties
<1>2. Len(m) <= Len(h) /\ \A i \in 1 .. Len(m) : m[i] = h[i]
  BY Prefix
<1>3. CASE Grows(h, g)
  <2>1. \A i \in 1 .. Len(m) : i \in 1 .. Len(h)
    BY <1>1, <1>2
  <2>2. Len(m) <= Len(g) /\ \A i \in 1 .. Len(m) : m[i] = g[i]
    BY <1>1, <1>2, <1>3, <2>1 DEF Grows
  <2> QED
    BY <2>2, Prefix
<1>4. ASSUME NEW p, NEW v, Takes(h, g, p, v), Len(m) < p PROVE IsPrefix(m, g)
  <2>1. p \in 1 .. Len(h) + 1 /\ Len(g) = Len(h) + 1
    BY <1>4 DEF Takes
  <2>2. Len(m) <= Len(g) /\ \A i \in 1 .. Len(m) : i \in 1 .. p - 1
    BY <1>1, <1>4, <2>1
  <2>3. \A i \in 1 .. Len(m) : m[i] = g[i]
    BY <1>2, <1>4, <2>2 DEF Takes
  <2> QED
    BY <2>2, <2>3, Prefix
<1> QED
  BY <1>3, <1>4

LEMMA SelfPrefix == ASSUME NEW T, NEW h \in Seq(T) PROVE IsPrefix(h, h) /\ Grows(h, h)
<1>1. Len(h) \in Nat
  BY LenProperties
<1> QED
  BY <1>1, Prefix DEF Grows

LEMMA GrowsOn ==
    ASSUME NEW T, NEW a \in Seq(T), NEW b \in Seq(T), NEW c \in Seq(T), Grows(a, b), Grows(b, c)
    PROVE  Grows(a, c)
<1>1. Len(a) \in Nat /\ Len(b) \in Nat /\ Len(c) \in Nat
  BY LenProperties
<1>2. Len(a) <= Len(b) /\ Len(b) <= Len(c)
  BY DEF Grows
<1>3. \A i \in 1 .. Len(a) : c[i] = a[i]
  <2>1. \A i \in 1 .. Len(a) : i \in 1 .. Len(b)
    BY <1>1, <1>2
  <2> QED
    BY <2>1 DEF Grows
<1>4. ASSUME NEW i \in Len(a) + 1 .. Len(c) PROVE c[i].kind # "notice"
  <2>1. i \in Len(b) + 1 .. Len(c) \/ (i \in Len(a) + 1 .. Len(b) /\ i \in 1 .. Len(b))
    BY <1>1, <1>2
  <2> QED
    BY <2>1 DEF Grows
<1> QED
  BY <1>1, <1>2, <1>3, <1>4 DEF Grows

LEMMA Grown ==
    ASSUME NEW T, NEW h \in Seq(T), NEW t \in Seq(T), \A i \in 1 .. Len(t) : t[i].kind # "notice"
    PROVE  h \o t \in Seq(T) /\ Grows(h, h \o t) /\ Len(h \o t) = Len(h) + Len(t)
<1>1. Len(h) \in Nat /\ Len(t) \in Nat
  BY LenProperties
<1>2. /\ h \o t \in Seq(T) /\ Len(h \o t) = Len(h) + Len(t)
      /\ \A i \in 1 .. Len(h) + Len(t) : (h \o t)[i] = IF i <= Len(h) THEN h[i] ELSE t[i - Len(h)]
  BY ConcatProperties
<1> DEFINE g == h \o t
           m == Len(h)
           n == Len(t)
<1>3. /\ m \in Nat /\ n \in Nat /\ Len(g) = m + n
      /\ \A i \in 1 .. m + n : g[i] = IF i <= m THEN h[i] ELSE t[i - m]
      /\ \A i \in 1 .. n : t[i].kind # "notice"
  BY <1>1, <1>2
<1> HIDE DEF g, m, n
<1>4. \A i \in 1 .. m : g[i] = h[i]
  <2>1. \A i \in 1 .. m : i \in 1 .. m + n /\ i <= m
    BY <1>3
  <2> QED
    BY <1>3, <2>1
<1>5. ASSUME NEW i \in m + 1 .. m + n PROVE g[i].kind # "notice"
  <2>1. i \in 1 .. m + n /\ ~(i <= m) /\ i - m \in 1 .. n
    BY <1>3
  <2> QED
    BY <1>3, <2>1
<1>6. m <= Len(g)
  BY <1>3
<1> QED
  BY <1>2, <1>3, <1>4, <1>5, <1>6 DEF Grows, g, m, n

\* One more message.
LEMMA GrownByOne ==
    ASSUME NEW T, NEW h \in Seq(T), NEW m \in T, m.kind # "notice"
    PROVE  /\ Append(h, m) \in Seq(T) /\ Grows(h, Append(h, m)) /\ Len(Append(h, m)) = Len(h) + 1
           /\ Append(h, m)[Len(h) + 1] = m
<1> DEFINE g == Append(h, m)
           n == Len(h)
<1>1. /\ g \in Seq(T) /\ Len(g) = n + 1 /\ g[n + 1] = m
      /\ \A i \in 1 .. n : g[i] = h[i]
  BY AppendProperties
<1>2. n \in Nat
  BY LenProperties
<1> HIDE DEF g, n
<1>3. \A i \in n + 1 .. n + 1 : g[i].kind # "notice"
  BY <1>1, <1>2
<1>4. n <= Len(g)
  BY <1>1, <1>2
<1> QED
  BY <1>1, <1>3, <1>4 DEF Grows, g, n

\* What cache-protect does to a history that ends without a notice, or at its end.
LEMMA Taken ==
    ASSUME Typed
    PROVE  /\ Takes(hist, AtTheEnd(Notice(world)), Len(hist) + 1, world)
           /\ hist # <<>> /\ Last(hist).kind # "notice" =>
                  \E p \in {Len(hist), Len(hist) + 1} : Takes(hist, BeforeUser(Notice(world)), p, world)
<1> DEFINE n == Len(hist)
           w == Notice(world)
           T == MessagesOf(id)
<1>1. hist \in Seq(T) /\ n \in Nat /\ w \in T /\ w.kind = "notice" /\ w.says = world /\ (hist # <<>> => n >= 1)
  <2>1. hist \in Seq(T) /\ w \in T
    BY Pieces DEF Typed
  <2> QED
    BY <2>1, LenProperties, EmptySeq DEF Notice
<1>2. Takes(hist, Append(hist, w), n + 1, world)
  <2> DEFINE g == Append(hist, w)
  <2>1. Len(g) = n + 1 /\ g[n + 1] = w /\ \A i \in 1 .. n : g[i] = hist[i]
    BY <1>1, AppendProperties
  <2> HIDE DEF g, n, w
  <2>2. n + 1 \in 1 .. n + 1 /\ n + 1 - 1 = n /\ n + 1 + 1 .. n + 1 = {}
    BY <1>1
  <2> QED
    BY <1>1, <2>1, <2>2 DEF Takes, g, n
<1>3. ASSUME hist # <<>>, Last(hist).kind # "notice"
      PROVE  Takes(hist, InsertAt(hist, n, w), n, world)
  <2> DEFINE g == InsertAt(hist, n, w)
  <2>1. Len(g) = n + 1 /\ g[n] = w /\ (\A i \in 1 .. n - 1 : g[i] = hist[i]) /\ g[n + 1] = hist[n]
    BY <1>1, <1>3, Inserted
  <2>2. hist[n].kind # "notice"
    BY <1>3 DEF Last
  <2> HIDE DEF g, n, w
  <2>3. n \in 1 .. n + 1 /\ \A i \in n + 1 .. n + 1 : i = n + 1
    BY <1>1, <1>3
  <2> QED
    BY <1>1, <2>1, <2>2, <2>3 DEF Takes, g, n
<1> QED
  BY <1>2, <1>3 DEF AtTheEnd, BeforeUser

-----------------------------------------------------------------------------
(* The surface: where the tasks are                                        *)

\* No turn is started and no session is loaded while another call is under way.
OneAtATime == \A c \in Callers : Run(c) \/ LoadSession(c) => \A d \in Callers : doing[d].op = "idle"

Settling == {"changing", "announcing", "replaying"}

\* Who prepares the surface, and what can go on beside a turn.
Tasks ==
    /\ \A t \in host.preparing : IF t = "turn" THEN turn.phase = "preparing"
                                ELSE doing[t].op \in {"preparing", "changing"}
    /\ turn.phase = "preparing" => "turn" \in host.preparing
    /\ \A c \in Callers : doing[c].op \in Settling \union {"ended"} => ~Busy
    /\ \A c, d \in Callers : doing[c].left # <<>> /\ doing[d].left # <<>> => c = d
    /\ \A c \in Callers : doing[c].left # <<>> => doing[c].op \in Settling
    /\ replaying => \E c \in Callers : doing[c].op = "replaying"

\* A surface that is not there yet is a placeholder; a turn has one.
Placed ==
    /\ ~host.materialized => host.preparing = {} /\ host.prompt = Nothing
    /\ turn.phase \notin {"none", "new"} => host.materialized

\* A turn that opens has the user's message last.
Opens == turn.phase = "opening" => hist # <<>> /\ Last(hist).kind # "notice"

LEMMA PlacedKept == ASSUME Typed, Tasks, Placed, [Next]_vars PROVE Placed'
<1>1. host \in HostRec /\ turn \in TurnRec
  BY DEF Typed
<1>2. \A t, v : Materialized(host, t).materialized
                /\ (host.materialized => Materialized(host, t) = host)
                /\ (Reinstated(host, v).materialized \/ Reinstated(host, v) = host)
                /\ Rebuilt(host, v).materialized
                /\ Prepared(host, t, v).materialized = host.materialized
  BY <1>1 DEF HostRec, HostType, Materialized, Reinstated, Rebuilt, Prepared
<1>3. ASSUME host'.materialized PROVE Placed'
  BY <1>3 DEF Placed
<1>4. ASSUME host' = host, turn'.phase \in {"none", "new"} \/ turn'.phase = turn.phase
             \/ turn.phase \notin {"none", "new"}
      PROVE  Placed'
  BY <1>4 DEF Placed
<1>5. CASE TurnStarts
  BY <1>2, <1>3, <1>5 DEF TurnStarts, Begins, BeginsAfter
<1>6. CASE TurnPrepared
  <2>1. host.materialized
    BY <1>6 DEF TurnPrepared, Placed
  <2> QED
    BY <1>2, <1>3, <1>6, <2>1 DEF TurnPrepared, Begins, BeginsAfter
<1>7. CASE TurnEnds
  <2>1. turn.phase \in {"ending", "finishing"} /\ host'.materialized = host.materialized
    BY <1>1, <1>7 DEF TurnEnds, At, HostRec, HostType
  <2> QED
    BY <1>3, <2>1 DEF Placed
<1>8. CASE TurnAnnounces \/ TurnAsks \/ TurnAnswers \/ TurnCalls \/ TurnResults \/ TurnCut \/ TurnFails \/ TurnInterrupted
  <2>1. host' = host /\ turn.phase \notin {"none", "new"}
    BY <1>8 DEF TurnAnnounces, TurnAsks, TurnAnswers, TurnCalls, TurnResults, TurnCut, TurnFails, TurnInterrupted,
                TurnSays, At
  <2> QED
    BY <1>4, <2>1
<1>9. ASSUME NEW c \in Callers, Calls(c) PROVE Placed'
  <2>1. CASE Run(c) \/ Cancel(c) \/ Save(c) \/ Close(c) \/ AClose(c)
    <3>1. host' = host /\ (turn'.phase = "new" \/ turn' = turn \/ turn' = Stopped)
      BY <2>1 DEF Run, Cancel, Save, Close, AClose, NoTurn
    <3>2. Stopped.phase = turn.phase
      BY <1>1 DEF Stopped, TurnRec
    <3> QED
      BY <1>4, <3>1, <3>2
  <2>2. CASE Prepare(c) \/ Rebuild(c)
    BY <1>2, <1>3, <2>2 DEF Prepare, Rebuild
  <2>3. ASSUME NEW surface, NEW left, Changes(c, surface, left), surface \in HostRec PROVE Placed'
    <3>1. Materialized(surface, c).materialized
      BY <2>3 DEF HostRec, HostType, Materialized, Reinstated
    <3> QED
      BY <1>3, <2>3, <3>1 DEF Changes
  <2>4. CASE NewSession(c)
    BY <1>1, <2>3, <2>4 DEF NewSession
  <2>5. CASE LoadSession(c)
    <3>1. PICK s \in Stored : Changes(c, Reinstated(host, disk[s].surface), disk[s].captured)
      BY <2>5 DEF LoadSession
    <3>2. disk[s].surface \in Surfaces
      BY DEF Stored, Typed, DiskTyped, RecordRec
    <3>3. Reinstated(host, disk[s].surface) \in HostRec
      BY <1>1, <3>2 DEF HostRec, HostType, Reinstated
    <3> QED
      BY <2>3, <3>1, <3>3
  <2> QED
    BY <1>9, <2>1, <2>2, <2>4, <2>5 DEF Calls
<1>10. ASSUME NEW c \in Callers, CallerGoesOn(c) PROVE Placed'
  <2>1. CASE CallerPrepared(c)
    <3>1. host.materialized
      BY <2>1 DEF CallerPrepared, Placed
    <3> QED
      BY <1>2, <1>3, <2>1, <3>1 DEF CallerPrepared
  <2>2. CASE ~CallerPrepared(c)
    BY <1>4, <1>10, <2>2 DEF CallerGoesOn, ChangeAnnounced, Replays, ACloseReturns
  <2> QED
    BY <2>1, <2>2
<1>11. CASE Emit \/ EmissionArrives \/ WorldChanges \/ UNCHANGED vars
  BY <1>4, <1>11 DEF Emit, EmissionArrives, WorldChanges, vars
<1>12. CASE Reopen
  BY <1>12 DEF Reopen, Opened, Assembled, NoTurn, Placed
<1> QED
  BY <1>5, <1>6, <1>7, <1>8, <1>9, <1>10, <1>11, <1>12 DEF Next, TurnSteps

LEMMA TasksKept == ASSUME Typed, LeftInv, Tasks, Placed, OneAtATime, [Next]_vars PROVE Tasks'
<1>1. /\ host \in HostRec /\ turn \in TurnRec /\ doing \in [Callers -> CallRec] /\ "turn" \notin Callers
      /\ host.preparing \subseteq Everyone
  BY ConversationAssumption DEF Typed, HostRec, HostType
<1>2. /\ \A t \in host.preparing : IF t = "turn" THEN turn.phase = "preparing"
                                  ELSE doing[t].op \in {"preparing", "changing"}
      /\ turn.phase = "preparing" => "turn" \in host.preparing
      /\ \A c \in Callers : doing[c].op \in Settling \union {"ended"} => ~Busy
      /\ \A c, d \in Callers : doing[c].left # <<>> /\ doing[d].left # <<>> => c = d
      /\ \A c \in Callers : doing[c].left # <<>> => doing[c].op \in Settling
      /\ replaying => \E c \in Callers : doing[c].op = "replaying"
  BY DEF Tasks
<1>3. \A h \in HostRec, t \in Everyone :
          /\ t \in Materialized(h, t).preparing => h.materialized \/ Materialized(h, t).materialized
          /\ Materialized(h, t).preparing \in {h.preparing, h.preparing \union {t}}
  BY DEF HostRec, HostType, Materialized, Reinstated
<1>4. ASSUME doing' = doing, host'.preparing = host.preparing, replaying' = replaying,
             turn'.phase = turn.phase \/ (turn.phase # "preparing" /\ turn'.phase # "preparing"),
             Busy \/ turn'.phase = "none" \/ \A c \in Callers : doing[c].op = "idle"
      PROVE  Tasks'
  BY <1>1, <1>2, <1>4 DEF Tasks, Busy, Settling
<1>5. ASSUME NEW c \in Callers, NEW op, NEW left, Goes(c, op, left), turn'.phase = turn.phase,
             host'.preparing \in {host.preparing, host.preparing \union {c}, host.preparing \ {c}},
             c \in host'.preparing => op \in {"preparing", "changing"},
             op \in Settling \union {"ended"} => ~Busy,
             left # <<>> => op \in Settling /\ \A d \in Callers \ {c} : doing[d].left = <<>>,
             replaying' => op = "replaying" \/ (replaying /\ doing[c].op # "replaying")
      PROVE  Tasks'
  <2>1. doing'[c] = [op |-> op, left |-> left] /\ \A d \in Callers \ {c} : doing'[d] = doing[d]
    BY <1>1, <1>5 DEF Goes
  <2>2. c # "turn" /\ ("turn" \in host'.preparing <=> "turn" \in host.preparing) /\ (Busy' <=> Busy)
    BY <1>1, <1>5 DEF Busy
  <2>3. \A t \in host'.preparing : IF t = "turn" THEN turn'.phase = "preparing"
                                  ELSE doing'[t].op \in {"preparing", "changing"}
    <3> SUFFICES ASSUME NEW t \in host'.preparing
                 PROVE  IF t = "turn" THEN turn'.phase = "preparing"
                        ELSE doing'[t].op \in {"preparing", "changing"}
      OBVIOUS
    <3>1. CASE t = c
      BY <1>5, <2>1, <2>2, <3>1
    <3>2. CASE t # c
      <4>1. t \in host.preparing /\ t \in Everyone
        BY <1>1, <1>5, <3>2
      <4> QED
        BY <1>2, <1>5, <2>1, <2>2, <3>2, <4>1 DEF Everyone
    <3> QED
      BY <3>1, <3>2
  <2>4. \A d \in Callers : doing'[d].op \in Settling \union {"ended"} => ~Busy'
    BY <1>2, <1>5, <2>1, <2>2
  <2>5. /\ \A d \in Callers : doing'[d].left # <<>> => doing'[d].op \in Settling
        /\ \A d, e \in Callers : doing'[d].left # <<>> /\ doing'[e].left # <<>> => d = e
    BY <1>2, <1>5, <2>1
  <2>6. replaying' => \E d \in Callers : doing'[d].op = "replaying"
    BY <1>2, <1>5, <2>1
  <2> QED
    BY <1>2, <1>5, <2>2, <2>3, <2>4, <2>5, <2>6 DEF Tasks
<1>6. CASE TurnStarts
  <2>1. turn.phase = "new" /\ "turn" \notin host.preparing /\ doing' = doing /\ replaying' = replaying /\ Busy
    BY <1>2, <1>6 DEF TurnStarts, capture, Busy
  <2>2. CASE "turn" \in Materialized(host, "turn").preparing
    <3>1. host'.preparing = host.preparing \union {"turn"} /\ turn'.phase = "preparing"
      BY <1>1, <1>3, <1>6, <2>1, <2>2 DEF TurnStarts, Everyone, TurnRec
    <3>2. \A t \in host.preparing : t \in Callers /\ t # "turn"
      BY <1>1, <2>1 DEF Everyone
    <3> QED
      BY <1>1, <1>2, <2>1, <3>1, <3>2 DEF Tasks, Busy
  <2>3. CASE "turn" \notin Materialized(host, "turn").preparing
    <3>1. host'.preparing = host.preparing /\ turn'.phase \in {"ending", "opening"}
      BY <1>1, <1>3, <1>6, <2>1, <2>3 DEF TurnStarts, Begins, BeginsAfter, Everyone
    <3> QED
      BY <1>4, <2>1, <3>1
  <2> QED
    BY <2>2, <2>3
<1>7. CASE TurnPrepared
  <2>1. host'.preparing = host.preparing \ {"turn"} /\ turn'.phase \in {"ending", "opening"}
        /\ doing' = doing /\ replaying' = replaying /\ Busy
    BY <1>1, <1>7 DEF TurnPrepared, Begins, BeginsAfter, Prepared, capture, Busy, HostRec, HostType
  <2> QED
    BY <1>2, <2>1 DEF Tasks, Busy
<1>8. CASE TurnEnds
  <2>1. turn.phase \in {"ending", "finishing"} /\ turn'.phase = "none" /\ host'.preparing = host.preparing
        /\ replaying' = replaying
    BY <1>1, <1>8 DEF TurnEnds, At, NoTurn, capture, HostRec, HostType
  <2>2. \A c \in Callers : doing'[c].left = doing[c].left
                           /\ doing'[c].op = IF doing[c].op = "waiting" THEN "ended" ELSE doing[c].op
    BY <1>1, <1>8 DEF TurnEnds, CallRec
  <2>3. \A t \in host.preparing : t \in Callers /\ doing'[t].op \in {"preparing", "changing"}
    BY <1>1, <1>2, <2>1, <2>2 DEF Everyone
  <2>4. \A c \in Callers : doing[c].op \in Settling => doing'[c].op \in Settling
    BY <2>2 DEF Settling
  <2>5. /\ \A c, d \in Callers : doing'[c].left # <<>> /\ doing'[d].left # <<>> => c = d
        /\ \A c \in Callers : doing'[c].left # <<>> => doing'[c].op \in Settling
        /\ replaying' => \E c \in Callers : doing'[c].op = "replaying"
    BY <1>2, <2>1, <2>2, <2>4
  <2> QED
    BY <1>1, <2>1, <2>3, <2>5 DEF Tasks, Busy
<1>9. CASE TurnAnnounces \/ TurnAsks \/ TurnAnswers \/ TurnCalls \/ TurnResults \/ TurnCut \/ TurnFails \/ TurnInterrupted
  <2>1. /\ host' = host /\ doing' = doing /\ replaying' = replaying /\ Busy
        /\ turn.phase # "preparing" /\ turn'.phase # "preparing"
    BY <1>1, <1>9
       DEF TurnAnnounces, TurnAsks, TurnAnswers, TurnCalls, TurnResults, TurnCut, TurnFails, TurnInterrupted,
           TurnSays, At, capture, Busy, TurnRec
  <2> QED
    BY <1>4, <2>1
<1>10. ASSUME NEW c \in Callers, Calls(c) PROVE Tasks'
  <2>1. doing[c].op = "idle" /\ c \in Everyone /\ c \notin host.preparing
    <3>1. doing[c].op = "idle"
      BY <1>10 DEF Calls, Run, Cancel, Prepare, Save, Rebuild, NewSession, LoadSession, Close, AClose, Free
    <3> QED
      BY <1>1, <1>2, <3>1 DEF Everyone
  <2>2. Stopped.phase = turn.phase
    BY <1>1 DEF Stopped, TurnRec
  <2>3. CASE Run(c)
    BY <1>4, <2>3 DEF OneAtATime, Run, NoTurn, capture, Busy
  <2>4. CASE Cancel(c) \/ Save(c) \/ Close(c) \/ Rebuild(c)
    <3>1. doing' = doing /\ host'.preparing = host.preparing /\ replaying' = replaying /\ turn'.phase = turn.phase
      BY <1>1, <2>2, <2>4 DEF Cancel, Save, Close, Rebuild, Rebuilt, capture, HostRec, HostType
    <3> QED
      BY <1>4, <3>1 DEF Busy
  <2>5. CASE Prepare(c)
    <3>1. replaying' = replaying /\ turn' = turn /\ host' = Materialized(host, c)
      BY <2>5 DEF Prepare, capture
    <3>2. host'.preparing \in {host.preparing, host.preparing \union {c}}
      BY <1>1, <1>3, <2>1, <3>1
    <3>3. CASE c \in host'.preparing
      BY <1>5, <2>1, <2>5, <3>1, <3>2, <3>3 DEF Prepare, Settling
    <3>4. CASE c \notin host'.preparing
      <4>1. doing' = doing /\ host'.preparing = host.preparing
        BY <2>5, <3>2, <3>4 DEF Prepare
      <4> QED
        BY <1>4, <3>1, <4>1 DEF Busy
    <3> QED
      BY <3>3, <3>4
  <2>6. ASSUME NEW surface \in HostRec, surface.preparing = host.preparing, NEW left, Changes(c, surface, left),
               turn' = turn, replaying' = replaying, ~Busy,
               left # <<>> => \A d \in Callers \ {c} : doing[d].left = <<>>
        PROVE  Tasks'
    <3>1. host'.preparing \in {host.preparing, host.preparing \union {c}}
      BY <1>3, <2>1, <2>6 DEF Changes
    <3>2. CASE c \in host'.preparing
      BY <1>5, <2>1, <2>6, <3>1, <3>2 DEF Changes, Settling
    <3>3. CASE c \notin host'.preparing
      BY <1>5, <2>1, <2>6, <3>1, <3>3 DEF Changes, Settling
    <3> QED
      BY <3>2, <3>3
  <2>7. CASE NewSession(c)
    BY <1>1, <2>6, <2>7 DEF NewSession
  <2>8. CASE LoadSession(c)
    <3>1. PICK s \in Stored : Changes(c, Reinstated(host, disk[s].surface), disk[s].captured)
      BY <2>8 DEF LoadSession
    <3>2. disk[s].surface \in Surfaces
      BY DEF Stored, Typed, DiskTyped, RecordRec
    <3>3. Reinstated(host, disk[s].surface) \in HostRec /\ Reinstated(host, disk[s].surface).preparing = host.preparing
      BY <1>1, <3>2 DEF HostRec, HostType, Reinstated
    <3>4. \A d \in Callers : doing[d].left = <<>>
      BY <1>2, <2>8 DEF OneAtATime, Settling
    <3>5. turn' = turn /\ replaying' = replaying /\ ~Busy
      BY <2>8 DEF LoadSession
    <3> QED
      BY <2>6, <3>1, <3>3, <3>4, <3>5
  <2>9. CASE AClose(c)
    <3>1. host' = host /\ replaying' = replaying /\ turn'.phase = turn.phase
      BY <2>2, <2>9 DEF AClose, capture
    <3>2. CASE doing' = doing
      BY <1>4, <3>1, <3>2 DEF Busy
    <3>3. CASE Goes(c, "waiting", <<>>)
      BY <1>5, <2>1, <3>1, <3>3 DEF Settling
    <3> QED
      BY <2>9, <3>2, <3>3 DEF AClose
  <2> QED
    BY <1>10, <2>3, <2>4, <2>5, <2>7, <2>8, <2>9 DEF Calls
<1>11. ASSUME NEW c \in Callers, CallerGoesOn(c) PROVE Tasks'
  <2>1. CASE CallerPrepared(c)
    <3>1. c \in host.preparing /\ doing[c].op \in {"preparing", "changing"}
      BY <1>1, <1>2, <2>1 DEF CallerPrepared
    <3>2. host'.preparing = host.preparing \ {c} /\ turn' = turn /\ replaying' = replaying
      BY <1>1, <2>1 DEF CallerPrepared, Prepared, HostRec, HostType, capture
    <3>3. CASE doing[c].op = "changing"
      <4>1. Goes(c, "announcing", doing[c].left) /\ ~Busy
        BY <1>2, <2>1, <3>3 DEF CallerPrepared, Settling
      <4> QED
        BY <1>2, <1>5, <3>2, <3>3, <4>1 DEF Settling
    <3>4. CASE doing[c].op = "preparing"
      <4>1. Goes(c, "idle", doing[c].left) /\ doing[c].left = <<>>
        BY <1>2, <2>1, <3>4 DEF CallerPrepared, Settling
      <4> QED
        BY <1>5, <3>2, <3>4, <4>1 DEF Settling
    <3> QED
      BY <3>1, <3>3, <3>4
  <2>2. CASE ChangeAnnounced(c)
    <3>1. doing[c].op = "announcing" /\ ~Busy /\ host' = host /\ turn' = turn
          /\ replaying' = (replaying \/ doing[c].left # <<>>) /\ c \notin host.preparing
      BY <1>1, <1>2, <2>2 DEF ChangeAnnounced, Settling
    <3>2. CASE doing[c].left = <<>>
      <4>1. Goes(c, "idle", <<>>)
        BY <2>2, <3>2 DEF ChangeAnnounced
      <4>2. replaying' => replaying
        BY <3>1, <3>2
      <4> QED
        BY <1>5, <3>1, <4>1, <4>2 DEF Settling
    <3>3. CASE doing[c].left # <<>>
      <4>1. Goes(c, "replaying", doing[c].left)
        BY <2>2, <3>3 DEF ChangeAnnounced
      <4> QED
        BY <1>2, <1>5, <3>1, <3>3, <4>1 DEF Settling
    <3> QED
      BY <3>2, <3>3
  <2>3. CASE Replays(c)
    <3>1. doing[c].op = "replaying" /\ doing[c].left # <<>> /\ ~Busy /\ c \notin host.preparing
          /\ host' = host /\ turn' = turn /\ \A d \in Callers \ {c} : doing[d].left = <<>>
      BY <1>1, <1>2, <2>3 DEF Replays, Settling, LeftInv
    <3>2. CASE Len(doing[c].left) = 1
      <4>1. Goes(c, "idle", <<>>) /\ ~replaying'
        BY <2>3, <3>2 DEF Replays
      <4> QED
        BY <1>5, <3>1, <4>1 DEF Settling
    <3>3. CASE Len(doing[c].left) # 1
      <4>1. Goes(c, "replaying", Tail(doing[c].left))
        BY <2>3, <3>3 DEF Replays
      <4> QED
        BY <1>5, <3>1, <4>1 DEF Settling
    <3> QED
      BY <3>2, <3>3
  <2>4. CASE ACloseReturns(c)
    <3>1. doing[c].op = "ended" /\ Goes(c, "idle", <<>>) /\ host' = host /\ turn' = turn /\ replaying' = replaying
          /\ c \notin host.preparing
      BY <1>1, <1>2, <2>4 DEF ACloseReturns, capture
    <3> QED
      BY <1>5, <3>1 DEF Settling
  <2> QED
    BY <1>11, <2>1, <2>2, <2>3, <2>4 DEF CallerGoesOn
<1>12. CASE Emit \/ EmissionArrives \/ WorldChanges \/ UNCHANGED vars
  <2>1. doing' = doing /\ host' = host /\ replaying' = replaying /\ turn' = turn
    BY <1>12 DEF Emit, EmissionArrives, WorldChanges, vars, capture
  <2> QED
    BY <1>4, <2>1 DEF Busy
<1>13. CASE Reopen
  BY <1>13 DEF Reopen, Opened, Assembled, NoTurn, Idle, Tasks, Settling
<1> QED
  BY <1>6, <1>7, <1>8, <1>9, <1>10, <1>11, <1>12, <1>13 DEF Next, TurnSteps

-----------------------------------------------------------------------------
(* The surface: what the model was shown                                   *)

\* The history goes on from what was sent, and cache-protect's baseline is the
\* last notice since the prompt was rebuilt.
HistoryTrue ==
    /\ seen.since <= Len(hist)
    /\ ~seen.torn /\ seen.asked => IsPrefix(seen.messages, hist)
    /\ ~seen.torn /\ turn.phase = "opening" =>
           seen.since < Len(hist) /\ (seen.asked => Len(seen.messages) < Len(hist))
    /\ ~seen.torn /\ ~seen.inherited => Latest(hist, seen.since, base)

\* The prompt that was sent is the one in place, or the one that will be.
PromptTrue ==
    /\ ~seen.torn /\ Surfaced => host.prompt # Nothing
    /\ ~seen.torn /\ Begun => host.preparing = {} /\ turn.atStart = host.prompt
    /\ ~seen.torn /\ seen.asked =>
           /\ seen.prompt # Nothing
           /\ \/ Surfaced /\ host.prompt = seen.prompt
              \/ ~host.materialized /\ host.pending = seen.prompt

\* A record keeps both.
RecordTrue(r) ==
    /\ r.seen.since <= Len(r.hist)
    /\ r.seen.asked /\ ~r.seen.torn =>
           r.surface # Nothing /\ r.surface = r.seen.prompt /\ IsPrefix(r.seen.messages, r.hist)
    /\ ~r.seen.inherited /\ ~r.seen.torn => Latest(r.hist, r.seen.since, r.base)
FilesTrue == \A s \in Stored : RecordTrue(disk[s])

LEMMA FilesKept ==
    ASSUME Typed, Placed, HistoryTrue, PromptTrue, FilesTrue, [Next]_vars
    PROVE  FilesTrue'
<1>1. RecordTrue(Record)
  <2> DEFINE told == [seen EXCEPT !.torn = @ \/ (seen.asked /\ host.prompt = Nothing)]
             r == Record
  <2>1. /\ told.since = seen.since /\ told.asked = seen.asked /\ told.prompt = seen.prompt
        /\ told.messages = seen.messages /\ told.inherited = seen.inherited
        /\ told.torn = (seen.torn \/ (seen.asked /\ host.prompt = Nothing))
    BY DEF Typed, SeenRec
  <2>2. /\ r.hist = hist /\ r.surface = host.prompt /\ r.base = base /\ r.seen = told
    BY DEF Record
  <2> HIDE DEF told, r
  <2>3. ~told.torn => ~seen.torn /\ (seen.asked => host.prompt # Nothing)
    BY <2>1
  <2>4. ~told.torn /\ seen.asked => host.prompt = seen.prompt
    BY <2>3 DEF PromptTrue, Placed
  <2>5. RecordTrue(r)
    BY <2>1, <2>2, <2>3, <2>4 DEF RecordTrue, HistoryTrue
  <2> QED
    BY <2>5 DEF r
<1>2. DiskMoves
  BY DiskSteps
<1>3. ASSUME NEW s \in Stored' PROVE RecordTrue(disk'[s])
  <2>1. s \in Sessions /\ disk'[s] # Absent
    BY DEF Stored
  <2>2. disk'[s] = disk[s] \/ disk'[s] = Record
    BY <1>2, <2>1 DEF DiskMoves
  <2>3. disk'[s] = disk[s] => s \in Stored
    BY <2>1 DEF Stored
  <2> QED
    BY <1>1, <2>2, <2>3 DEF FilesTrue
<1> QED
  BY <1>3 DEF FilesTrue

\* A turn takes in a message of the user or the note of a stop.
LEMMA BeginGrows ==
    ASSUME Typed, NEW surface, NEW noted, BeginsAfter(surface, noted)
    PROVE  /\ Grows(hist, hist') /\ Len(hist') = Len(hist) + 1 /\ hist' # <<>> /\ Last(hist').kind # "notice"
           /\ hist' \in Seq(MessagesOf(id)) /\ turn'.phase \in {"ending", "opening"}
<1> DEFINE m == Said(IF turn.stop = "asked" THEN "stop" ELSE "user")
<1>1. m \in MessagesOf(id) /\ m.kind # "notice" /\ hist \in Seq(MessagesOf(id))
  BY Pieces DEF Kinds, Said, Typed
<1>2. hist' = Append(hist, m) /\ turn'.phase \in {"ending", "opening"}
  BY DEF BeginsAfter
<1> HIDE DEF m
<1>3. hist' \in Seq(MessagesOf(id)) /\ Grows(hist, hist') /\ Len(hist') = Len(hist) + 1 /\ hist'[Len(hist) + 1] = m
  BY <1>1, <1>2, GrownByOne
<1>4. hist' # <<>>
  <2>1. Len(hist) \in Nat
    BY <1>1, LenProperties
  <2>2. Len(hist') # 0
    BY <1>3, <2>1
  <2> QED
    BY <2>2
<1>5. Last(hist') = m
  BY <1>3 DEF Last
<1> QED
  BY <1>1, <1>2, <1>3, <1>4, <1>5

\* What a turn leaves behind announces nothing.
LEMMA TurnGrows ==
    ASSUME Typed, TurnAnswers \/ TurnCalls \/ TurnResults \/ TurnCut \/ TurnFails \/ TurnInterrupted
    PROVE  Grows(hist, hist')
<1>1. hist \in Seq(MessagesOf(id)) /\ \A kind \in Kinds : Said(kind) \in MessagesOf(id) /\ Said(kind).kind = kind
  BY Pieces DEF Typed, Said
<1>2. ASSUME NEW kind \in Kinds \ {"notice"}
      PROVE  /\ <<Said(kind)>> \in Seq(MessagesOf(id)) /\ Len(<<Said(kind)>>) = 1
             /\ \A i \in 1 .. 1 : <<Said(kind)>>[i].kind # "notice"
  BY <1>1, <1>2
<1>3. ASSUME NEW kind \in Kinds \ {"notice"}, NEW h \in Seq(MessagesOf(id))
      PROVE  h \o <<Said(kind)>> \in Seq(MessagesOf(id)) /\ Grows(h, h \o <<Said(kind)>>)
  BY <1>2, <1>3, Grown
<1>4. ASSUME NEW h \in Seq(MessagesOf(id)) PROVE h \o <<>> = h /\ Grows(h, h)
  BY <1>4, SelfPrefix
<1>5. ASSUME NEW kinds \in {<<>>, <<"answer">>, <<"round">>}, NEW phase, TurnSays(kinds, phase)
      PROVE  Grows(hist, hist')
  <2>1. CASE kinds = <<>>
    <3>1. [i \in DOMAIN kinds |-> Said(kinds[i])] = <<>>
      BY <2>1
    <3>2. hist' = hist \o <<>>
      BY <1>5, <3>1 DEF TurnSays
    <3> QED
      BY <1>1, <1>4, <3>2
  <2>2. ASSUME NEW kind \in {"answer", "round"}, kinds = <<kind>> PROVE Grows(hist, hist')
    <3>1. [i \in DOMAIN kinds |-> Said(kinds[i])] = <<Said(kind)>>
      BY <2>2
    <3>2. hist' = hist \o <<Said(kind)>> /\ kind \in Kinds \ {"notice"}
      BY <1>5, <3>1 DEF TurnSays, Kinds
    <3> QED
      BY <1>1, <1>3, <3>2
  <2> QED
    BY <2>1, <2>2
<1>6. CASE TurnInterrupted
  <2> DEFINE round == IF turn.phase = "calling" THEN <<Said("round")>> ELSE <<>>
             middle == hist \o round
  <2>1. hist' = middle \o <<Said("stop")>>
    BY <1>6 DEF TurnInterrupted
  <2>2. middle \in Seq(MessagesOf(id)) /\ Grows(hist, middle)
    BY <1>1, <1>3, <1>4 DEF Kinds
  <2> HIDE DEF middle
  <2>3. hist' \in Seq(MessagesOf(id)) /\ Grows(middle, hist')
    BY <1>3, <2>1, <2>2 DEF Kinds
  <2> QED
    BY <1>1, <2>2, <2>3, GrowsOn
<1> QED
  BY <1>5, <1>6 DEF TurnAnswers, TurnCalls, TurnResults, TurnCut, TurnFails

\* A turn is opening because it just began, or it was and nothing was said.
LEMMA OpeningComes ==
    ASSUME Typed, Tasks, [Next]_vars, turn'.phase = "opening"
    PROVE  \/ turn.phase = "opening" /\ hist' = hist
           \/ \E surface : Begins(surface)
<1>1. turn \in TurnRec
  BY DEF Typed
<1>2. CASE TurnSteps
  <2>1. CASE TurnStarts \/ TurnPrepared
    <3>1. turn'.phase = "preparing" \/ \E surface : Begins(surface)
      BY <1>1, <2>1 DEF TurnStarts, TurnPrepared, TurnRec
    <3> QED
      BY <3>1
  <2>2. CASE TurnAnnounces \/ TurnAsks \/ TurnInterrupted \/ TurnEnds
    <3>1. turn' = [turn EXCEPT !.phase = "ready"] => turn'.phase = "ready"
      BY <1>1 DEF TurnRec
    <3>2. turn' = [turn EXCEPT !.phase = "asking"] => turn'.phase = "asking"
      BY <1>1 DEF TurnRec
    <3>3. turn' = [turn EXCEPT !.phase = "ending", !.stop = "taken"] => turn'.phase = "ending"
      BY <1>1 DEF TurnRec
    <3>4. turn' = NoTurn => turn'.phase = "none"
      BY DEF NoTurn
    <3>5. TurnAnnounces => turn'.phase = "ready"
      BY <3>1 DEF TurnAnnounces
    <3>6. TurnAsks => turn'.phase = "asking"
      BY <3>2 DEF TurnAsks
    <3>7. TurnInterrupted => turn'.phase = "ending"
      BY <3>3 DEF TurnInterrupted
    <3>8. TurnEnds => turn'.phase = "none"
      BY <3>4 DEF TurnEnds
    <3> QED
      BY <2>2, <3>5, <3>6, <3>7, <3>8
  <2>3. \A kinds, phase : TurnSays(kinds, phase) => turn'.phase = phase
    BY <1>1 DEF TurnSays, TurnRec
  <2>4. CASE TurnAnswers \/ TurnCalls \/ TurnResults \/ TurnCut \/ TurnFails
    BY <2>3, <2>4 DEF TurnAnswers, TurnCalls, TurnResults, TurnCut, TurnFails
  <2> QED
    BY <1>2, <2>1, <2>2, <2>4 DEF TurnSteps
<1>3. Stopped.phase = turn.phase /\ (~Busy => turn.phase # "opening")
  BY <1>1 DEF Stopped, TurnRec, Busy
<1>4. ASSUME NEW c \in Callers, Calls(c) PROVE turn.phase = "opening" /\ hist' = hist
  BY <1>3, <1>4
     DEF Calls, Run, Cancel, Prepare, Save, Rebuild, NewSession, LoadSession, Close, AClose, NoTurn
<1>5. ASSUME NEW c \in Callers, CallerGoesOn(c) PROVE turn.phase = "opening" /\ hist' = hist
  <2>1. ~ChangeAnnounced(c)
    BY <1>3 DEF ChangeAnnounced, Tasks, Settling
  <2> QED
    BY <1>5, <2>1 DEF CallerGoesOn, CallerPrepared, Replays, ACloseReturns
<1>6. CASE Emit \/ EmissionArrives \/ WorldChanges \/ UNCHANGED vars
  BY <1>6 DEF Emit, EmissionArrives, WorldChanges, vars
<1>7. ~Reopen
  BY DEF Reopen, Opened, NoTurn
<1> QED
  BY <1>2, <1>4, <1>5, <1>6, <1>7 DEF Next

LEMMA OpensKept == ASSUME Typed, Tasks, Opens, [Next]_vars PROVE Opens'
<1> SUFFICES ASSUME turn'.phase = "opening" PROVE hist' # <<>> /\ Last(hist').kind # "notice"
  BY DEF Opens
<1>1. CASE turn.phase = "opening" /\ hist' = hist
  BY <1>1 DEF Opens
<1>2. ASSUME NEW surface, Begins(surface) PROVE hist' # <<>> /\ Last(hist').kind # "notice"
  BY <1>2, BeginGrows DEF Begins
<1> QED
  BY <1>1, <1>2, OpeningComes

LEMMA HistoryKept ==
    ASSUME Typed, Typed', Tasks, Opens, HistoryTrue, FilesTrue, [Next]_vars
    PROVE  HistoryTrue'
<1>1. /\ hist \in Seq(Message) /\ hist' \in Seq(Message) /\ seen \in SeenRec /\ seen' \in SeenRec
      /\ turn \in TurnRec /\ world \in Versions /\ id \in Sessions
  <2>1. id \in Sessions /\ id' \in Sessions /\ hist \in Seq(MessagesOf(id)) /\ hist' \in Seq(MessagesOf(id'))
    BY DEF Typed
  <2>2. \A s \in Sessions : MessagesOf(s) \subseteq Message
    BY MessageTypes
  <2>3. hist \in Seq(Message) /\ hist' \in Seq(Message)
    BY <2>1, <2>2, Wider
  <2> QED
    BY <2>3 DEF Typed
<1>2. /\ Len(hist) \in Nat /\ Len(hist') \in Nat /\ seen.since \in Nat /\ seen.messages \in Seq(Message)
      /\ Len(seen.messages) \in Nat /\ world # Nothing
  BY <1>1, LenProperties, VersionsAssumption DEF SeenRec
<1>3. ASSUME Grows(hist, hist'), base' = base, seen'.since = seen.since, seen'.asked = seen.asked,
             seen'.messages = seen.messages, seen'.inherited = seen.inherited, seen.torn => seen'.torn,
             turn'.phase = "opening" => turn.phase = "opening" \/ Len(hist') = Len(hist) + 1
      PROVE  HistoryTrue'
  <2>1. Len(hist) <= Len(hist')
    BY <1>3 DEF Grows
  <2>2. seen'.since <= Len(hist')
    BY <1>2, <1>3, <2>1 DEF HistoryTrue
  <2>3. ~seen'.torn /\ seen'.asked => IsPrefix(seen'.messages, hist')
    BY <1>1, <1>2, <1>3, PrefixStays DEF HistoryTrue
  <2>4. ~seen'.torn /\ ~seen'.inherited => Latest(hist', seen'.since, base')
    BY <1>1, <1>2, <1>3, GrowsNews DEF HistoryTrue
  <2>5. ASSUME ~seen'.torn, turn'.phase = "opening"
        PROVE  seen'.since < Len(hist') /\ (seen'.asked => Len(seen'.messages) < Len(hist'))
    <3>1. CASE turn.phase = "opening"
      BY <1>2, <1>3, <2>1, <2>5, <3>1 DEF HistoryTrue
    <3>2. CASE Len(hist') = Len(hist) + 1
      <4>1. seen.asked => Len(seen.messages) <= Len(hist)
        BY <1>1, <1>2, <1>3, <2>5, Prefix DEF HistoryTrue
      <4> QED
        BY <1>2, <1>3, <3>2, <4>1 DEF HistoryTrue
    <3> QED
      BY <1>3, <2>5, <3>1, <3>2
  <2> QED
    BY <2>2, <2>3, <2>4, <2>5 DEF HistoryTrue
<1>4. ASSUME NEW p, Takes(hist, hist', p, world), base' = world, seen' = [seen EXCEPT !.inherited = FALSE],
             turn'.phase # "opening",
             ~seen.torn => seen.since < p /\ (seen.asked => Len(seen.messages) < p)
      PROVE  HistoryTrue'
  <2>1. /\ seen'.since = seen.since /\ seen'.asked = seen.asked /\ seen'.messages = seen.messages
        /\ seen'.torn = seen.torn
    BY <1>1, <1>4 DEF SeenRec
  <2>2. seen'.since <= Len(hist')
    BY <1>2, <1>4, <2>1 DEF HistoryTrue, Takes
  <2>3. ~seen'.torn /\ seen'.asked => IsPrefix(seen'.messages, hist')
    BY <1>1, <1>2, <1>4, <2>1, PrefixStays DEF HistoryTrue
  <2>4. ~seen'.torn => Latest(hist', seen'.since, base')
    BY <1>1, <1>2, <1>4, <2>1, TakesNews
  <2> QED
    BY <1>4, <2>2, <2>3, <2>4 DEF HistoryTrue
<1>5. Grows(hist, hist)
  BY <1>1, SelfPrefix
<1>6. ASSUME UNCHANGED <<hist, base, seen>>, turn'.phase = "opening" => turn.phase = "opening"
      PROVE  HistoryTrue'
  BY <1>3, <1>5, <1>6
<1>7. CASE TurnStarts
  <2>1. CASE UNCHANGED <<hist, seen>> /\ turn'.phase = "preparing"
    BY <1>6, <1>7, <2>1 DEF TurnStarts
  <2>2. CASE Begins(Materialized(host, "turn"))
    <3>1. Grows(hist, hist') /\ Len(hist') = Len(hist) + 1 /\ base' = base
      BY <1>7, <2>2, BeginGrows DEF Begins, TurnStarts
    <3>2. /\ seen'.since = seen.since /\ seen'.asked = seen.asked /\ seen'.messages = seen.messages
          /\ seen'.inherited = seen.inherited /\ (seen.torn => seen'.torn)
      BY <1>1, <2>2 DEF Begins, BeginsAfter, SeenRec
    <3> QED
      BY <1>3, <3>1, <3>2
  <2> QED
    BY <1>1, <1>7, <2>1, <2>2 DEF TurnStarts, TurnRec
<1>8. CASE TurnPrepared
  <2>1. Begins(Prepared(host, "turn", world)) /\ base' = base
    BY <1>8 DEF TurnPrepared
  <2>2. Grows(hist, hist') /\ Len(hist') = Len(hist) + 1
    BY <2>1, BeginGrows DEF Begins
  <2>3. /\ seen'.since = seen.since /\ seen'.asked = seen.asked /\ seen'.messages = seen.messages
        /\ seen'.inherited = seen.inherited /\ (seen.torn => seen'.torn)
    BY <1>1, <2>1 DEF Begins, BeginsAfter, SeenRec
  <2> QED
    BY <1>3, <2>1, <2>2, <2>3
<1>9. CASE TurnAnnounces
  <2>1. turn.phase = "opening" /\ turn'.phase = "ready" /\ Announces(BeforeUser(Notice(world)))
    BY <1>1, <1>9 DEF TurnAnnounces, At, TurnRec
  <2>2. CASE Believed = world
    BY <1>6, <2>1, <2>2 DEF Announces
  <2>3. CASE Believed # world
    <3>1. PICK p \in {Len(hist), Len(hist) + 1} : Takes(hist, BeforeUser(Notice(world)), p, world)
      BY <2>1, Taken DEF Opens
    <3>2. ~seen.torn => seen.since < p /\ (seen.asked => Len(seen.messages) < p)
      BY <1>2, <2>1, <3>1 DEF HistoryTrue
    <3> QED
      BY <1>4, <2>1, <2>3, <3>1, <3>2 DEF Announces
  <2> QED
    BY <2>2, <2>3
<1>10. CASE TurnAsks
  <2>1. /\ seen'.since = seen.since /\ seen'.messages = hist /\ seen'.inherited = seen.inherited
        /\ seen'.torn = seen.torn /\ hist' = hist /\ base' = base /\ turn'.phase = "asking"
    BY <1>1, <1>10 DEF TurnAsks, SeenRec, TurnRec
  <2>2. IsPrefix(hist, hist)
    BY <1>1, SelfPrefix
  <2> QED
    BY <2>1, <2>2 DEF HistoryTrue
<1>11. CASE TurnAnswers \/ TurnCalls \/ TurnResults \/ TurnCut \/ TurnFails \/ TurnInterrupted
  <2>1. seen' = seen /\ base' = base /\ turn'.phase # "opening"
    BY <1>1, <1>11 DEF TurnAnswers, TurnCalls, TurnResults, TurnCut, TurnFails, TurnInterrupted, TurnSays, TurnRec
  <2> QED
    BY <1>3, <1>11, <2>1, TurnGrows
<1>12. CASE TurnEnds
  BY <1>6, <1>12 DEF TurnEnds, NoTurn
<1>13. Stopped.phase = turn.phase
  BY <1>1 DEF Stopped, TurnRec
<1>14. ASSUME NEW c \in Callers, Calls(c) PROVE HistoryTrue'
  <2>1. CASE Run(c) \/ Cancel(c) \/ Prepare(c) \/ Save(c) \/ Close(c) \/ AClose(c)
    BY <1>6, <1>13, <2>1 DEF Run, Cancel, Prepare, Save, Close, AClose, NoTurn
  <2>2. CASE Rebuild(c)
    <3>1. /\ seen'.since = Len(hist) /\ ~seen'.asked /\ hist' = hist /\ base' = Nothing /\ turn' = turn
          /\ (turn.phase = "opening" => seen'.torn)
      BY <1>1, <2>2 DEF Rebuild, SeenRec
    <3>2. News(hist, Len(hist)) = {}
      BY <1>1, LenProperties DEF News
    <3> QED
      BY <1>2, <3>1, <3>2 DEF HistoryTrue, Latest
  <2>3. CASE NewSession(c)
    <3>1. /\ hist' = <<>> /\ base' = base /\ turn' = turn /\ turn.phase # "opening" /\ seen'.since = 0 /\ ~seen'.asked
          /\ (~seen'.inherited => base = Nothing)
      BY <2>3 DEF NewSession, Unseen, Busy
    <3>2. News(<<>>, 0) = {}
      BY DEF News
    <3>3. Len(hist') = 0
      BY <3>1
    <3> QED
      BY <3>1, <3>2, <3>3 DEF HistoryTrue, Latest
  <2>4. CASE LoadSession(c)
    <3>1. PICK s \in Stored :
             /\ hist' = disk[s].hist /\ base' = disk[s].base
             /\ seen' = [disk[s].seen EXCEPT !.torn = @ \/ (disk[s].surface = Nothing /\ seen.torn)]
      BY <2>4 DEF LoadSession
    <3>2. disk[s].seen \in SeenRec
      BY DEF Stored, Typed, DiskTyped, RecordRec
    <3>3. /\ seen'.since = disk[s].seen.since /\ seen'.asked = disk[s].seen.asked
          /\ seen'.messages = disk[s].seen.messages /\ seen'.inherited = disk[s].seen.inherited
          /\ (~seen'.torn => ~disk[s].seen.torn)
      BY <3>1, <3>2 DEF SeenRec
    <3>4. RecordTrue(disk[s])
      BY DEF FilesTrue
    <3>5. turn'.phase # "opening"
      BY <2>4 DEF LoadSession, Busy
    <3> QED
      BY <3>1, <3>3, <3>4, <3>5 DEF HistoryTrue, RecordTrue
  <2> QED
    BY <1>14, <2>1, <2>2, <2>3, <2>4 DEF Calls
<1>15. ASSUME NEW c \in Callers, CallerGoesOn(c) PROVE HistoryTrue'
  <2>1. CASE CallerPrepared(c) \/ Replays(c) \/ ACloseReturns(c)
    BY <1>6, <2>1 DEF CallerPrepared, Replays, ACloseReturns
  <2>2. CASE ChangeAnnounced(c)
    <3>1. ~Busy /\ turn' = turn
      BY <2>2 DEF ChangeAnnounced, Tasks, Settling
    <3>2. CASE UNCHANGED <<hist, base, seen>>
      BY <1>6, <3>1, <3>2
    <3>3. CASE hist' = AtTheEnd(Notice(world)) /\ base' = world /\ seen' = [seen EXCEPT !.inherited = FALSE]
      <4>1. Takes(hist, hist', Len(hist) + 1, world)
        BY <3>3, Taken
      <4>2. ~seen.torn /\ seen.asked => Len(seen.messages) <= Len(hist)
        BY <1>1, <1>2, Prefix DEF HistoryTrue
      <4>3. ~seen.torn => seen.since < Len(hist) + 1 /\ (seen.asked => Len(seen.messages) < Len(hist) + 1)
        BY <1>2, <4>2 DEF HistoryTrue
      <4>4. turn'.phase # "opening"
        BY <3>1 DEF Busy
      <4> QED
        BY <1>4, <3>3, <4>1, <4>3, <4>4
    <3> QED
      BY <2>2, <3>2, <3>3 DEF ChangeAnnounced, Announces
  <2> QED
    BY <1>15, <2>1, <2>2 DEF CallerGoesOn
<1>16. CASE Emit \/ EmissionArrives \/ WorldChanges \/ UNCHANGED vars
  BY <1>6, <1>16 DEF Emit, EmissionArrives, WorldChanges, vars
<1>17. CASE Reopen
  <2>1. turn'.phase # "opening"
    BY <1>17 DEF Reopen, Opened, NoTurn
  <2>2. ASSUME NEW s \in Stored, Opened(s, disk[s]) PROVE HistoryTrue'
    <3>1. RecordTrue(disk[s]) /\ hist' = disk[s].hist /\ base' = disk[s].base /\ seen' = disk[s].seen
      BY <2>2 DEF FilesTrue, Opened
    <3> QED
      BY <2>1, <3>1 DEF HistoryTrue, RecordTrue
  <2>3. ASSUME NEW s, Opened(s, Empty) PROVE HistoryTrue'
    <3>1. hist' = <<>> /\ base' = Nothing /\ seen'.since = 0 /\ ~seen'.asked
      BY <2>3 DEF Opened, Empty, Unseen
    <3>2. News(<<>>, 0) = {} /\ Len(<<>>) = 0
      BY DEF News
    <3> QED
      BY <2>1, <3>1, <3>2 DEF HistoryTrue, Latest
  <2> QED
    BY <1>17, <2>2, <2>3 DEF Reopen
<1> QED
  BY <1>7, <1>8, <1>9, <1>10, <1>11, <1>12, <1>14, <1>15, <1>16, <1>17 DEF Next, TurnSteps

\* What materialize() gives when nobody prepares: the stored surface, or the
\* caller is left to prepare it.
LEMMA MaterializedAs ==
    ASSUME NEW h \in HostRec, NEW t \in Everyone, h.materialized \/ h.preparing = {}, NEW m, m = Materialized(h, t)
    PROVE  \/ h.materialized /\ m = h
           \/ /\ ~h.materialized /\ h.pending # Nothing
              /\ m.materialized /\ m.prompt = h.pending /\ m.preparing = {}
           \/ ~h.materialized /\ h.pending = Nothing /\ m.materialized /\ m.preparing = {t}
  BY DEF Materialized, Reinstated, HostRec, HostType

LEMMA PromptKept ==
    ASSUME Typed, Tasks, Placed, PromptTrue, FilesTrue, OneAtATime, [Next]_vars
    PROVE  PromptTrue'
<1>1. /\ host \in HostRec /\ seen \in SeenRec /\ turn \in TurnRec /\ world # Nothing /\ "turn" \in Everyone
      /\ "turn" \notin Callers
  BY VersionsAssumption, ConversationAssumption DEF Typed, Everyone
<1>2. /\ ~seen.torn /\ Surfaced => host.prompt # Nothing
      /\ ~seen.torn /\ Begun => host.preparing = {} /\ turn.atStart = host.prompt
      /\ ~seen.torn /\ seen.asked =>
             /\ seen.prompt # Nothing
             /\ \/ Surfaced /\ host.prompt = seen.prompt
                \/ ~host.materialized /\ host.pending = seen.prompt
  BY DEF PromptTrue
<1>3. ASSUME host' = host, seen.torn => seen'.torn, seen'.asked = seen.asked, seen'.prompt = seen.prompt,
             Begun' => Begun /\ turn'.atStart = turn.atStart
      PROVE  PromptTrue'
  BY <1>2, <1>3 DEF PromptTrue, Surfaced
<1>4. ASSUME NEW surface, Begins(surface)
      PROVE  /\ host' = surface /\ turn'.atStart = surface.prompt /\ seen'.torn = (seen.torn \/ surface.preparing # {})
             /\ seen'.asked = seen.asked /\ seen'.prompt = seen.prompt
  BY <1>1, <1>4 DEF Begins, BeginsAfter, SeenRec
\* A task that materializes the surface before any turn has begun.
<1>5. ASSUME NEW t \in Everyone, host' = Materialized(host, t), ~Begun', seen.torn => seen'.torn,
             seen'.asked => seen.asked /\ seen'.prompt = seen.prompt
      PROVE  PromptTrue'
  <2>1. host.materialized \/ host.preparing = {}
    BY DEF Placed
  <2>2. CASE host.materialized /\ host' = host
    BY <1>2, <1>5, <2>2 DEF PromptTrue, Surfaced
  <2>3. CASE ~host.materialized /\ host.pending # Nothing
             /\ host'.materialized /\ host'.prompt = host.pending /\ host'.preparing = {}
    BY <1>2, <1>5, <2>3 DEF PromptTrue, Surfaced
  <2>4. CASE ~host.materialized /\ host.pending = Nothing /\ host'.materialized /\ host'.preparing = {t}
    BY <1>2, <1>5, <2>4 DEF PromptTrue, Surfaced
  <2> QED
    BY <1>1, <1>5, <2>1, <2>2, <2>3, <2>4, MaterializedAs
<1>6. CASE TurnStarts
  <2> DEFINE surface == Materialized(host, "turn")
  <2>1. turn.phase = "new" /\ "turn" \notin host.preparing
    BY <1>6 DEF TurnStarts, Tasks
  <2>2. CASE "turn" \in surface.preparing
    <3>1. host' = surface /\ turn'.phase = "preparing" /\ seen' = seen
      BY <1>1, <1>6, <2>2 DEF TurnStarts, TurnRec
    <3> QED
      BY <1>1, <1>5, <3>1 DEF Begun
  <2>3. CASE "turn" \notin surface.preparing
    <3>1. Begins(surface)
      BY <1>6, <2>3 DEF TurnStarts
    <3>2. /\ host' = surface /\ turn'.atStart = surface.prompt /\ seen'.torn = (seen.torn \/ surface.preparing # {})
          /\ seen'.asked = seen.asked /\ seen'.prompt = seen.prompt
      BY <1>4, <3>1
    <3>3. host.materialized \/ host.preparing = {}
      BY DEF Placed
    <3> HIDE DEF surface
    <3>4. CASE host.materialized /\ surface = host
      BY <1>2, <3>2, <3>4 DEF PromptTrue, Surfaced
    <3>5. CASE ~host.materialized /\ host.pending # Nothing
               /\ surface.materialized /\ surface.prompt = host.pending /\ surface.preparing = {}
      BY <1>2, <3>2, <3>5 DEF PromptTrue, Surfaced
    <3> QED
      BY <1>1, <2>3, <3>3, <3>4, <3>5, MaterializedAs DEF surface
  <2> QED
    BY <2>2, <2>3
<1>7. CASE TurnPrepared
  <2> DEFINE surface == Prepared(host, "turn", world)
  <2>1. Begins(surface)
    BY <1>7 DEF TurnPrepared
  <2>2. /\ host' = surface /\ turn'.atStart = surface.prompt /\ seen'.torn = (seen.torn \/ surface.preparing # {})
        /\ seen'.asked = seen.asked /\ seen'.prompt = seen.prompt
    BY <1>4, <2>1
  <2>3. surface.prompt = world /\ "turn" \in host.preparing /\ host.materialized
    BY <1>1, <1>7 DEF TurnPrepared, Tasks, Placed, Prepared, HostRec, HostType
  <2>4. ~(~seen.torn /\ seen.asked)
    BY <1>2, <2>3 DEF Surfaced
  <2> HIDE DEF surface
  <2> QED
    BY <1>1, <2>2, <2>3, <2>4 DEF PromptTrue, Surfaced
<1>8. CASE TurnAnnounces
  <2>1. host' = host /\ turn'.atStart = turn.atStart /\ Begun
    BY <1>1, <1>8 DEF TurnAnnounces, TurnRec, At, Begun
  <2>2. seen' = seen \/ seen' = [seen EXCEPT !.inherited = FALSE]
    BY <1>8 DEF TurnAnnounces, Announces
  <2>3. seen'.torn = seen.torn /\ seen'.asked = seen.asked /\ seen'.prompt = seen.prompt
    BY <1>1, <2>2 DEF SeenRec
  <2> QED
    BY <1>3, <2>1, <2>3
<1>9. CASE TurnAsks
  <2>1. /\ host' = host /\ turn'.atStart = turn.atStart /\ Begun /\ turn.phase = "ready"
        /\ seen'.torn = seen.torn /\ seen'.prompt = host.prompt
    BY <1>1, <1>9 DEF TurnAsks, TurnRec, SeenRec, At, Begun
  <2>2. host.materialized
    BY <2>1 DEF Placed
  <2>3. ~seen.torn => Surfaced /\ host.prompt # Nothing
    BY <1>2, <2>1, <2>2 DEF Surfaced
  <2> QED
    BY <1>2, <2>1, <2>3 DEF PromptTrue, Surfaced
<1>10. CASE TurnAnswers \/ TurnCalls \/ TurnResults \/ TurnCut \/ TurnFails \/ TurnInterrupted
  <2>1. host' = host /\ seen' = seen /\ Begun
    BY <1>10 DEF TurnAnswers, TurnCalls, TurnResults, TurnCut, TurnFails, TurnInterrupted, TurnSays, At, Begun
  <2>2. turn'.atStart = turn.atStart
    <3>1. \A phase : [turn EXCEPT !.phase = phase].atStart = turn.atStart
      BY <1>1 DEF TurnRec
    <3>2. [turn EXCEPT !.phase = "ending", !.stop = "taken"].atStart = turn.atStart
      BY <1>1 DEF TurnRec
    <3>3. \A kinds, phase : TurnSays(kinds, phase) => turn'.atStart = turn.atStart
      BY <3>1 DEF TurnSays
    <3>4. TurnInterrupted => turn'.atStart = turn.atStart
      BY <3>2 DEF TurnInterrupted
    <3> QED
      BY <1>10, <3>3, <3>4 DEF TurnAnswers, TurnCalls, TurnResults, TurnCut, TurnFails
  <2> QED
    BY <1>3, <2>1, <2>2
<1>11. CASE TurnEnds
  <2>1. /\ Begun /\ ~Begun' /\ seen' = seen
        /\ host'.prompt = turn.atStart /\ host'.materialized = host.materialized
        /\ host'.preparing = host.preparing /\ host'.pending = host.pending
    BY <1>1, <1>11 DEF TurnEnds, At, Begun, NoTurn, HostRec, HostType
  <2>2. ~seen.torn => host'.prompt = host.prompt
    BY <1>2, <2>1
  <2> QED
    BY <1>2, <2>1, <2>2 DEF PromptTrue, Surfaced
<1>12. Stopped.phase = turn.phase /\ Stopped.atStart = turn.atStart
  BY <1>1 DEF Stopped, TurnRec
<1>13. ASSUME NEW c \in Callers, Calls(c) PROVE PromptTrue'
  <2>0. c \in Everyone
    BY DEF Everyone
  <2>1. CASE Run(c)
    BY <1>3, <2>1 DEF Run, NoTurn, Begun
  <2>2. CASE Cancel(c) \/ Save(c) \/ Close(c) \/ AClose(c)
    <3>1. host' = host /\ seen' = seen /\ turn'.phase = turn.phase /\ turn'.atStart = turn.atStart
      BY <1>12, <2>2 DEF Cancel, Save, Close, AClose
    <3> QED
      BY <1>3, <3>1 DEF Begun
  <2>3. CASE Prepare(c)
    <3>1. host' = Materialized(host, c) /\ seen' = seen /\ turn' = turn
      BY <2>3 DEF Prepare
    <3>2. CASE Begun
      <4>1. host' = host
        BY <3>1, <3>2 DEF Placed, Begun, Materialized
      <4> QED
        BY <1>3, <3>1, <4>1 DEF Begun
    <3>3. CASE ~Begun
      BY <1>5, <2>0, <3>1, <3>3 DEF Begun
    <3> QED
      BY <3>2, <3>3
  <2>4. CASE Rebuild(c)
    <3>1. /\ host'.prompt = world /\ host'.materialized /\ host'.preparing = host.preparing
          /\ ~seen'.asked /\ turn' = turn
          /\ seen'.torn = (seen.torn \/ Begun)
      BY <1>1, <2>4 DEF Rebuild, Rebuilt, HostRec, HostType, SeenRec, Begun
    <3> QED
      BY <1>1, <3>1 DEF PromptTrue, Begun
  <2>5. CASE NewSession(c)
    <3>1. host' = Materialized(host, c) /\ turn' = turn /\ ~Busy /\ ~seen'.asked /\ seen'.torn = seen.torn
      BY <2>5 DEF NewSession, Changes, Unseen
    <3>2. ~Begun'
      BY <3>1 DEF Begun, Busy
    <3> QED
      BY <1>5, <2>0, <3>1, <3>2
  <2>6. CASE LoadSession(c)
    <3>1. PICK s \in Stored :
             /\ seen' = [disk[s].seen EXCEPT !.torn = @ \/ (disk[s].surface = Nothing /\ seen.torn)]
             /\ Changes(c, Reinstated(host, disk[s].surface), disk[s].captured)
      BY <2>6 DEF LoadSession
    <3>2. disk[s].seen \in SeenRec /\ disk[s].surface \in Surfaces /\ RecordTrue(disk[s])
      BY DEF Stored, Typed, DiskTyped, RecordRec, FilesTrue
    <3>3. /\ seen'.torn = (disk[s].seen.torn \/ (disk[s].surface = Nothing /\ seen.torn))
          /\ seen'.asked = disk[s].seen.asked /\ seen'.prompt = disk[s].seen.prompt
      BY <3>1, <3>2 DEF SeenRec
    <3>4. ~Begun' /\ ~Busy
      BY <2>6 DEF LoadSession, Busy, Begun
    <3>5. host' = Materialized(Reinstated(host, disk[s].surface), c)
      BY <3>1 DEF Changes
    <3>6. host.preparing = {}
      <4>1. \A d \in Callers : doing[d].op = "idle"
        BY <2>6 DEF OneAtATime
      <4> QED
        BY <1>1, <3>4, <4>1 DEF Tasks, Busy, Everyone, HostRec, HostType
    <3>7. CASE disk[s].surface = Nothing
      <4>1. host' = Materialized(host, c)
        BY <3>5, <3>7 DEF Reinstated
      <4>2. ~seen'.torn => ~seen'.asked
        BY <3>2, <3>3, <3>7 DEF RecordTrue
      <4>3. CASE seen'.torn
        BY <4>3 DEF PromptTrue
      <4>4. CASE ~seen'.torn
        BY <1>5, <2>0, <3>3, <3>4, <3>7, <4>1, <4>2, <4>4
      <4> QED
        BY <4>3, <4>4
    <3>8. CASE disk[s].surface # Nothing
      <4>1. host'.prompt = disk[s].surface /\ host'.materialized /\ host'.preparing = {}
        BY <1>1, <3>5, <3>6, <3>8 DEF Reinstated, Materialized, HostRec, HostType
      <4> QED
        BY <3>2, <3>3, <3>4, <3>8, <4>1 DEF PromptTrue, Surfaced, RecordTrue
    <3> QED
      BY <3>7, <3>8
  <2> QED
    BY <1>13, <2>1, <2>2, <2>3, <2>4, <2>5, <2>6 DEF Calls
<1>14. ASSUME NEW c \in Callers, CallerGoesOn(c) PROVE PromptTrue'
  <2>1. CASE CallerPrepared(c)
    <3>1. host'.prompt = world /\ c \in host.preparing /\ seen' = seen /\ turn' = turn
          /\ host'.materialized = host.materialized
      BY <1>1, <2>1 DEF CallerPrepared, Prepared, HostRec, HostType
    <3>2. host.materialized
      BY <3>1 DEF Placed
    <3>3. ~seen.torn => ~seen.asked /\ ~Begun
      BY <1>2, <3>1, <3>2 DEF Surfaced
    <3> QED
      BY <1>1, <3>1, <3>3 DEF PromptTrue, Begun
  <2>2. CASE ChangeAnnounced(c)
    <3>1. host' = host /\ turn' = turn
      BY <2>2 DEF ChangeAnnounced
    <3>2. seen' = seen \/ seen' = [seen EXCEPT !.inherited = FALSE]
      BY <2>2 DEF ChangeAnnounced, Announces
    <3>3. seen'.torn = seen.torn /\ seen'.asked = seen.asked /\ seen'.prompt = seen.prompt
      BY <1>1, <3>2 DEF SeenRec
    <3> QED
      BY <1>3, <3>1, <3>3 DEF Begun
  <2>3. CASE Replays(c) \/ ACloseReturns(c)
    BY <1>3, <2>3 DEF Replays, ACloseReturns, Begun
  <2> QED
    BY <1>14, <2>1, <2>2, <2>3 DEF CallerGoesOn
<1>15. CASE Emit \/ EmissionArrives \/ WorldChanges \/ UNCHANGED vars
  BY <1>3, <1>15 DEF Emit, EmissionArrives, WorldChanges, vars, Begun
<1>16. CASE Reopen
  <2>1. ASSUME NEW s \in Stored, Opened(s, disk[s]) PROVE PromptTrue'
    <3>1. RecordTrue(disk[s]) /\ host' = Assembled(disk[s].surface) /\ seen' = disk[s].seen /\ ~Begun'
      BY <2>1 DEF FilesTrue, Opened, NoTurn, Begun
    <3>2. ~host'.materialized /\ host'.pending = disk[s].surface
      BY <3>1 DEF Assembled
    <3> QED
      BY <3>1, <3>2 DEF PromptTrue, RecordTrue, Surfaced
  <2>2. ASSUME NEW s, Opened(s, Empty) PROVE PromptTrue'
    <3>1. ~seen'.asked /\ ~host'.materialized /\ ~Begun'
      BY <2>2 DEF Opened, Empty, Unseen, Assembled, NoTurn, Begun
    <3> QED
      BY <3>1 DEF PromptTrue, Surfaced
  <2> QED
    BY <1>16, <2>1, <2>2 DEF Reopen
<1> QED
  BY <1>6, <1>7, <1>8, <1>9, <1>10, <1>11, <1>13, <1>14, <1>15, <1>16 DEF Next, TurnSteps

-----------------------------------------------------------------------------
(* The surface: what follows                                               *)

SurfaceInv ==
    /\ RecordsInv
    /\ Tasks /\ Placed /\ Opens
    /\ HistoryTrue /\ PromptTrue /\ FilesTrue

LEMMA SurfaceStarts == ASSUME Init PROVE SurfaceInv
<1>1. RecordsInv
  BY Starts
<1>2. Tasks /\ Placed /\ Opens
  BY DEF Init, Assembled, NoTurn, Idle, Tasks, Settling, Placed, Opens, Busy
<1>3. News(<<>>, 0) = {} /\ Len(<<>>) = 0
  BY DEF News
<1>4. HistoryTrue /\ PromptTrue
  BY <1>3 DEF Init, Unseen, NoTurn, Assembled, HistoryTrue, Latest, PromptTrue, Surfaced, Begun
<1>5. ASSUME NEW s \in Stored PROVE RecordTrue(disk[s])
  <2>1. disk[s] = OldRecord(s)
    BY DEF Init, Stored
  <2> DEFINE h == <<[in |-> s, kind |-> "user", says |-> Nothing]>>
  <2>2. Len(h) = 1 /\ DOMAIN h = 1 .. 1 /\ h[1].kind = "user"
    OBVIOUS
  <2>3. disk[s].hist = h /\ disk[s].base = Nothing /\ disk[s].seen = Unseen
    BY <2>1 DEF OldRecord
  <2> HIDE DEF h
  <2>4. News(h, 0) = {}
    BY <2>2 DEF News
  <2> QED
    BY <2>2, <2>3, <2>4 DEF RecordTrue, Latest, Unseen
<1> QED
  BY <1>1, <1>2, <1>4, <1>5 DEF SurfaceInv, FilesTrue

LEMMA Alone == ASSUME LeftInv, Tasks PROVE OneReplay /\ Quiet
  BY DEF LeftInv, Tasks, OneReplay, Quiet

LEMMA SurfaceKept == ASSUME SurfaceInv, OneAtATime, [Next]_vars PROVE SurfaceInv'
<1>1. Typed /\ LeftInv /\ CaptureInv /\ OneReplay
  BY Alone DEF SurfaceInv, RecordsInv, TypesInv
<1>2. RecordsInv' /\ Typed'
  BY <1>1, TypesKept, CaptureKept DEF SurfaceInv, RecordsInv, TypesInv
<1>3. Tasks' /\ Placed' /\ Opens'
  BY <1>1, TasksKept, PlacedKept, OpensKept DEF SurfaceInv
<1>4. HistoryTrue' /\ PromptTrue' /\ FilesTrue'
  BY <1>1, <1>2, HistoryKept, PromptKept, FilesKept DEF SurfaceInv
<1> QED
  BY <1>2, <1>3, <1>4 DEF SurfaceInv

LEMMA SurfaceMeant == ASSUME SurfaceInv PROVE SurfaceTrue
<1>1. Typed /\ CaptureInv /\ Tasks /\ Placed /\ HistoryTrue /\ PromptTrue
  BY DEF SurfaceInv, RecordsInv, TypesInv
<1>2. TypeOK
  <2>1. \A s \in Sessions : MessagesOf(s) \subseteq Message
    BY MessageTypes
  <2>2. \A s \in Stored : s \in Sessions /\ disk[s].hist \in Seq(MessagesOf(s)) /\ disk[s].surface \in Surfaces
    BY <1>1 DEF Stored, Typed, DiskTyped, RecordRec
  <2>3. \A s \in Stored : disk[s].hist \in Seq(Message)
    BY <2>1, <2>2, Wider
  <2>4. hist \in Seq(Message)
    BY <1>1, <2>1, Wider DEF Typed
  <2>5. captured \in Seq(1 .. MaxEmits) /\ flying \subseteq 1 .. MaxEmits
    <3>1. captured \in Seq(1 .. emits) /\ flying \subseteq 1 .. emits /\ emits \in 0 .. MaxEmits
      BY <1>1 DEF CaptureInv, Recorded, Once
    <3>2. 1 .. emits \subseteq 1 .. MaxEmits
      BY <3>1, ConversationAssumption
    <3> QED
      BY <3>1, <3>2, Wider
  <2>6. replaying = (\E c \in Callers : doing[c].op = "replaying")
    <3>1. replaying \in BOOLEAN
      BY <1>1 DEF Typed
    <3>2. replaying => \E c \in Callers : doing[c].op = "replaying"
      BY <1>1 DEF Tasks
    <3>3. (\E c \in Callers : doing[c].op = "replaying") => replaying
      BY <1>1 DEF CaptureInv
    <3> QED
      BY <3>1, <3>2, <3>3
  <2>7. host \in HostType(Callers \union {"turn"}) /\ turn.stop \in {"no", "asked", "sent", "taken"}
    BY <1>1 DEF Typed, HostRec, Everyone, TurnRec, Stops
  <2> QED
    BY <1>1, <2>2, <2>3, <2>4, <2>5, <2>6, <2>7 DEF TypeOK, Typed
<1>3. PlaceholderOnlyRaced
  <2>1. ASSUME ~seen.torn, Begun PROVE host.prompt # Nothing /\ turn.atStart # Nothing
    <3>1. host.materialized /\ host.preparing = {} /\ turn.atStart = host.prompt
      BY <1>1, <2>1 DEF Placed, PromptTrue, Begun
    <3> QED
      BY <1>1, <2>1, <3>1 DEF PromptTrue, Surfaced
  <2> QED
    BY <2>1 DEF PlaceholderOnlyRaced, NoPlaceholder
<1>4. PrefixKept
  BY <1>1 DEF PrefixKept, HistoryTrue, PromptTrue, Surfaced
<1>5. BaselineTrue
  <2> SUFFICES ASSUME ~seen.inherited, ~seen.torn PROVE Believed = Told
    BY DEF BaselineTrue
  <2> DEFINE news == News(hist, seen.since)
  <2>1. Told = IF news = {} THEN host.prompt
               ELSE hist[CHOOSE i \in news : \A j \in news : j <= i].says
    BY DEF Told, News
  <2>2. Latest(hist, seen.since, base)
    BY <1>1 DEF HistoryTrue
  <2>3. news \subseteq Nat
    <3>1. DOMAIN hist \subseteq Nat
      BY <1>1, LenProperties DEF Typed
    <3> QED
      BY <3>1 DEF News
  <2>4. CASE base = Nothing
    BY <2>1, <2>2, <2>4 DEF Latest, Believed
  <2>5. CASE base # Nothing
    <3>1. PICK i \in news : (\A j \in news : j <= i) /\ hist[i].says = base
      BY <2>2, <2>5 DEF Latest
    <3> HIDE DEF news
    <3>2. \A k \in news : (\A j \in news : j <= k) => k = i
      BY <2>3, <3>1
    <3>3. (CHOOSE k \in news : \A j \in news : j <= k) = i
      BY <3>1, <3>2
    <3> QED
      BY <2>1, <2>5, <3>1, <3>3 DEF Believed
  <2> QED
    BY <2>4, <2>5
<1> QED
  BY <1>2, <1>3, <1>4, <1>5 DEF SurfaceTrue

\* PluginHost.materialize(), cache_protect.py, Conversation.save() and
\* load_session(): as long as no turn is started and no session is loaded while
\* another call is under way, whatever else the tasks do, the session goes on
\* from the bytes of its last request, no turn runs on a placeholder it could
\* have waited for, cache-protect's baseline is what the model was told last, the
\* files are each session's own, and aclose() releases after the turn.
THEOREM CallsInTurn ==
    Spec /\ [][OneAtATime]_vars => [](SurfaceTrue /\ RecordsApart /\ ClosedWhole)
<1>1. Init => SurfaceInv /\ ClosedWhole
  BY SurfaceStarts, Starts
<1>2. SurfaceInv /\ ClosedWhole /\ [Next]_vars /\ [OneAtATime]_vars => SurfaceInv' /\ ClosedWhole'
  <2> SUFFICES ASSUME SurfaceInv, ClosedWhole, [Next]_vars, [OneAtATime]_vars PROVE SurfaceInv' /\ ClosedWhole'
    OBVIOUS
  <2>1. OneAtATime
    <3>1. ASSUME UNCHANGED vars, NEW c \in Callers PROVE ~Run(c) /\ ~LoadSession(c)
      <4>1. turn' = turn /\ doing' = doing
        BY <3>1 DEF vars
      <4>2. ~Run(c)
        BY <4>1 DEF Run, NoTurn, Busy
      <4>3. ASSUME LoadSession(c) PROVE FALSE
        <5>1. doing[c].op = "idle"
          BY <4>3 DEF LoadSession, Free
        <5>2. \E op \in {"changing", "announcing"} : \E left : doing' = [doing EXCEPT ![c] = [op |-> op, left |-> left]]
          BY <4>3 DEF LoadSession, Changes, Goes
        <5>3. doing \in [Callers -> CallRec]
          BY DEF SurfaceInv, RecordsInv, TypesInv, Typed
        <5> QED
          BY <4>1, <5>1, <5>2, <5>3
      <4> QED
        BY <4>2, <4>3
    <3> QED
      BY <3>1 DEF OneAtATime
  <2>2. Typed /\ LeftInv /\ Tasks
    BY DEF SurfaceInv, RecordsInv, TypesInv
  <2> QED
    BY <2>1, <2>2, SurfaceKept, ClosedKept, Alone
<1>3. SurfaceInv => SurfaceTrue /\ RecordsApart
  BY SurfaceMeant, RecordsMeant DEF SurfaceInv
<1> QED
  BY <1>1, <1>2, <1>3, PTL DEF Spec

OneTask == \A c, d \in Callers : c = d

\* An application with one task calls in turn by itself, so all of it holds
\* however often that task prepares, loads, saves, runs and closes.
THEOREM OneTaskEnough ==
    ASSUME OneTask
    PROVE  Spec => [](SurfaceTrue /\ RecordsApart /\ ClosedWhole)
<1>1. OneAtATime
  BY DEF OneAtATime, OneTask, Run, LoadSession, Free
<1>2. [Next]_vars => [OneAtATime]_vars
  BY <1>1
<1> QED
  BY <1>2, CallsInTurn, PTL DEF Spec
=============================================================================
