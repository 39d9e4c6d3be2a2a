-------------------------- MODULE McpSessionProofs --------------------------
(***************************************************************************)
(* Proofs about McpSession for every set of tasks, every set of raw names     *)
(* and every way they fold together.                                       *)
(***************************************************************************)
EXTENDS McpSession, SequenceTheorems, TLAPS

-----------------------------------------------------------------------------
(* Types                                                                   *)

Stages == {"connecting", "serving", "leaving", "gone"}
Running == {"connecting", "serving"}
ConnRec == [stage : Stages, stop : BOOLEAN, cancelled : BOOLEAN, up : BOOLEAN, news : BOOLEAN]
TaskRec(n) ==
    [op : {"idle", "waiting", "asked", "answered"},
     want : {"none", "call", "start", "background", "refresh"},
     conn : 0 .. n, list : SUBSET Raws, version : 0 .. MaxChanges]
States == {"disconnected", "connected", "error", "closed"}
SessionRec(n) ==
    [state : States, conn : 0 .. n, client : 0 .. n, watch : {"none", "listening", "backoff"}]
ServerRec == [version : 0 .. MaxChanges, offers : SUBSET Raws]
SeenRec == [applied : SUBSET Raws, version : 0 .. MaxChanges, missed : BOOLEAN, unclient : BOOLEAN]

\* A task that does something has a connection and wants something of it.
TaskFine(r, n) ==
    /\ r \in TaskRec(n)
    /\ r.op # "idle" => r.conn # 0 /\ r.want # "none"
    /\ r.op = "idle" => r = Idle

ConnsTyped == conns \in Seq(ConnRec)
SessionTyped == session \in SessionRec(Len(conns))
TasksTyped ==
    /\ tasks = [t \in Tasks |-> tasks[t]]
    /\ \A t \in Tasks : TaskFine(tasks[t], Len(conns))
SeenTyped == seen \in SeenRec
RestTyped ==
    /\ server \in ServerRec
    /\ era \in {"modern", "legacy"}
    /\ runtime \in [started : BOOLEAN, down : BOOLEAN, late : BOOLEAN]
    /\ \A full \in DOMAIN tools : tools[full] \in Raws
Typed == ConnsTyped /\ SessionTyped /\ TasksTyped /\ SeenTyped /\ RestTyped

\* What the record of a connection is after one of its fields is set.
LEMMA ConnFields ==
    ASSUME NEW r \in ConnRec, NEW x \in BOOLEAN, NEW g \in Stages
    PROVE  /\ [r EXCEPT !.news = x] \in ConnRec /\ [r EXCEPT !.up = x] \in ConnRec
           /\ [r EXCEPT !.stop = x] \in ConnRec /\ [r EXCEPT !.cancelled = x] \in ConnRec
           /\ [r EXCEPT !.stage = g] \in ConnRec
           /\ r.stage \in Stages /\ r.stop \in BOOLEAN /\ r.cancelled \in BOOLEAN
           /\ r.up \in BOOLEAN /\ r.news \in BOOLEAN
<1>1. [r EXCEPT !.news = x] \in ConnRec
  BY DEF ConnRec
<1>2. [r EXCEPT !.up = x] \in ConnRec
  BY DEF ConnRec
<1>3. [r EXCEPT !.stop = x] \in ConnRec
  BY DEF ConnRec
<1>4. [r EXCEPT !.cancelled = x] \in ConnRec
  BY DEF ConnRec
<1>5. [r EXCEPT !.stage = g] \in ConnRec
  BY DEF ConnRec
<1>6. /\ r.stage \in Stages /\ r.stop \in BOOLEAN /\ r.cancelled \in BOOLEAN
      /\ r.up \in BOOLEAN /\ r.news \in BOOLEAN
  BY DEF ConnRec
<1> QED
  BY <1>1, <1>2, <1>3, <1>4, <1>5, <1>6

\* One connection after a step: it does not start running again, and what it
\* was told it stays told.
Onward(p, q) ==
    /\ q \in ConnRec
    /\ q.stage \in Running => p.stage \in Running
    /\ p.stop => q.stop
    /\ p.cancelled => q.cancelled
Carries(a, b) ==
    /\ b \in Seq(ConnRec) /\ Len(b) = Len(a) /\ DOMAIN b = DOMAIN a
    /\ \A c \in DOMAIN a : Onward(a[c], b[c])

\* Setting the fields the code sets moves a connection onward.
LEMMA SetsOnward ==
    ASSUME NEW r \in ConnRec, NEW x \in BOOLEAN, NEW g \in Stages
    PROVE  /\ Onward(r, r)
           /\ Onward(r, [r EXCEPT !.news = x])
           /\ Onward(r, [r EXCEPT !.up = x])
           /\ Onward(r, [r EXCEPT !.stop = TRUE])
           /\ Onward(r, [r EXCEPT !.cancelled = r.cancelled \/ x])
           /\ (g \in Running => r.stage \in Running) => Onward(r, [r EXCEPT !.stage = g])
<1>1. r = [stage |-> r.stage, stop |-> r.stop, cancelled |-> r.cancelled, up |-> r.up,
           news |-> r.news]
  BY DEF ConnRec
<1>2. r.stop \in BOOLEAN /\ r.cancelled \in BOOLEAN
  BY ConnFields
<1>3. Onward(r, r)
  BY DEF Onward
<1>4. Onward(r, [r EXCEPT !.news = x])
  <2>1. [r EXCEPT !.news = x].stage = r.stage /\ [r EXCEPT !.news = x].stop = r.stop
        /\ [r EXCEPT !.news = x].cancelled = r.cancelled
    BY <1>1
  <2> QED
    BY <2>1, ConnFields DEF Onward
<1>5. Onward(r, [r EXCEPT !.up = x])
  <2>1. [r EXCEPT !.up = x].stage = r.stage /\ [r EXCEPT !.up = x].stop = r.stop
        /\ [r EXCEPT !.up = x].cancelled = r.cancelled
    BY <1>1
  <2> QED
    BY <2>1, ConnFields DEF Onward
<1>6. Onward(r, [r EXCEPT !.stop = TRUE])
  <2>1. [r EXCEPT !.stop = TRUE].stage = r.stage /\ [r EXCEPT !.stop = TRUE].stop
        /\ [r EXCEPT !.stop = TRUE].cancelled = r.cancelled
    BY <1>1
  <2>2. [r EXCEPT !.stop = TRUE] \in ConnRec
    BY ConnFields
  <2> QED
    BY <2>1, <2>2 DEF Onward
<1>7. Onward(r, [r EXCEPT !.cancelled = r.cancelled \/ x])
  <2> DEFINE y == r.cancelled \/ x
  <2>1. y \in BOOLEAN /\ (r.cancelled => y)
    BY <1>2
  <2> HIDE DEF y
  <2>2. [r EXCEPT !.cancelled = y].stage = r.stage /\ [r EXCEPT !.cancelled = y].stop = r.stop
        /\ [r EXCEPT !.cancelled = y].cancelled = y
    BY <1>1
  <2>3. Onward(r, [r EXCEPT !.cancelled = y])
    BY <2>1, <2>2, ConnFields DEF Onward
  <2> QED
    BY <2>3 DEF y
<1>8. ASSUME g \in Running => r.stage \in Running PROVE Onward(r, [r EXCEPT !.stage = g])
  <2>1. [r EXCEPT !.stage = g].stage = g /\ [r EXCEPT !.stage = g].stop = r.stop
        /\ [r EXCEPT !.stage = g].cancelled = r.cancelled
    BY <1>1
  <2> QED
    BY <1>8, <2>1, ConnFields DEF Onward
<1> QED
  BY <1>3, <1>4, <1>5, <1>6, <1>7, <1>8

LEMMA OnwardOnward ==
    ASSUME NEW p, NEW q, NEW r, Onward(p, q), Onward(q, r) PROVE Onward(p, r)
BY DEF Onward

\* A list of connections each of which moves onward is one.
LEMMA MapCarries ==
    ASSUME NEW a \in Seq(ConnRec), NEW b, DOMAIN b = DOMAIN a, b = [c \in DOMAIN a |-> b[c]],
           \A c \in DOMAIN a : Onward(a[c], b[c])
    PROVE  Carries(a, b)
<1>1. Len(a) \in Nat /\ DOMAIN a = 1 .. Len(a)
  BY LenProperties
<1>2. b \in [1 .. Len(a) -> ConnRec]
  BY <1>1 DEF Onward
<1>3. b \in Seq(ConnRec)
  BY <1>1, <1>2, SeqDef
<1>4. Len(b) = Len(a)
  BY <1>1, <1>2, <1>3, LenProperties
<1> QED
  BY <1>3, <1>4 DEF Carries

\* Setting one connection.
LEMMA OneCarries ==
    ASSUME NEW a \in Seq(ConnRec), NEW c \in DOMAIN a, NEW r, Onward(a[c], r),
           NEW b, b = [a EXCEPT ![c] = r]
    PROVE  /\ Carries(a, b)
           /\ b[c] = r
           /\ \A d \in DOMAIN a : d # c => b[d] = a[d]
<1>1. a = [d \in DOMAIN a |-> a[d]]
  BY LenProperties, SeqDef
<1>2. DOMAIN b = DOMAIN a /\ b = [d \in DOMAIN a |-> b[d]] /\ b[c] = r
  BY <1>1
<1>3. \A d \in DOMAIN a : d # c => b[d] = a[d]
  OBVIOUS
<1>4. \A d \in DOMAIN a : a[d] \in ConnRec
  BY ElementOfSeq, LenProperties
<1>5. TRUE \in BOOLEAN /\ "gone" \in Stages
  BY DEF Stages
<1>6. \A d \in DOMAIN a : Onward(a[d], b[d])
  BY <1>2, <1>3, <1>4, <1>5, SetsOnward
<1>7. Carries(a, b)
  BY <1>2, <1>6, MapCarries
<1> QED
  BY <1>2, <1>3, <1>7

-----------------------------------------------------------------------------
(* What each operation does to the list of connections                     *)

LEMMA ConnTyped ==
    ASSUME ConnsTyped, NEW c \in DOMAIN conns
    PROVE  /\ conns[c] \in ConnRec /\ c \in 1 .. Len(conns) /\ Len(conns) \in Nat
           /\ conns[c].stage \in Stages /\ conns[c].stop \in BOOLEAN
           /\ conns[c].cancelled \in BOOLEAN /\ conns[c].up \in BOOLEAN
           /\ conns[c].news \in BOOLEAN
<1>1. conns[c] \in ConnRec /\ c \in 1 .. Len(conns) /\ Len(conns) \in Nat
  BY ElementOfSeq, LenProperties DEF ConnsTyped
<1>2. TRUE \in BOOLEAN /\ "gone" \in Stages
  BY DEF Stages
<1> QED
  BY <1>1, <1>2, ConnFields

\* A step that leaves the connections alone carries them.
LEMMA SameCarries ==
    ASSUME ConnsTyped PROVE Carries(conns, conns)
<1>1. TRUE \in BOOLEAN /\ "gone" \in Stages
  BY DEF Stages
<1>2. \A c \in DOMAIN conns : Onward(conns[c], conns[c])
  BY <1>1, ConnTyped, SetsOnward
<1> QED
  BY <1>2 DEF Carries, ConnsTyped

LEMMA CarriesCarries ==
    ASSUME NEW a, NEW b, NEW d, Carries(a, b), Carries(b, d) PROVE Carries(a, d)
BY OnwardOnward DEF Carries

\* A notification is given or taken.
LEMMA NewsCarries ==
    ASSUME ConnsTyped, NEW n, DOMAIN n = DOMAIN conns,
           n = [c \in DOMAIN conns |-> n[c]],
           \A c \in DOMAIN conns : \E x \in BOOLEAN : n[c] = [conns[c] EXCEPT !.news = x]
    PROVE  Carries(conns, n)
<1>1. \A c \in DOMAIN conns : Onward(conns[c], n[c])
  <2> TAKE c \in DOMAIN conns
  <2>1. PICK x \in BOOLEAN : n[c] = [conns[c] EXCEPT !.news = x]
    OBVIOUS
  <2>2. "gone" \in Stages
    BY DEF Stages
  <2>3. conns[c] \in ConnRec
    BY ConnTyped
  <2>4. Onward(conns[c], [conns[c] EXCEPT !.news = x])
    BY ONLY <2>2, <2>3, SetsOnward
  <2> QED
    BY ONLY <2>1, <2>4
<1> QED
  BY <1>1, MapCarries DEF ConnsTyped

\* The connection ends, and what it had been told is lost.
LEMMA EndedCarries ==
    ASSUME ConnsTyped, NEW c \in DOMAIN conns, NEW stage \in {"leaving", "gone"}
    PROVE  /\ Carries(conns, Ended(c, stage))
           /\ Ended(c, stage)[c].stage = stage /\ ~Ended(c, stage)[c].news
           /\ \A d \in DOMAIN conns : d # c => Ended(c, stage)[d] = conns[d]
<1>1. conns[c] \in ConnRec /\ stage \in Stages /\ stage \notin Running /\ FALSE \in BOOLEAN
  BY ConnTyped DEF Stages, Running
<1> DEFINE p == [conns[c] EXCEPT !.stage = stage]
           q == [p EXCEPT !.news = FALSE]
<1>2. p \in ConnRec /\ Onward(conns[c], p)
  BY <1>1, ConnFields, SetsOnward
<1>3. Onward(p, q)
  BY <1>1, <1>2, SetsOnward
<1>4. p = [stage |-> stage, stop |-> conns[c].stop, cancelled |-> conns[c].cancelled,
           up |-> conns[c].up, news |-> conns[c].news]
  BY <1>1 DEF ConnRec
<1>5. q.stage = stage /\ q.news = FALSE
  BY <1>4
<1>6. Onward(conns[c], q)
  BY <1>2, <1>3, OnwardOnward
<1>7. [conns EXCEPT ![c].stage = stage] = [conns EXCEPT ![c] = p]
  OBVIOUS
<1>8. Ended(c, stage) = [conns EXCEPT ![c] = q]
  BY <1>1 DEF Ended, ConnsTyped
<1> HIDE DEF p, q
<1>9. /\ Carries(conns, Ended(c, stage)) /\ Ended(c, stage)[c] = q
      /\ \A d \in DOMAIN conns : d # c => Ended(c, stage)[d] = conns[d]
  BY <1>6, <1>8, OneCarries DEF ConnsTyped
<1> QED
  BY <1>5, <1>9

\* Told to stop.
LEMMA StoppingCarries ==
    ASSUME ConnsTyped, NEW c \in DOMAIN conns
    PROVE  /\ Carries(conns, Stopping(c))
           /\ Stopping(c)[c].stop
           /\ \A d \in DOMAIN conns : Stopping(c)[d].stage = conns[d].stage
                                      /\ Stopping(c)[d].news = conns[d].news
<1>1. conns[c] \in ConnRec /\ TRUE \in BOOLEAN /\ "gone" \in Stages
  BY ConnTyped DEF Stages
<1> DEFINE p == [conns[c] EXCEPT !.stop = TRUE]
<1>2. Onward(conns[c], p)
  BY <1>1, SetsOnward
<1>3. p.stop /\ p.stage = conns[c].stage /\ p.news = conns[c].news
  BY <1>1 DEF ConnRec
<1>4. Stopping(c) = [conns EXCEPT ![c] = p]
  BY DEF Stopping
<1> HIDE DEF p
<1>5. /\ Carries(conns, Stopping(c)) /\ Stopping(c)[c] = p
      /\ \A d \in DOMAIN conns : d # c => Stopping(c)[d] = conns[d]
  BY <1>2, <1>4, OneCarries DEF ConnsTyped
<1> QED
  BY <1>3, <1>5

LEMMA StoppedCarries ==
    ASSUME ConnsTyped, NEW c \in DOMAIN conns
    PROVE  /\ Carries(conns, Stopped(c))
           /\ Stopped(c)[c].stop
           /\ \A d \in DOMAIN conns : Stopped(c)[d].stage = conns[d].stage
                                      /\ Stopped(c)[d].news = conns[d].news
<1>1. conns[c] \in ConnRec /\ TRUE \in BOOLEAN /\ "gone" \in Stages
  BY ConnTyped DEF Stages
<1> DEFINE x == conns[c].stage = "connecting"
           p == [conns[c] EXCEPT !.stop = TRUE]
           q == [p EXCEPT !.cancelled = p.cancelled \/ x]
<1>2. Onward(conns[c], p) /\ p \in ConnRec
  BY <1>1, SetsOnward, ConnFields
<1>3. x \in BOOLEAN
  OBVIOUS
<1>4. p.stop /\ p.stage = conns[c].stage /\ p.news = conns[c].news
      /\ p.cancelled = conns[c].cancelled
  BY <1>1 DEF ConnRec
<1>5. Stopped(c) = [conns EXCEPT ![c] = q]
  BY <1>1, <1>4 DEF Stopped, ConnsTyped
<1> HIDE DEF p, x
<1>6. Onward(p, q)
  BY <1>1, <1>2, <1>3, SetsOnward
<1>7. q.stop /\ q.stage = conns[c].stage /\ q.news = conns[c].news
  BY <1>2, <1>4 DEF ConnRec
<1>8. Onward(conns[c], q)
  BY <1>2, <1>6, OnwardOnward
<1> HIDE DEF q
<1>9. /\ Carries(conns, Stopped(c)) /\ Stopped(c)[c] = q
      /\ \A d \in DOMAIN conns : d # c => Stopped(c)[d] = conns[d]
  BY <1>5, <1>8, OneCarries DEF ConnsTyped
<1> QED
  BY <1>7, <1>9

\* The server of the connection dies.
LEMMA DeadCarries ==
    ASSUME ConnsTyped, NEW c \in DOMAIN conns, NEW after,
           after = [conns EXCEPT ![c].up = FALSE, ![c].news = FALSE]
    PROVE  /\ Carries(conns, after)
           /\ \A d \in DOMAIN conns : after[d].stage = conns[d].stage
           /\ \A d \in DOMAIN conns : d # c => after[d] = conns[d]
<1>1. conns[c] \in ConnRec /\ FALSE \in BOOLEAN /\ "gone" \in Stages
  BY ConnTyped DEF Stages
<1> DEFINE p == [conns[c] EXCEPT !.up = FALSE]
           q == [p EXCEPT !.news = FALSE]
<1>2. Onward(conns[c], p) /\ p \in ConnRec
  BY <1>1, SetsOnward, ConnFields
<1>3. Onward(conns[c], q)
  BY <1>1, <1>2, SetsOnward, OnwardOnward
<1>4. q.stage = conns[c].stage
  BY <1>1 DEF ConnRec
<1>5. after = [conns EXCEPT ![c] = q]
  BY <1>1 DEF ConnsTyped
<1> HIDE DEF p, q
<1>6. /\ Carries(conns, after) /\ after[c] = q
      /\ \A d \in DOMAIN conns : d # c => after[d] = conns[d]
  BY <1>3, <1>5, OneCarries DEF ConnsTyped
<1> QED
  BY <1>4, <1>6

\* Cancelled tasks take attempts down, and nothing else.
LEMMA CancelsCarries ==
    ASSUME ConnsTyped, NEW gone \in SUBSET Tasks, NEW now, Carries(conns, now),
           Cancels(gone, now)
    PROVE  /\ Carries(now, conns') /\ Carries(conns, conns')
           /\ \A c \in DOMAIN conns : conns'[c].stage = now[c].stage
                                      /\ conns'[c].news = now[c].news
<1> DEFINE x(c) == \E t \in gone : /\ tasks[t].op = "waiting" /\ tasks[t].conn = c
                                   /\ now[c].stage # "gone"
           y(c) == now[c].cancelled \/ x(c)
<1>1. now \in Seq(ConnRec) /\ DOMAIN now = DOMAIN conns
      /\ \A c \in DOMAIN now : now[c] \in ConnRec
  BY DEF Carries, Onward
<1>2. conns' = [c \in DOMAIN now |-> [now[c] EXCEPT !.cancelled = y(c)]]
  BY DEF Cancels
<1>3. \A c : x(c) \in BOOLEAN
  OBVIOUS
<1>4. TRUE \in BOOLEAN /\ "gone" \in Stages
  BY DEF Stages
<1>5. \A c \in DOMAIN now : Onward(now[c], conns'[c])
  <2> TAKE c \in DOMAIN now
  <2>1. conns'[c] = [now[c] EXCEPT !.cancelled = now[c].cancelled \/ x(c)]
    BY <1>2
  <2>2. x(c) \in BOOLEAN
    BY <1>3
  <2> HIDE DEF x
  <2> QED
    BY <2>1, <2>2, <1>1, <1>4, SetsOnward
<1>6. \A c \in DOMAIN now : conns'[c].stage = now[c].stage /\ conns'[c].news = now[c].news
  <2> TAKE c \in DOMAIN now
  <2>1. conns'[c] = [now[c] EXCEPT !.cancelled = y(c)]
    BY <1>2
  <2> HIDE DEF y
  <2> QED
    BY <2>1, <1>1 DEF ConnRec
<1> HIDE DEF x, y
<1>7. Carries(now, conns')
  <2>1. DOMAIN conns' = DOMAIN now /\ conns' = [c \in DOMAIN now |-> conns'[c]]
    BY <1>2
  <2> QED
    BY <2>1, <1>1, <1>5, MapCarries
<1> QED
  BY <1>1, <1>6, <1>7, CarriesCarries

-----------------------------------------------------------------------------
(* What each operation does to the session, to a task and to the history   *)

LEMMA SetsState ==
    ASSUME NEW n \in Nat, NEW r \in SessionRec(n), NEW st \in States,
           NEW after, after = [r EXCEPT !.state = st]
    PROVE  after \in SessionRec(n) /\ after.conn = r.conn /\ after.client = r.client
           /\ after.state = st /\ after.watch = r.watch
BY DEF SessionRec

LEMMA SetsWatch ==
    ASSUME NEW n \in Nat, NEW r \in SessionRec(n), NEW w \in {"none", "listening", "backoff"},
           NEW after, after = [r EXCEPT !.watch = w]
    PROVE  after \in SessionRec(n) /\ after.conn = r.conn /\ after.client = r.client
           /\ after.state = r.state /\ after.watch = w
BY DEF SessionRec

LEMMA SetsConn ==
    ASSUME NEW n \in Nat, NEW r \in SessionRec(n), NEW c \in 0 .. n,
           NEW after, after = [r EXCEPT !.conn = c]
    PROVE  after \in SessionRec(n) /\ after.conn = c /\ after.client = r.client
           /\ after.state = r.state /\ after.watch = r.watch
BY DEF SessionRec

LEMMA SetsClient ==
    ASSUME NEW n \in Nat, NEW r \in SessionRec(n), NEW c \in 0 .. n,
           NEW after, after = [r EXCEPT !.client = c]
    PROVE  after \in SessionRec(n) /\ after.conn = r.conn /\ after.client = c
           /\ after.state = r.state /\ after.watch = r.watch
BY DEF SessionRec

LEMMA SessionValues ==
    ASSUME NEW n \in Nat, NEW r \in SessionRec(n)
    PROVE  /\ r.state \in States /\ r.conn \in 0 .. n /\ r.client \in 0 .. n
           /\ r.watch \in {"none", "listening", "backoff"}
BY DEF SessionRec

\* More connections are more to point at.
LEMMA SessionGrows ==
    ASSUME NEW n \in Nat, NEW r \in SessionRec(n) PROVE r \in SessionRec(n + 1)
BY DEF SessionRec

LEMMA SeenValues ==
    ASSUME NEW r \in SeenRec
    PROVE  /\ r.missed \in BOOLEAN /\ r.unclient \in BOOLEAN
           /\ r.applied \in SUBSET Raws /\ r.version \in 0 .. MaxChanges
BY DEF SeenRec

LEMMA SetsMissed ==
    ASSUME NEW r \in SeenRec, NEW x \in BOOLEAN, NEW after, after = [r EXCEPT !.missed = x]
    PROVE  /\ after \in SeenRec /\ after.missed = x
           /\ after.applied = r.applied /\ after.version = r.version
BY DEF SeenRec

LEMMA IdleFine ==
    ASSUME NEW n \in Nat PROVE TaskFine(Idle, n)
<1>1. 0 \in 0 .. MaxChanges /\ 0 \in 0 .. n
  BY McpAssumption
<1> QED
  BY <1>1 DEF TaskFine, TaskRec, Idle

\* A task at work.
Wants == {"call", "start", "background", "refresh"}
Job(op, want, c) == [Idle EXCEPT !.op = op, !.want = want, !.conn = c]
LEMMA JobFine ==
    ASSUME NEW n \in Nat, NEW op \in {"waiting", "asked"}, NEW want \in Wants, NEW c \in 1 .. n
    PROVE  /\ TaskFine(Job(op, want, c), n)
           /\ Job(op, want, c).op = op /\ Job(op, want, c).want = want
           /\ Job(op, want, c).conn = c /\ Job(op, want, c).version = 0
<1>1. 0 \in 0 .. MaxChanges /\ c \in 0 .. n /\ c # 0
  BY McpAssumption
<1> DEFINE p == [Idle EXCEPT !.op = op]
           q == [p EXCEPT !.want = want]
           r == [q EXCEPT !.conn = c]
<1>2. p = [op |-> op, want |-> "none", conn |-> 0, list |-> {}, version |-> 0]
  BY DEF Idle
<1> HIDE DEF p
<1>3. q = [op |-> op, want |-> want, conn |-> 0, list |-> {}, version |-> 0]
  BY <1>2
<1> HIDE DEF q
<1>4. r = [op |-> op, want |-> want, conn |-> c, list |-> {}, version |-> 0]
  BY <1>3
<1>5. Job(op, want, c) = r
  BY DEF Job, p, q, r
<1> HIDE DEF r
<1>6. r \in TaskRec(n)
  BY <1>1, <1>4 DEF TaskRec, Wants
<1>7. r.op = op /\ r.want = want /\ r.conn = c /\ r.version = 0
  BY <1>4
<1>8. want # "none" /\ op # "idle"
  BY DEF Wants
<1> QED
  BY <1>1, <1>5, <1>6, <1>7, <1>8 DEF TaskFine

LEMMA TaskValues ==
    ASSUME NEW n \in Nat, NEW r, TaskFine(r, n)
    PROVE  /\ r.op \in {"idle", "waiting", "asked", "answered"}
           /\ r.want \in Wants \union {"none"} /\ r.conn \in 0 .. n
           /\ r.list \in SUBSET Raws /\ r.version \in 0 .. MaxChanges
           /\ r.op # "idle" => r.conn \in 1 .. n /\ r.want \in Wants
           /\ r.op = "idle" => r.want = "none" /\ r.conn = 0 /\ r = Idle
           /\ TaskFine(r, n + 1)
<1>1. r \in TaskRec(n) /\ TaskRec(n) \in SUBSET TaskRec(n + 1)
  BY DEF TaskFine, TaskRec
<1>2. /\ r.op \in {"idle", "waiting", "asked", "answered"}
      /\ r.want \in Wants \union {"none"} /\ r.conn \in 0 .. n
      /\ r.list \in SUBSET Raws /\ r.version \in 0 .. MaxChanges
  BY <1>1 DEF TaskRec, Wants
<1>3. r.op # "idle" => r.conn \in 1 .. n /\ r.want \in Wants
  BY <1>2 DEF TaskFine
<1>4. r.op = "idle" => r.want = "none" /\ r.conn = 0 /\ r = Idle
  BY DEF TaskFine, Idle
<1>5. TaskFine(r, n + 1)
  BY <1>1 DEF TaskFine
<1> QED
  BY <1>2, <1>3, <1>4, <1>5

TasksFine(after, n) ==
    /\ after = [t \in Tasks |-> after[t]]
    /\ \A t \in Tasks : TaskFine(after[t], n)

\* The tasks of a step that changes one of them.
LEMMA OneTask ==
    ASSUME TasksTyped, NEW t \in Tasks, NEW r, NEW n \in Nat, NEW after, TaskFine(r, n),
           \A u \in Tasks : TaskFine(tasks[u], n), after = [tasks EXCEPT ![t] = r]
    PROVE  /\ TasksFine(after, n) /\ after[t] = r
           /\ \A u \in Tasks : u # t => after[u] = tasks[u]
<1>1. tasks = [u \in Tasks |-> tasks[u]]
  BY DEF TasksTyped
<1>2. /\ after = [u \in Tasks |-> after[u]] /\ after[t] = r
      /\ \A u \in Tasks : u # t => after[u] = tasks[u]
  BY <1>1
<1> QED
  BY <1>2 DEF TasksFine

\* Cancelling leaves the tasks well formed.
LEMMA CancelsTasks ==
    ASSUME Typed, NEW gone \in SUBSET Tasks, NEW now, Cancels(gone, now)
    PROVE  /\ TasksFine(tasks', Len(conns))
           /\ \A t \in gone : tasks'[t] = Idle
           /\ \A t \in Tasks : t \notin gone => tasks'[t] = tasks[t]
<1>1. tasks' = [t \in Tasks |-> IF t \in gone THEN Idle ELSE tasks[t]]
  BY DEF Cancels
<1>2. \A t \in Tasks : tasks'[t] = IF t \in gone THEN Idle ELSE tasks[t]
  BY <1>1
<1>3. Len(conns) \in Nat
  BY LenProperties DEF Typed, ConnsTyped
<1>4. \A t \in Tasks : TaskFine(tasks'[t], Len(conns))
  BY <1>2, <1>3, IdleFine DEF Typed, TasksTyped
<1> QED
  BY <1>1, <1>2, <1>4 DEF TasksFine

-----------------------------------------------------------------------------
(* Connections                                                             *)

\* ConnectionsKept is inductive with the types of the whole state: a
\* connection leaves session.conn only when it is told to end, and the end of
\* any connection clears the session's client.
Kept == Typed /\ NoConnectionLeaked /\ ClientLives

LEMMA KeptInit ==
    ASSUME Init PROVE Kept
<1>1. conns = <<>> /\ conns \in Seq(ConnRec) /\ Len(conns) = 0
  BY EmptySeq DEF Init
<1>2. 0 \in 0 .. MaxChanges /\ 0 \in 0 .. 0 /\ 0 \in Nat
  BY McpAssumption
<1>3. SessionTyped
  BY <1>1, <1>2 DEF Init, SessionTyped, SessionRec, States
<1>4. TasksTyped
  BY <1>1, <1>2, IdleFine DEF Init, TasksTyped
<1>5. SeenTyped
  BY <1>2 DEF Init, SeenTyped, SeenRec
<1>6. RestTyped
  BY <1>2 DEF Init, RestTyped, ServerRec
<1>7. NoConnectionLeaked /\ ClientLives
  BY <1>1 DEF Init, NoConnectionLeaked, ClientLives
<1> QED
  BY <1>1, <1>3, <1>4, <1>5, <1>6, <1>7 DEF Kept, Typed, ConnsTyped

\* Nothing is leaked while the session keeps its connection, nor when the one
\* it drops has been stopped.
LEMMA LeakStep ==
    ASSUME ConnsTyped, NoConnectionLeaked, Carries(conns, conns'),
           \/ session'.conn = session.conn
           \/ session.conn \in DOMAIN conns => conns'[session.conn].stop
    PROVE  NoConnectionLeaked'
<1> SUFFICES ASSUME NEW c \in DOMAIN conns, conns'[c].stage \in Running, c # session'.conn
             PROVE  conns'[c].stop \/ conns'[c].cancelled
  BY DEF NoConnectionLeaked, Running, Carries
<1>1. Onward(conns[c], conns'[c])
  BY DEF Carries
<1>2. CASE c = session.conn
  BY <1>2
<1>3. CASE c # session.conn
  BY <1>1, <1>3 DEF NoConnectionLeaked, Onward, Running
<1> QED
  BY <1>2, <1>3

\* The client stays as long as no connection comes to its end.
LEMMA ClientStep ==
    ASSUME ClientLives, DOMAIN conns' = DOMAIN conns,
           \/ session'.client = 0
           \/ /\ session'.client = session.client
              /\ \A c \in DOMAIN conns : conns'[c].stage = conns[c].stage \/ conns'[c].stage # "gone"
    PROVE  ClientLives'
BY DEF ClientLives, Live

LEMMA Lengths ==
    ASSUME Typed
    PROVE  /\ Len(conns) \in Nat /\ DOMAIN conns = 1 .. Len(conns)
           /\ session.state \in States /\ session.conn \in 0 .. Len(conns)
           /\ session.client \in 0 .. Len(conns)
           /\ session.watch \in {"none", "listening", "backoff"}
           /\ session \in SessionRec(Len(conns)) /\ seen \in SeenRec
<1>1. Len(conns) \in Nat /\ DOMAIN conns = 1 .. Len(conns)
  BY LenProperties DEF Typed, ConnsTyped
<1>2. session \in SessionRec(Len(conns)) /\ seen \in SeenRec
  BY DEF Typed, SessionTyped, SeenTyped
<1> QED
  BY <1>1, <1>2, SessionValues

LEMMA SendsShape ==
    ASSUME Typed, NEW t \in Tasks, NEW want \in Wants, Sends(t, want)
    PROVE  \/ /\ Over(t) /\ session' = [session EXCEPT !.state = FailedState(want)]
              /\ seen' = [seen EXCEPT !.unclient = TRUE, !.missed = @ \/ want # "call"]
           \/ /\ session.client \in 1 .. Len(conns)
              /\ tasks' = [tasks EXCEPT ![t] = Job("asked", want, session.client)]
              /\ session' = session /\ seen' = seen
<1>1. CASE session.client = 0
  BY <1>1 DEF Sends
<1>2. CASE session.client # 0
  BY <1>2, Lengths DEF Sends, Working, Job
<1> QED
  BY <1>1, <1>2

\* The outcomes of _ensure_connection(): the task is refused, it waits for a
\* connection or has asked one, or the connection is a new one.
LEMMA EnsuresShape ==
    ASSUME Typed, NEW t \in Tasks, NEW want \in Wants, NEW heard, Ensures(t, want, heard)
    PROVE  \/ /\ Over(t) /\ conns' = heard
              /\ session' = [session EXCEPT !.state = FailedState(want)]
              /\ \E x \in BOOLEAN : seen' = [seen EXCEPT !.unclient = x,
                                                         !.missed = @ \/ want # "call"]
           \/ /\ conns' = heard /\ session' = session /\ seen' = seen
              /\ \E op \in {"waiting", "asked"}, c \in 1 .. Len(conns) :
                     tasks' = [tasks EXCEPT ![t] = Job(op, want, c)]
           \/ /\ conns' = Append(heard, NewConn) /\ seen' = seen
              /\ ~Live(session.conn) /\ session.client = 0
              /\ session' = [session EXCEPT !.conn = Len(conns) + 1]
              /\ tasks' = [tasks EXCEPT ![t] = Job("waiting", want, Len(conns) + 1)]
<1>1. CASE /\ session.state = "closed" /\ Over(t)
           /\ session' = [session EXCEPT !.state = FailedState(want)]
           /\ seen' = [seen EXCEPT !.missed = @ \/ want # "call"]
           /\ conns' = heard
  <2>1. seen.unclient \in BOOLEAN
    BY Lengths, SeenValues
  <2>2. seen \in SeenRec
    BY Lengths
  <2> DEFINE y == seen.missed \/ want # "call"
  <2>3. [seen EXCEPT !.missed = y] = [seen EXCEPT !.unclient = seen.unclient, !.missed = y]
    BY <2>2 DEF SeenRec
  <2> QED
    BY <1>1, <2>1, <2>3
<1>2. CASE /\ Live(Current) /\ conns' = heard
           /\ IF Ready(Current) THEN Sends(t, want)
              ELSE Working(t, "waiting", want, Current) /\ UNCHANGED <<session, seen>>
  <2>1. CASE Ready(Current)
    BY <1>2, <2>1, SendsShape
  <2>2. CASE ~Ready(Current)
    <3>1. Current \in 1 .. Len(conns)
      BY <1>2, Lengths DEF Live
    <3> QED
      BY <1>2, <2>2, <3>1 DEF Working, Job
  <2> QED
    BY <2>1, <2>2
<1>3. CASE Sends(t, want) /\ conns' = heard
  BY <1>3, SendsShape
<1>4. CASE /\ ~Live(Current) /\ session.client = 0
           /\ conns' = Append(heard, NewConn)
           /\ session' = [session EXCEPT !.conn = Len(conns) + 1]
           /\ Working(t, "waiting", want, Len(conns) + 1)
           /\ UNCHANGED seen
  BY <1>4 DEF Working, Job, Current
<1> QED
  BY <1>1, <1>2, <1>3, <1>4 DEF Ensures

\* The facts each operation is asked for.
LEMMA KeptStep ==
    ASSUME Kept, Carries(conns, conns'), session' \in SessionRec(Len(conns)),
           TasksFine(tasks', Len(conns)), seen' \in SeenRec, RestTyped',
           \/ session'.conn = session.conn
           \/ session.conn \in DOMAIN conns => conns'[session.conn].stop,
           \/ session'.client = 0
           \/ /\ session'.client = session.client
              /\ \A c \in DOMAIN conns : conns'[c].stage = conns[c].stage \/ conns'[c].stage # "gone"
    PROVE  Kept'
<1>1. Len(conns') = Len(conns) /\ DOMAIN conns' = DOMAIN conns /\ conns' \in Seq(ConnRec)
  BY DEF Carries
<1>2. Typed'
  BY <1>1 DEF Typed, ConnsTyped, SessionTyped, TasksTyped, TasksFine, SeenTyped
<1>3. NoConnectionLeaked'
  BY LeakStep DEF Kept, Typed
<1>4. ClientLives'
  BY <1>1, ClientStep DEF Kept
<1> QED
  BY <1>2, <1>3, <1>4 DEF Kept

LEMMA SameTasks ==
    ASSUME Typed PROVE TasksFine(tasks, Len(conns))
BY DEF Typed, TasksTyped, TasksFine

LEMMA SetTask ==
    ASSUME Typed, NEW t \in Tasks, NEW r, TaskFine(r, Len(conns)), NEW after,
           after = [tasks EXCEPT ![t] = r]
    PROVE  TasksFine(after, Len(conns))
<1>1. TasksTyped /\ \A u \in Tasks : TaskFine(tasks[u], Len(conns))
  BY DEF Typed, TasksTyped
<1>2. Len(conns) \in Nat
  BY Lengths
<1> DEFINE n == Len(conns)
<1> HIDE DEF n
<1>3. TasksFine(after, n)
  <2>1. TaskFine(r, n) /\ (\A u \in Tasks : TaskFine(tasks[u], n)) /\ n \in Nat
    BY <1>1, <1>2 DEF n
  <2> QED
    BY <1>1, <2>1, OneTask
<1> QED
  BY <1>3 DEF n

LEMMA OverTask ==
    ASSUME Typed, NEW t \in Tasks, Over(t) PROVE TasksFine(tasks', Len(conns))
<1>1. TaskFine(Idle, Len(conns))
  BY IdleFine, Lengths
<1> QED
  BY <1>1, SetTask DEF Over

LEMMA FailedTyped ==
    ASSUME Typed, NEW want PROVE FailedState(want) \in States
BY Lengths DEF FailedState, States

LEMMA EnsuresKept ==
    ASSUME Kept, NEW t \in Tasks, NEW want \in Wants, NEW heard, Ensures(t, want, heard),
           Carries(conns, heard), \A c \in DOMAIN conns : heard[c].stage = conns[c].stage,
           RestTyped'
    PROVE  Kept'
<1> USE DEF Kept
<1>1. CASE /\ Over(t) /\ conns' = heard
           /\ session' = [session EXCEPT !.state = FailedState(want)]
           /\ \E x \in BOOLEAN : seen' = [seen EXCEPT !.unclient = x,
                                                      !.missed = @ \/ want # "call"]
  <2>1. TasksFine(tasks', Len(conns))
    BY <1>1, OverTask
  <2>2. /\ session' \in SessionRec(Len(conns)) /\ session'.conn = session.conn
        /\ session'.client = session.client
    BY <1>1, FailedTyped, Lengths, SetsState
  <2>3. seen' \in SeenRec
    <3>1. seen \in SeenRec
      BY Lengths
    <3>2. PICK x \in BOOLEAN : seen' = [seen EXCEPT !.unclient = x,
                                                    !.missed = @ \/ want # "call"]
      BY <1>1
    <3> DEFINE y == seen.missed \/ want # "call"
    <3>3. y \in BOOLEAN
      BY Lengths, SeenValues
    <3>4. seen' = [seen EXCEPT !.unclient = x, !.missed = y]
      BY <3>1, <3>2 DEF SeenRec
    <3> HIDE DEF y
    <3> QED
      BY <3>1, <3>3, <3>4 DEF SeenRec
  <2> QED
    BY <1>1, <2>1, <2>2, <2>3, KeptStep
<1>2. CASE /\ conns' = heard /\ session' = session /\ seen' = seen
           /\ \E op \in {"waiting", "asked"}, c \in 1 .. Len(conns) :
                  tasks' = [tasks EXCEPT ![t] = Job(op, want, c)]
  <2>1. TasksFine(tasks', Len(conns))
    <3>1. PICK op \in {"waiting", "asked"}, c \in 1 .. Len(conns) :
              tasks' = [tasks EXCEPT ![t] = Job(op, want, c)]
      BY <1>2
    <3>2. TaskFine(Job(op, want, c), Len(conns))
      BY JobFine, Lengths
    <3> QED
      BY <3>1, <3>2, SetTask
  <2>2. session' \in SessionRec(Len(conns)) /\ seen' \in SeenRec
    BY <1>2, Lengths
  <2> QED
    BY <1>2, <2>1, <2>2, KeptStep
<1>3. CASE /\ conns' = Append(heard, NewConn) /\ seen' = seen
           /\ ~Live(session.conn) /\ session.client = 0
           /\ session' = [session EXCEPT !.conn = Len(conns) + 1]
           /\ tasks' = [tasks EXCEPT ![t] = Job("waiting", want, Len(conns) + 1)]
  <2> DEFINE n == Len(conns)
  <2>1. n \in Nat /\ n + 1 \in 1 .. n + 1 /\ n + 1 \in 0 .. n + 1 /\ n + 1 \in Nat
        /\ DOMAIN conns = 1 .. n
    BY Lengths
  <2>2. heard \in Seq(ConnRec) /\ Len(heard) = n
    BY DEF Carries
  <2>3. NewConn \in ConnRec
    BY DEF NewConn, ConnRec, Stages
  <2>4. /\ conns' \in Seq(ConnRec) /\ Len(conns') = n + 1 /\ DOMAIN conns' = 1 .. n + 1
        /\ \A c \in 1 .. n : conns'[c] = heard[c]
        /\ conns'[n + 1] = NewConn
    BY <1>3, <2>2, <2>3, AppendProperties, LenProperties
  <2>5. session \in SessionRec(n + 1)
    BY Lengths, SessionGrows
  <2>6. session' \in SessionRec(n + 1) /\ session'.conn = n + 1 /\ session'.client = 0
    <3>1. session' = [session EXCEPT !.conn = n + 1]
      BY <1>3
    <3> HIDE DEF n
    <3>2. session' \in SessionRec(n + 1) /\ session'.conn = n + 1
          /\ session'.client = session.client
      BY ONLY <2>1, <2>5, <3>1, SetsConn
    <3> QED
      BY <1>3, <3>2
  <2>7. \A u \in Tasks : TaskFine(tasks[u], n + 1)
    BY <2>1, TaskValues DEF Typed, TasksTyped
  <2>8. TaskFine(Job("waiting", want, n + 1), n + 1)
    BY <2>1, JobFine
  <2>9. TasksFine(tasks', n + 1)
    <3>1. TasksTyped /\ tasks' = [tasks EXCEPT ![t] = Job("waiting", want, n + 1)]
      BY <1>3 DEF Typed
    <3> HIDE DEF n
    <3> QED
      BY ONLY <2>1, <2>7, <2>8, <3>1, t \in Tasks, OneTask
  <2>10. Typed'
    BY <1>3, <2>4, <2>6, <2>9
       DEF Typed, ConnsTyped, SessionTyped, TasksTyped, TasksFine, SeenTyped
  <2>11. NoConnectionLeaked'
    <3> SUFFICES ASSUME NEW c \in 1 .. n + 1, conns'[c].stage \in Running, c # n + 1
                 PROVE  conns'[c].stop \/ conns'[c].cancelled
      BY <2>4, <2>6 DEF NoConnectionLeaked, Running
    <3>1. c \in 1 .. n
      BY <2>1
    <3>2. Onward(conns[c], conns'[c]) /\ conns'[c].stage = conns[c].stage
      BY <2>1, <2>4, <3>1 DEF Carries
    <3>3. c # session.conn
      BY <1>3, <2>1, <3>1, <3>2 DEF Live, Running
    <3>4. conns[c].stop \/ conns[c].cancelled
      BY <2>1, <3>1, <3>2, <3>3 DEF NoConnectionLeaked, Running
    <3> QED
      BY <3>2, <3>4 DEF Onward
  <2>12. ClientLives'
    BY <2>6 DEF ClientLives
  <2> QED
    BY <2>10, <2>11, <2>12
<1> QED
  BY <1>1, <1>2, <1>3, EnsuresShape

LEMMA RestSame ==
    ASSUME Typed, UNCHANGED <<server, era, tools, runtime>> PROVE RestTyped'
BY DEF Typed, RestTyped

LEMMA MissedSeen ==
    ASSUME Typed, NEW x \in BOOLEAN, NEW after, after = [seen EXCEPT !.missed = @ \/ x]
    PROVE  /\ after \in SeenRec /\ after.missed = (seen.missed \/ x)
           /\ after.applied = seen.applied /\ after.version = seen.version
<1> DEFINE y == seen.missed \/ x
<1>1. seen \in SeenRec
  BY Lengths
<1>2. y \in BOOLEAN
  BY <1>1, SeenValues
<1>3. after = [seen EXCEPT !.missed = y]
  BY <1>1 DEF SeenRec
<1> HIDE DEF y
<1>4. /\ after \in SeenRec /\ after.missed = y
      /\ after.applied = seen.applied /\ after.version = seen.version
  BY <1>1, <1>2, <1>3, SetsMissed
<1> QED
  BY <1>4 DEF y

LEMMA ServerChangesKept ==
    ASSUME Kept, ServerChanges PROVE Kept'
<1> USE DEF Kept
<1>1. Carries(conns, conns')
  <2>1. \A c \in DOMAIN conns : (conns[c].news \/ Listens(c)) \in BOOLEAN
    BY ConnTyped DEF Typed, Listens
  <2>2. conns' = [c \in DOMAIN conns |-> [conns[c] EXCEPT !.news = conns[c].news \/ Listens(c)]]
    <3>1. \A c \in DOMAIN conns : conns[c] \in ConnRec
      BY ConnTyped DEF Typed
    <3> QED
      BY <3>1 DEF ServerChanges, ConnRec
  <2>3. DOMAIN conns' = DOMAIN conns /\ conns' = [c \in DOMAIN conns |-> conns'[c]]
    BY <2>2
  <2>4. \A c \in DOMAIN conns : \E x \in BOOLEAN : conns'[c] = [conns[c] EXCEPT !.news = x]
    BY <2>1, <2>2
  <2> QED
    BY <2>3, <2>4, NewsCarries DEF Typed
<1>2. \A c \in DOMAIN conns : conns'[c].stage = conns[c].stage
  <2> TAKE c \in DOMAIN conns
  <2> DEFINE x == conns[c].news \/ Listens(c)
  <2>1. conns[c] \in ConnRec
    BY ConnTyped DEF Typed
  <2>2. conns'[c] = [conns[c] EXCEPT !.news = x]
    BY <2>1 DEF ServerChanges, ConnRec
  <2> HIDE DEF x
  <2> QED
    BY <2>1, <2>2 DEF ConnRec
<1>3. seen' \in SeenRec
  BY MissedSeen DEF ServerChanges
<1>4. RestTyped'
  <2>1. server.version + 1 \in 0 .. MaxChanges
    BY McpAssumption DEF ServerChanges, Typed, RestTyped, ServerRec
  <2>2. server' \in ServerRec
    BY <2>1 DEF ServerChanges, ServerRec
  <2> QED
    BY <2>2 DEF ServerChanges, Typed, RestTyped
<1>5. session' = session /\ tasks' = tasks
  BY DEF ServerChanges
<1> QED
  BY <1>1, <1>2, <1>3, <1>4, <1>5, KeptStep, SameTasks, Lengths

LEMMA ServerDiesKept ==
    ASSUME Kept, NEW c \in DOMAIN conns, ServerDies(c) PROVE Kept'
<1> USE DEF Kept
<1>1. Carries(conns, conns') /\ \A d \in DOMAIN conns : conns'[d].stage = conns[d].stage
  BY DeadCarries DEF ServerDies, Typed
<1>2. seen' \in SeenRec
  <2>1. conns[c].news \in BOOLEAN
    BY ConnTyped DEF Typed
  <2> QED
    BY <2>1, MissedSeen DEF ServerDies
<1>3. session' = session /\ tasks' = tasks /\ RestTyped'
  BY RestSame DEF ServerDies
<1> QED
  BY <1>1, <1>2, <1>3, KeptStep, SameTasks, Lengths

LEMMA StreamKept ==
    ASSUME Kept, StreamDrops \/ StreamReopens PROVE Kept'
<1> USE DEF Kept
<1>1. CASE StreamDrops
  <2>1. Carries(conns, conns')
    <3>1. DOMAIN conns' = DOMAIN conns /\ conns' = [c \in DOMAIN conns |-> conns'[c]]
      BY <1>1 DEF StreamDrops
    <3>2. \A c \in DOMAIN conns : \E x \in BOOLEAN : conns'[c] = [conns[c] EXCEPT !.news = x]
      BY <1>1 DEF StreamDrops
    <3> QED
      BY <3>1, <3>2, NewsCarries DEF Typed
  <2>2. \A c \in DOMAIN conns : conns'[c].stage = conns[c].stage
    <3> TAKE c \in DOMAIN conns
    <3>1. conns[c] \in ConnRec /\ conns'[c] = [conns[c] EXCEPT !.news = FALSE]
      BY <1>1, ConnTyped DEF Typed, StreamDrops
    <3> QED
      BY <3>1 DEF ConnRec
  <2>3. seen' \in SeenRec
    <3>1. (\E c \in DOMAIN conns : conns[c].news) \in BOOLEAN
      OBVIOUS
    <3> QED
      BY <1>1, <3>1, MissedSeen DEF StreamDrops
  <2>4. /\ session' \in SessionRec(Len(conns)) /\ session'.conn = session.conn
        /\ session'.client = session.client
    BY <1>1, Lengths, SetsWatch DEF StreamDrops
  <2>5. tasks' = tasks /\ RestTyped'
    BY <1>1, RestSame DEF StreamDrops
  <2> QED
    BY <2>1, <2>2, <2>3, <2>4, <2>5, KeptStep, SameTasks
<1>2. CASE StreamReopens
  <2>1. /\ session' \in SessionRec(Len(conns)) /\ session'.conn = session.conn
        /\ session'.client = session.client
    BY <1>2, Lengths, SetsWatch DEF StreamReopens
  <2>2. conns' = conns /\ tasks' = tasks /\ seen' = seen /\ RestTyped'
    BY <1>2, RestSame DEF StreamReopens
  <2>3. Carries(conns, conns')
    BY <2>2, SameCarries DEF Typed
  <2> QED
    BY <2>1, <2>2, <2>3, KeptStep, SameTasks, Lengths
<1> QED
  BY <1>1, <1>2

LEMMA StartCallKept ==
    ASSUME Kept, NEW t \in Tasks, Start(t) \/ Call(t) PROVE Kept'
<1> USE DEF Kept
<1>1. RestTyped'
  BY DEF Start, Call, Typed, RestTyped
<1>2. \E want \in Wants : Ensures(t, want, conns)
  BY DEF Start, Call, Wants
<1>3. Carries(conns, conns)
  BY SameCarries DEF Typed
<1> QED
  BY <1>1, <1>2, <1>3, EnsuresKept

\* A notification that is consumed.
LEMMA HeardCarries ==
    ASSUME ConnsTyped, NEW c \in DOMAIN conns, NEW heard,
           heard = [conns EXCEPT ![c].news = FALSE]
    PROVE  /\ Carries(conns, heard) /\ DOMAIN heard = DOMAIN conns
           /\ \A d \in DOMAIN conns : heard[d].stage = conns[d].stage
           /\ \A d \in DOMAIN conns : d # c => heard[d] = conns[d]
<1>1. conns[c] \in ConnRec /\ FALSE \in BOOLEAN /\ "gone" \in Stages
  BY ConnTyped DEF Stages
<1> DEFINE p == [conns[c] EXCEPT !.news = FALSE]
<1>2. Onward(conns[c], p)
  BY <1>1, SetsOnward
<1>3. p.stage = conns[c].stage
  BY <1>1 DEF ConnRec
<1>4. heard = [conns EXCEPT ![c] = p]
  OBVIOUS
<1> HIDE DEF p
<1>5. /\ Carries(conns, heard) /\ heard[c] = p
      /\ \A d \in DOMAIN conns : d # c => heard[d] = conns[d]
  BY <1>2, <1>4, OneCarries DEF ConnsTyped
<1> QED
  BY <1>3, <1>5 DEF Carries

LEMMA RefreshKept ==
    ASSUME Kept, NEW t \in Tasks, Refresh(t) PROVE Kept'
<1> USE DEF Kept
<1>1. RestTyped'
  BY RestSame DEF Refresh
<1>2. PICK c \in DOMAIN conns : Ensures(t, "refresh", [conns EXCEPT ![c].news = FALSE])
  BY DEF Refresh
<1> DEFINE heard == [conns EXCEPT ![c].news = FALSE]
<1>3. Carries(conns, heard) /\ \A d \in DOMAIN conns : heard[d].stage = conns[d].stage
  BY HeardCarries DEF Typed
<1>4. Ensures(t, "refresh", heard) /\ "refresh" \in Wants
  BY <1>2 DEF Wants
<1> HIDE DEF heard
<1> QED
  BY <1>1, <1>3, <1>4, EnsuresKept

LEMMA AnswersKept ==
    ASSUME Kept, NEW t \in Tasks, Answers(t) PROVE Kept'
<1> USE DEF Kept
<1> DEFINE p == [tasks[t] EXCEPT !.op = "answered"]
           q == [p EXCEPT !.list = server.offers]
           r == [q EXCEPT !.version = server.version]
<1>1. TaskFine(tasks[t], Len(conns)) /\ tasks[t].op = "asked"
  BY DEF Answers, Typed, TasksTyped
<1>2. server.offers \in SUBSET Raws /\ server.version \in 0 .. MaxChanges
  BY DEF Typed, RestTyped, ServerRec
<1>3. tasks[t].conn # 0 /\ tasks[t].want # "none" /\ tasks[t] \in TaskRec(Len(conns))
  BY <1>1 DEF TaskFine
<1>4. p \in TaskRec(Len(conns)) /\ p.op = "answered" /\ p.conn # 0 /\ p.want # "none"
  BY <1>3 DEF TaskRec
<1>5. tasks' = [tasks EXCEPT ![t] = r]
  BY DEF Answers, Typed, TasksTyped
<1> HIDE DEF p
<1>6. q \in TaskRec(Len(conns)) /\ q.op = "answered" /\ q.conn # 0 /\ q.want # "none"
  BY <1>2, <1>4 DEF TaskRec
<1> HIDE DEF q
<1>7. r \in TaskRec(Len(conns)) /\ r.op = "answered" /\ r.conn # 0 /\ r.want # "none"
  BY <1>2, <1>6 DEF TaskRec
<1> HIDE DEF r
<1>8. TasksFine(tasks', Len(conns))
  BY <1>5, <1>7, SetTask DEF TaskFine
<1>9. conns' = conns /\ session' = session /\ seen' = seen /\ RestTyped'
  BY RestSame DEF Answers
<1>10. Carries(conns, conns')
  BY <1>9, SameCarries DEF Typed
<1> QED
  BY <1>8, <1>9, <1>10, KeptStep, Lengths

\* What the tools of a list stand for.
LEMMA AppliedTools ==
    ASSUME Typed, NEW raws \in SUBSET Raws
    PROVE  /\ DOMAIN Applied(raws) = Assigned(raws)
           /\ \A full \in Assigned(raws) : Applied(raws)[full] \in Raws
<1>1. DOMAIN Applied(raws) = Assigned(raws)
  BY DEF Applied
<1>2. ASSUME NEW full \in Assigned(raws) PROVE Applied(raws)[full] \in Raws
  <2>1. \E raw \in raws : FullName(raws, raw) = full
    BY DEF Assigned
  <2>2. (CHOOSE raw \in raws : FullName(raws, raw) = full) \in Raws
    BY <2>1
  <2>3. full \in DOMAIN tools => tools[full] \in Raws
    BY DEF Typed, RestTyped
  <2> QED
    BY <2>2, <2>3 DEF Applied
<1> QED
  BY <1>1, <1>2

\* The history of a list that is applied.
LEMMA ReceivesSeen ==
    ASSUME Typed, NEW t \in Tasks, Receives(t), tasks[t].want # "call"
    PROVE  /\ seen' \in SeenRec /\ seen'.applied = tasks[t].list
           /\ seen'.version = tasks[t].version
           /\ seen'.missed = ((tasks[t].version < seen.version)
                              \/ (tasks[t].version < server.version /\ seen.missed))
<1> DEFINE list == tasks[t].list
           version == tasks[t].version
           x == (version < seen.version) \/ (version < server.version /\ seen.missed)
<1>1. TaskFine(tasks[t], Len(conns)) /\ seen \in SeenRec /\ Len(conns) \in Nat
  BY Lengths DEF Typed, TasksTyped
<1>2. list \in SUBSET Raws /\ version \in 0 .. MaxChanges
  BY <1>1, TaskValues
<1>3. x \in BOOLEAN
  BY <1>1, SeenValues
<1>4. seen' = [seen EXCEPT !.applied = list, !.missed = x, !.version = version]
  BY <1>1 DEF Receives, SeenRec
<1> HIDE DEF list, version, x
<1>5. seen' \in SeenRec /\ seen'.applied = list /\ seen'.version = version /\ seen'.missed = x
  BY <1>1, <1>2, <1>3, <1>4 DEF SeenRec
<1> QED
  BY <1>5 DEF list, version, x

LEMMA ReceivesKept ==
    ASSUME Kept, NEW t \in Tasks, Receives(t) PROVE Kept'
<1> USE DEF Kept
<1>1. TasksFine(tasks', Len(conns))
  BY OverTask DEF Receives
<1>2. conns' = conns /\ session' = session
  BY DEF Receives
<1>3. Carries(conns, conns')
  BY <1>2, SameCarries DEF Typed
<1>4. seen' \in SeenRec
  <2>1. CASE tasks[t].want = "call"
    BY <2>1, Lengths DEF Receives
  <2>2. CASE tasks[t].want # "call"
    BY <2>2, ReceivesSeen
  <2> QED
    BY <2>1, <2>2
<1>5. RestTyped'
  <2>1. CASE tasks[t].want = "call"
    BY <2>1 DEF Receives, Typed, RestTyped
  <2>2. CASE tasks[t].want # "call"
    <3>1. tasks[t].list \in SUBSET Raws
      BY Lengths, TaskValues DEF Typed, TasksTyped
    <3>2. tools' = Applied(tasks[t].list)
      BY <2>2 DEF Receives
    <3>3. \A full \in DOMAIN tools' : tools'[full] \in Raws
      BY <3>1, <3>2, AppliedTools
    <3> QED
      BY <3>3 DEF Receives, Typed, RestTyped
  <2> QED
    BY <2>1, <2>2
<1> QED
  BY <1>1, <1>2, <1>3, <1>4, <1>5, KeptStep, Lengths

LEMMA ConnectionLostKept ==
    ASSUME Kept, NEW t \in Tasks, ConnectionLost(t) PROVE Kept'
<1> USE DEF Kept
<1>1. TasksFine(tasks', Len(conns))
  BY OverTask DEF ConnectionLost
<1>2. /\ Carries(conns, conns')
      /\ \A d \in DOMAIN conns : conns'[d].stage = conns[d].stage
      /\ session.conn \in DOMAIN conns => conns'[session.conn].stop
  <2>1. CASE Current # 0
    <3>1. Current \in DOMAIN conns /\ conns' = Stopping(Current)
      BY <2>1, Lengths DEF ConnectionLost, Current
    <3> QED
      BY <3>1, StoppingCarries DEF Typed, Current
  <2>2. CASE Current = 0
    <3>1. conns' = conns /\ session.conn \notin DOMAIN conns
      BY <2>2, Lengths DEF ConnectionLost, Current
    <3> QED
      BY <3>1, SameCarries DEF Typed
  <2> QED
    BY <2>1, <2>2
<1>3. session' \in SessionRec(Len(conns)) /\ session'.client = 0
  <2> DEFINE n == Len(conns)
             st == IF Starts(tasks[t].want) THEN "error" ELSE "disconnected"
             p == [session EXCEPT !.conn = 0]
             q == [p EXCEPT !.client = 0]
             r == [q EXCEPT !.state = "disconnected"]
  <2>1. session \in SessionRec(n) /\ n \in Nat /\ 0 \in 0 .. n
    BY Lengths
  <2>2. "disconnected" \in States /\ "error" \in States
    BY DEF States
  <2>3. Dropped = r
    BY <2>1 DEF Dropped, SessionRec
  <2>4. session' = IF Starts(tasks[t].want) THEN [r EXCEPT !.state = "error"]
                   ELSE [r EXCEPT !.state = r.state]
    BY <2>3 DEF ConnectionLost
  <2> HIDE DEF n
  <2>5. p \in SessionRec(n)
    BY <2>1, SetsConn
  <2> HIDE DEF p
  <2>6. q \in SessionRec(n) /\ q.client = 0
    BY <2>1, <2>5, SetsClient
  <2> HIDE DEF q
  <2>7. r \in SessionRec(n) /\ r.client = 0 /\ r.state \in States
    BY <2>1, <2>2, <2>6, SetsState
  <2> HIDE DEF r
  <2>8. session' \in SessionRec(n) /\ session'.client = 0
    <3>1. CASE Starts(tasks[t].want)
      BY <2>1, <2>2, <2>4, <2>7, <3>1, SetsState
    <3>2. CASE ~Starts(tasks[t].want)
      BY <2>1, <2>4, <2>7, <3>2, SetsState
    <3> QED
      BY <3>1, <3>2
  <2> QED
    BY <2>8 DEF n
<1>4. seen' \in SeenRec
  BY MissedSeen DEF ConnectionLost, Unsynced
<1>5. RestTyped'
  BY RestSame DEF ConnectionLost
<1> QED
  BY <1>1, <1>2, <1>3, <1>4, <1>5, KeptStep

LEMMA GivesUpKept ==
    ASSUME Kept, NEW t \in Tasks, GivesUp(t) PROVE Kept'
<1> USE DEF Kept
<1>1. TasksFine(tasks', Len(conns))
  BY OverTask DEF GivesUp
<1>2. Carries(conns, conns') /\ \A d \in DOMAIN conns : conns'[d].stage = conns[d].stage
  <2>1. CASE tasks[t].op = "waiting" /\ Live(tasks[t].conn)
    <3> DEFINE c == tasks[t].conn
               p == [conns[c] EXCEPT !.cancelled = conns[c].cancelled \/ TRUE]
    <3>1. c \in DOMAIN conns
      BY <2>1 DEF Live
    <3>2. conns[c] \in ConnRec /\ "gone" \in Stages /\ TRUE \in BOOLEAN
      BY <3>1, ConnTyped DEF Typed, Stages
    <3>3. Onward(conns[c], p) /\ p.stage = conns[c].stage
      BY <3>2, SetsOnward DEF ConnRec
    <3>4. conns' = [conns EXCEPT ![c] = p]
      BY <2>1, <3>2 DEF GivesUp
    <3> HIDE DEF c, p
    <3>5. /\ Carries(conns, conns') /\ conns'[c] = p
          /\ \A d \in DOMAIN conns : d # c => conns'[d] = conns[d]
      BY <3>1, <3>3, <3>4, OneCarries DEF Typed, ConnsTyped
    <3> QED
      BY <3>3, <3>5
  <2>2. CASE ~(tasks[t].op = "waiting" /\ Live(tasks[t].conn))
    <3>1. conns' = conns
      BY <2>2 DEF GivesUp
    <3> QED
      BY <3>1, SameCarries DEF Typed
  <2> QED
    BY <2>1, <2>2
<1>3. /\ session' \in SessionRec(Len(conns)) /\ session'.conn = session.conn
      /\ session'.client = session.client
  BY FailedTyped, Lengths, SetsState DEF GivesUp
<1>4. seen' \in SeenRec
  BY MissedSeen DEF GivesUp, Unsynced
<1>5. RestTyped'
  BY RestSame DEF GivesUp
<1> QED
  BY <1>1, <1>2, <1>3, <1>4, <1>5, KeptStep

LEMMA ConnectedKept ==
    ASSUME Kept, NEW c \in DOMAIN conns, Connected(c) PROVE Kept'
<1> USE DEF Kept
<1> DEFINE n == Len(conns)
           stage == IF conns[c].stop THEN "leaving" ELSE "serving"
           p == [conns[c] EXCEPT !.stage = stage]
<1>1. conns[c] \in ConnRec /\ c \in 0 .. n /\ n \in Nat /\ c # 0
  BY ConnTyped DEF Typed
<1>2. stage \in Stages /\ (stage \in Running => conns[c].stage \in Running) /\ TRUE \in BOOLEAN
  BY DEF Connected, Stages, Running
<1>3. stage # "gone"
  OBVIOUS
<1>4. conns' = [conns EXCEPT ![c] = p]
  BY DEF Connected
<1> HIDE DEF stage
<1>5. Onward(conns[c], p) /\ p.stage = stage
  BY <1>1, <1>2, SetsOnward DEF ConnRec
<1> HIDE DEF p
<1>6. /\ Carries(conns, conns') /\ conns'[c] = p
      /\ \A d \in DOMAIN conns : d # c => conns'[d] = conns[d]
  BY <1>4, <1>5, OneCarries DEF Typed, ConnsTyped
<1>7. session' \in SessionRec(n) /\ session'.conn = session.conn /\ session'.client = c
  <2> DEFINE w == IF era = "modern" /\ ~conns[c].stop THEN "listening" ELSE "none"
             a == [session EXCEPT !.client = c]
             b == [a EXCEPT !.state = "connected"]
  <2>1. w \in {"none", "listening", "backoff"} /\ "connected" \in States
    BY DEF States
  <2>2. session \in SessionRec(n)
    BY Lengths
  <2>3. session' = [b EXCEPT !.watch = w]
    BY <2>2 DEF Connected, SessionRec
  <2> HIDE DEF n, w
  <2>4. a \in SessionRec(n) /\ a.client = c /\ a.conn = session.conn
    BY <1>1, <2>2, SetsClient
  <2> HIDE DEF a
  <2>5. b \in SessionRec(n) /\ b.client = c /\ b.conn = session.conn
    BY <1>1, <2>1, <2>4, SetsState
  <2> HIDE DEF b
  <2> QED
    BY <1>1, <2>1, <2>3, <2>5, SetsWatch
<1>8. TasksFine(tasks', n)
  <2>1. tasks' = [t \in Tasks |-> IF t \in Waiters(c) THEN [tasks[t] EXCEPT !.op = "asked"]
                                  ELSE tasks[t]]
    BY DEF Connected
  <2>2. ASSUME NEW t \in Tasks PROVE TaskFine(tasks'[t], n)
    <3>1. TaskFine(tasks[t], n)
      BY DEF Typed, TasksTyped
    <3>2. CASE t \in Waiters(c)
      <4> DEFINE q == [tasks[t] EXCEPT !.op = "asked"]
      <4>1. tasks[t].op # "idle" /\ tasks[t] \in TaskRec(n)
        BY <3>1, <3>2 DEF Waiters, TaskFine
      <4>2. tasks[t].conn # 0 /\ tasks[t].want # "none"
        BY <3>1, <4>1 DEF TaskFine
      <4>3. q \in TaskRec(n) /\ q.op = "asked" /\ q.conn # 0 /\ q.want # "none"
        BY <4>1, <4>2 DEF TaskRec
      <4>4. tasks'[t] = q
        BY <2>1, <3>2
      <4> HIDE DEF q
      <4> QED
        BY <4>3, <4>4 DEF TaskFine
    <3>3. CASE t \notin Waiters(c)
      BY <2>1, <3>1, <3>3
    <3> QED
      BY <3>2, <3>3
  <2>3. tasks' = [t \in Tasks |-> tasks'[t]]
    BY <2>1
  <2> QED
    BY <2>2, <2>3 DEF TasksFine
<1>9. seen' \in SeenRec /\ RestTyped'
  BY Lengths, RestSame DEF Connected
<1>10. Typed'
  BY <1>6, <1>7, <1>8, <1>9
     DEF Carries, Typed, ConnsTyped, SessionTyped, TasksTyped, TasksFine, SeenTyped
<1>11. NoConnectionLeaked'
  BY <1>6, <1>7, LeakStep DEF Typed
<1>12. ClientLives'
  BY <1>3, <1>5, <1>6, <1>7 DEF ClientLives, Live, Carries
<1> QED
  BY <1>10, <1>11, <1>12

\* The ends of a connection, whichever tasks they cancel.
LEMMA EndKept ==
    ASSUME Kept, NEW c \in DOMAIN conns, NEW stage \in {"leaving", "gone"},
           NEW gone \in SUBSET Tasks, Cancels(gone, Ended(c, stage)),
           NEW lost \in SUBSET Tasks, Loses(c, lost),
           session' \in SessionRec(Len(conns)), session'.conn = session.conn,
           session'.client = 0 \/ (stage = "leaving" /\ session'.client = session.client),
           UNCHANGED <<server, era, tools, runtime>>
    PROVE  Kept'
<1> USE DEF Kept
<1>1. /\ Carries(conns, Ended(c, stage)) /\ Ended(c, stage)[c].stage = stage
      /\ \A d \in DOMAIN conns : d # c => Ended(c, stage)[d] = conns[d]
  BY EndedCarries DEF Typed
<1>2. Carries(conns, conns') /\ \A d \in DOMAIN conns : conns'[d].stage = Ended(c, stage)[d].stage
  BY <1>1, CancelsCarries DEF Typed
<1>3. \A d \in DOMAIN conns :
          stage = "leaving" => conns'[d].stage = conns[d].stage \/ conns'[d].stage # "gone"
  BY <1>1, <1>2
<1>4. TasksFine(tasks', Len(conns))
  BY CancelsTasks
<1>5. seen' \in SeenRec
  <2> DEFINE x == conns[c].news \/ lost # {}
  <2>1. x \in BOOLEAN
    BY ConnTyped DEF Typed
  <2>2. seen \in SeenRec
    BY Lengths
  <2>3. seen' = [seen EXCEPT !.missed = @ \/ x]
    BY <2>2 DEF Loses, SeenRec
  <2> HIDE DEF x
  <2> QED
    BY <2>1, <2>3, MissedSeen
<1>6. RestTyped'
  BY RestSame
<1> QED
  BY <1>2, <1>3, <1>4, <1>5, <1>6, KeptStep

LEMMA ClearedSession ==
    ASSUME Typed, NEW st \in States
    PROVE  /\ [Cleared EXCEPT !.state = st] \in SessionRec(Len(conns))
           /\ [Cleared EXCEPT !.state = st].conn = session.conn
           /\ [Cleared EXCEPT !.state = st].client = 0
           /\ Cleared.state = session.state
<1> DEFINE n == Len(conns)
           a == [session EXCEPT !.client = 0]
           b == [a EXCEPT !.watch = "none"]
           d == [b EXCEPT !.state = st]
<1>1. session \in SessionRec(n) /\ n \in Nat /\ 0 \in 0 .. n
  BY Lengths
<1>2. Cleared = b /\ [Cleared EXCEPT !.state = st] = d
  BY <1>1 DEF Cleared, SessionRec
<1> HIDE DEF n
<1>3. a \in SessionRec(n) /\ a.client = 0 /\ a.conn = session.conn /\ a.state = session.state
  BY <1>1, SetsClient
<1> HIDE DEF a
<1>4. b \in SessionRec(n) /\ b.client = 0 /\ b.conn = session.conn /\ b.state = session.state
  BY <1>1, <1>3, SetsWatch
<1> HIDE DEF b
<1>5. d \in SessionRec(n) /\ d.client = 0 /\ d.conn = session.conn
  BY <1>1, <1>4, SetsState
<1> HIDE DEF d
<1> QED
  BY <1>2, <1>4, <1>5 DEF n

LEMMA ConnectFailsKept ==
    ASSUME Kept, NEW c \in DOMAIN conns, ConnectFails(c) PROVE Kept'
<1>1. Refreshers \union Waiters(c) \in SUBSET Tasks
      /\ Refreshers \union {t \in Waiters(c) : tasks[t].want # "call"} \in SUBSET Tasks
  BY DEF Refreshers, Waiters
<1>2. \E st \in States : session' = [Cleared EXCEPT !.state = st]
  <2>1. session.state \in States /\ "error" \in States /\ Cleared.state = session.state
    BY Lengths, ClearedSession DEF Kept, States
  <2> QED
    BY <2>1 DEF ConnectFails
<1>3. session' \in SessionRec(Len(conns)) /\ session'.conn = session.conn /\ session'.client = 0
  BY <1>2, ClearedSession DEF Kept
<1>4. /\ Cancels(Refreshers \union Waiters(c), Ended(c, "gone"))
      /\ Loses(c, Refreshers \union {t \in Waiters(c) : tasks[t].want # "call"})
      /\ UNCHANGED <<server, era, tools, runtime>>
  BY DEF ConnectFails
<1> QED
  BY <1>1, <1>3, <1>4, EndKept

LEMMA LeavesKept ==
    ASSUME Kept, NEW c \in DOMAIN conns, Leaves(c) PROVE Kept'
<1>1. Watchers \in SUBSET Tasks
  BY DEF Watchers, Refreshers
<1>2. /\ session' \in SessionRec(Len(conns)) /\ session'.conn = session.conn
      /\ session'.client = session.client
  BY Lengths, SetsWatch DEF Leaves, Kept
<1>3. /\ Cancels(Watchers, Ended(c, "leaving")) /\ Loses(c, Watchers)
      /\ UNCHANGED <<server, era, tools, runtime>>
  BY DEF Leaves
<1> QED
  BY <1>1, <1>2, <1>3, EndKept

LEMMA LeftKept ==
    ASSUME Kept, NEW c \in DOMAIN conns, Left(c) PROVE Kept'
<1>1. Refreshers \in SUBSET Tasks
  BY DEF Refreshers
<1>2. \E st \in States : session' = [Cleared EXCEPT !.state = st]
  BY Lengths DEF Left, Kept, States
<1>3. session' \in SessionRec(Len(conns)) /\ session'.conn = session.conn /\ session'.client = 0
  BY <1>2, ClearedSession DEF Kept
<1>4. /\ Cancels(Refreshers, Ended(c, "gone")) /\ Loses(c, Refreshers)
      /\ UNCHANGED <<server, era, tools, runtime>>
  BY DEF Left
<1> QED
  BY <1>1, <1>3, <1>4, EndKept

LEMMA ShutdownKept ==
    ASSUME Kept, Shutdown PROVE Kept'
<1> USE DEF Kept
<1> DEFINE closes == runtime.started /\ session.state # "closed"
           now == IF closes /\ Current # 0 THEN Stopped(Current) ELSE conns
           gone == Background \union (IF closes THEN Watchers ELSE {})
<1>1. gone \in SUBSET Tasks /\ Cancels(gone, now)
  BY DEF Shutdown, Background, Watchers, Refreshers
<1>2. /\ Carries(conns, now) /\ \A d \in DOMAIN conns : now[d].stage = conns[d].stage
      /\ closes /\ session.conn \in DOMAIN conns => now[session.conn].stop
  <2>1. CASE closes /\ Current # 0
    <3>1. Current \in DOMAIN conns /\ now = Stopped(Current)
      BY <2>1, Lengths DEF Current
    <3> QED
      BY <3>1, StoppedCarries DEF Typed, Current
  <2>2. CASE ~(closes /\ Current # 0)
    <3>1. now = conns
      BY <2>2
    <3>2. ~(closes /\ session.conn \in DOMAIN conns)
      BY <2>2, Lengths DEF Current
    <3> QED
      BY <3>1, <3>2, SameCarries DEF Typed
  <2> QED
    BY <2>1, <2>2
<1>3. session' = IF closes THEN [session EXCEPT !.state = "closed", !.conn = 0, !.watch = "none"]
                 ELSE session
  BY DEF Shutdown
<1> HIDE DEF gone, now
<1>4. /\ Carries(conns, conns') /\ Carries(now, conns')
      /\ \A d \in DOMAIN conns : conns'[d].stage = conns[d].stage
  BY <1>1, <1>2, CancelsCarries DEF Typed
<1>5. closes /\ session.conn \in DOMAIN conns => conns'[session.conn].stop
  BY <1>2, <1>4 DEF Carries, Onward
<1>6. TasksFine(tasks', Len(conns))
  BY <1>1, CancelsTasks
<1> HIDE DEF closes
<1>7. /\ session' \in SessionRec(Len(conns)) /\ session'.client = session.client
      /\ ~closes => session'.conn = session.conn
  <2> DEFINE n == Len(conns)
             a == [session EXCEPT !.state = "closed"]
             b == [a EXCEPT !.conn = 0]
             d == [b EXCEPT !.watch = "none"]
  <2>1. session \in SessionRec(n) /\ n \in Nat /\ 0 \in 0 .. n /\ "closed" \in States
    BY Lengths DEF States
  <2>2. [session EXCEPT !.state = "closed", !.conn = 0, !.watch = "none"] = d
    BY <2>1 DEF SessionRec
  <2> HIDE DEF n
  <2>3. a \in SessionRec(n) /\ a.client = session.client
    BY <2>1, SetsState
  <2> HIDE DEF a
  <2>4. b \in SessionRec(n) /\ b.client = session.client
    BY <2>1, <2>3, SetsConn
  <2> HIDE DEF b
  <2>5. d \in SessionRec(n) /\ d.client = session.client
    BY <2>1, <2>4, SetsWatch
  <2> HIDE DEF d
  <2> QED
    BY <1>3, <2>1, <2>2, <2>5 DEF n
<1>8. seen' \in SeenRec
  BY Lengths, SetsMissed DEF Shutdown
<1>9. RestTyped'
  BY DEF Shutdown, Typed, RestTyped
<1> QED
  BY <1>4, <1>5, <1>6, <1>7, <1>8, <1>9, KeptStep

LEMMA KeptNext ==
    ASSUME Kept, [Next]_vars PROVE Kept'
<1>1. CASE ServerChanges \/ StreamDrops \/ StreamReopens \/ Shutdown
  BY <1>1, ServerChangesKept, StreamKept, ShutdownKept
<1>2. ASSUME NEW t \in Tasks,
             \/ Start(t) \/ Call(t) \/ Refresh(t) \/ Answers(t)
             \/ Receives(t) \/ ConnectionLost(t) \/ GivesUp(t)
      PROVE  Kept'
  BY <1>2, StartCallKept, RefreshKept, AnswersKept, ReceivesKept, ConnectionLostKept, GivesUpKept
<1>3. ASSUME NEW c \in DOMAIN conns, ServerDies(c) \/ ServeStep(c) PROVE Kept'
  BY <1>3, ServerDiesKept, ConnectedKept, ConnectFailsKept, LeavesKept, LeftKept DEF ServeStep
<1>4. CASE UNCHANGED vars
  <2>1. conns' = conns /\ session' = session /\ tasks' = tasks /\ seen' = seen
        /\ UNCHANGED <<server, era, tools, runtime>>
    BY <1>4 DEF vars
  <2>2. Carries(conns, conns') /\ RestTyped'
    BY <2>1, SameCarries, RestSame DEF Kept, Typed
  <2> QED
    BY <2>1, <2>2, KeptStep, SameTasks, Lengths DEF Kept
<1> QED
  BY <1>1, <1>2, <1>3, <1>4 DEF Next

LEMMA KeptAlways == Spec => []Kept
<1>1. Init => Kept
  BY KeptInit
<1>2. Kept /\ [Next]_vars => Kept'
  BY KeptNext
<1> QED
  BY <1>1, <1>2, PTL DEF Spec

LEMMA KeptTypes ==
    ASSUME Kept PROVE TypeOK
<1>1. /\ Len(conns) \in Nat /\ session.state \in States
      /\ session.conn \in 0 .. Len(conns) /\ session.client \in 0 .. Len(conns)
      /\ session.watch \in {"none", "listening", "backoff"}
  BY Lengths DEF Kept
<1>2. \A c \in DOMAIN conns : conns[c] \in ConnRec
  BY ConnTyped DEF Kept, Typed
<1>3. \A t \in Tasks : /\ tasks[t].op \in {"idle", "waiting", "asked", "answered"}
                       /\ tasks[t].op # "idle" <=> tasks[t].conn # 0
  <2> TAKE t \in Tasks
  <2>1. TaskFine(tasks[t], Len(conns))
    BY DEF Kept, Typed, TasksTyped
  <2>2. /\ tasks[t].op \in {"idle", "waiting", "asked", "answered"}
        /\ tasks[t].op # "idle" => tasks[t].conn \in 1 .. Len(conns)
        /\ tasks[t].op = "idle" => tasks[t].conn = 0
    BY <1>1, <2>1, TaskValues
  <2> QED
    BY <1>1, <2>2
<1> QED
  BY <1>1, <1>2, <1>3 DEF TypeOK, Kept, Typed, RestTyped, ServerRec, ConnRec, Stages, States

\* Whatever the tasks, the server and the SDK do, a connection the session no
\* longer speaks through has been told to end (client.py's _drop(), shutdown()
\* and the cancellation of the attempts nobody waits for any more), and the
\* client the session speaks through has not been left.
THEOREM ConnectionsAlwaysKept == Spec => []ConnectionsKept
<1>1. Kept => ConnectionsKept
  BY KeptTypes DEF Kept, ConnectionsKept
<1> QED
  BY <1>1, KeptAlways, PTL

-----------------------------------------------------------------------------
(* Tools                                                                   *)

\* A list that t has asked for, or will ask for, that the server has not
\* changed since.
Coming(t) ==
    /\ Unsynced(t)
    /\ \/ tasks[t].op \in {"waiting", "asked"}
       \/ tasks[t].op = "answered" /\ tasks[t].version = server.version

\* Nobody has heard of a list the server never offered, and whoever has the
\* newest has what the server offers now.
Versions ==
    /\ seen.version <= server.version
    /\ \A t \in Tasks : /\ tasks[t].version <= server.version
                        /\ (tasks[t].op = "answered" /\ tasks[t].version = server.version)
                               => tasks[t].list = server.offers

\* Once start() has reached the server, and unless a change was missed, the
\* list applied last is the server's, or a notification is waiting, or the
\* server's list is on its way.
Synced ==
    (runtime.started /\ ~seen.missed)
        => \/ seen.version = server.version /\ seen.applied = server.offers
           \/ \E c \in DOMAIN conns : conns[c].news
           \/ \E t \in Tasks : Coming(t)

\* The inductive invariant of ToolsFollow.
Sound == Kept /\ NamesFollowList /\ Versions /\ Synced

LEMMA SoundInit ==
    ASSUME Init PROVE Sound
<1>1. Kept
  BY KeptInit
<1>2. NamesFollowList
  BY DEF Init, NamesFollowList, Assigned
<1>3. Versions
  <2>1. server.version = 0 /\ seen.version = 0
    BY DEF Init
  <2>2. \A t \in Tasks : tasks[t].version = 0 /\ tasks[t].op = "idle"
    BY DEF Init, Idle
  <2> QED
    BY <2>1, <2>2 DEF Versions
<1>4. Synced
  BY DEF Init, Synced
<1> QED
  BY <1>1, <1>2, <1>3, <1>4 DEF Sound

LEMMA SoundValues ==
    ASSUME Typed
    PROVE  /\ server.version \in Nat /\ seen.version \in Nat /\ server.offers \in SUBSET Raws
           /\ seen.missed \in BOOLEAN
           /\ \A t \in Tasks : /\ tasks[t].version \in Nat
                               /\ tasks[t].want \in Wants \union {"none"}
                               /\ tasks[t].op \in {"idle", "waiting", "asked", "answered"}
                               /\ tasks[t].op = "idle" => tasks[t].want = "none"
<1>1. server.version \in 0 .. MaxChanges /\ server.offers \in SUBSET Raws
  BY DEF Typed, RestTyped, ServerRec
<1>2. seen.version \in 0 .. MaxChanges /\ seen.missed \in BOOLEAN
  BY Lengths, SeenValues
<1>3. \A t \in Tasks : TaskFine(tasks[t], Len(conns))
  BY DEF Typed, TasksTyped
<1>4. \A t \in Tasks : /\ tasks[t].version \in 0 .. MaxChanges
                       /\ tasks[t].want \in Wants \union {"none"}
                       /\ tasks[t].op \in {"idle", "waiting", "asked", "answered"}
                       /\ tasks[t].op = "idle" => tasks[t].want = "none"
  BY <1>3, Lengths, TaskValues
<1> QED
  BY <1>1, <1>2, <1>4

\* A task that has no list yet, or the same one.
Waits(p, q) == q.op # "answered" /\ q.version \in {0, p.version}

\* The operations that neither change what the server offers nor apply a
\* list: what is known stays known, as long as no notification and no list
\* that is coming gets lost.
LEMMA QuietStep ==
    ASSUME Sound, Kept', server' = server, tools' = tools,
           seen'.applied = seen.applied, seen'.version = seen.version,
           \A t \in Tasks : tasks'[t] = tasks[t] \/ Waits(tasks[t], tasks'[t]),
           (runtime'.started /\ ~seen'.missed)
               => \/ /\ runtime.started /\ ~seen.missed
                     /\ \A c \in DOMAIN conns :
                            conns[c].news => c \in DOMAIN conns' /\ conns'[c].news
                     /\ \A t \in Tasks : Coming(t) => Coming(t)'
                  \/ \E t \in Tasks : Coming(t)'
    PROVE  Sound'
<1>1. NamesFollowList'
  BY DEF Sound, NamesFollowList
<1>2. Versions'
  <2>1. seen'.version <= server'.version
    BY DEF Sound, Versions
  <2>2. ASSUME NEW t \in Tasks
        PROVE  /\ tasks'[t].version <= server'.version
               /\ (tasks'[t].op = "answered" /\ tasks'[t].version = server'.version)
                      => tasks'[t].list = server'.offers
    <3>1. CASE tasks'[t] = tasks[t]
      BY <3>1 DEF Sound, Versions
    <3>2. CASE Waits(tasks[t], tasks'[t])
      <4>1. 0 <= server.version
        BY SoundValues DEF Sound, Kept
      <4> QED
        BY <3>2, <4>1 DEF Sound, Versions, Waits
    <3> QED
      BY <3>1, <3>2
  <2> QED
    BY <2>1, <2>2 DEF Versions
<1>3. Synced'
  BY DEF Sound, Synced
<1> QED
  BY <1>1, <1>2, <1>3 DEF Sound

\* What _ensure_connection() leaves of the task, of the history and of the
\* notifications.
LEMMA EnsuresSound ==
    ASSUME Typed, NEW t \in Tasks, NEW want \in Wants, NEW heard, Ensures(t, want, heard),
           Carries(conns, heard), tasks[t].op = "idle"
    PROVE  /\ \A u \in Tasks : tasks'[u] = tasks[u] \/ Waits(tasks[u], tasks'[u])
           /\ \A u \in Tasks : u # t => tasks'[u] = tasks[u]
           /\ seen'.applied = seen.applied /\ seen'.version = seen.version
           /\ ~seen'.missed => ~seen.missed
           /\ want # "call" => seen'.missed \/ Coming(t)'
           /\ \A c \in DOMAIN conns : c \in DOMAIN conns' /\ conns'[c] = heard[c]
<1>1. /\ Len(conns) \in Nat /\ DOMAIN conns = 1 .. Len(conns) /\ seen \in SeenRec
      /\ seen.missed \in BOOLEAN
  BY Lengths, SeenValues
<1>2. tasks = [u \in Tasks |-> tasks[u]]
  BY DEF Typed, TasksTyped
<1>3. heard \in Seq(ConnRec) /\ Len(heard) = Len(conns) /\ DOMAIN heard = DOMAIN conns
  BY DEF Carries
<1>4. CASE /\ Over(t) /\ conns' = heard
           /\ \E x \in BOOLEAN : seen' = [seen EXCEPT !.unclient = x,
                                                      !.missed = @ \/ want # "call"]
  <2>1. PICK x \in BOOLEAN : seen' = [seen EXCEPT !.unclient = x,
                                                  !.missed = @ \/ want # "call"]
    BY <1>4
  <2> DEFINE y == seen.missed \/ want # "call"
  <2>2. seen' = [seen EXCEPT !.unclient = x, !.missed = y]
    BY <1>1, <2>1 DEF SeenRec
  <2> HIDE DEF y
  <2>3. seen'.applied = seen.applied /\ seen'.version = seen.version /\ seen'.missed = y
    BY <1>1, <2>2 DEF SeenRec
  <2>4. tasks' = [tasks EXCEPT ![t] = Idle]
    BY <1>4 DEF Over
  <2>5. /\ tasks'[t] = Idle /\ \A u \in Tasks : u # t => tasks'[u] = tasks[u]
    BY <1>2, <2>4
  <2>6. Waits(tasks[t], tasks'[t])
    BY <2>5 DEF Waits, Idle
  <2>7. \A c \in DOMAIN conns : c \in DOMAIN conns' /\ conns'[c] = heard[c]
    BY <1>3, <1>4
  <2>8. \A u \in Tasks : tasks'[u] = tasks[u] \/ Waits(tasks[u], tasks'[u])
    BY <2>5, <2>6
  <2>9. (~seen'.missed => ~seen.missed) /\ (want # "call" => seen'.missed)
    BY <2>3 DEF y
  <2> QED
    BY <2>3, <2>5, <2>7, <2>8, <2>9
<1>5. ASSUME NEW op \in {"waiting", "asked"}, NEW c \in 1 .. Len(conns) + 1,
             tasks' = [tasks EXCEPT ![t] = Job(op, want, c)], seen' = seen,
             \A d \in DOMAIN conns : d \in DOMAIN conns' /\ conns'[d] = heard[d]
      PROVE  /\ \A u \in Tasks : tasks'[u] = tasks[u] \/ Waits(tasks[u], tasks'[u])
             /\ \A u \in Tasks : u # t => tasks'[u] = tasks[u]
             /\ want # "call" => Coming(t)'
  <2> DEFINE r == Job(op, want, c)
  <2>1. r.op = op /\ r.want = want /\ r.version = 0
    BY <1>1, JobFine
  <2>2. tasks' = [tasks EXCEPT ![t] = r]
    BY <1>5
  <2> HIDE DEF r
  <2>3. tasks'[t] = r /\ \A u \in Tasks : u # t => tasks'[u] = tasks[u]
    BY <1>2, <2>2
  <2>4. Waits(tasks[t], tasks'[t])
    BY <2>1, <2>3 DEF Waits
  <2>5. want # "call" => Coming(t)'
    BY <2>1, <2>3 DEF Coming, Unsynced, Wants
  <2> QED
    BY <2>3, <2>4, <2>5
<1>6. CASE /\ conns' = heard /\ seen' = seen
           /\ \E op \in {"waiting", "asked"}, c \in 1 .. Len(conns) :
                  tasks' = [tasks EXCEPT ![t] = Job(op, want, c)]
  <2>1. PICK op \in {"waiting", "asked"}, c \in 1 .. Len(conns) :
            tasks' = [tasks EXCEPT ![t] = Job(op, want, c)]
    BY <1>6
  <2>2. c \in 1 .. Len(conns) + 1
    BY <1>1
  <2>3. \A d \in DOMAIN conns : d \in DOMAIN conns' /\ conns'[d] = heard[d]
    BY <1>3, <1>6
  <2> QED
    BY <1>1, <1>5, <1>6, <2>1, <2>2, <2>3
<1>7. CASE /\ conns' = Append(heard, NewConn) /\ seen' = seen
           /\ tasks' = [tasks EXCEPT ![t] = Job("waiting", want, Len(conns) + 1)]
  <2>1. NewConn \in ConnRec
    BY DEF NewConn, ConnRec, Stages
  <2>2. \A d \in DOMAIN conns : d \in DOMAIN conns' /\ conns'[d] = heard[d]
    BY <1>1, <1>3, <1>7, <2>1, AppendProperties, LenProperties
  <2>3. Len(conns) + 1 \in 1 .. Len(conns) + 1
    BY <1>1
  <2> QED
    BY <1>1, <1>5, <1>7, <2>2, <2>3
<1> QED
  BY <1>4, <1>6, <1>7, EnsuresShape

LEMMA ServerChangesSound ==
    ASSUME Sound, Kept', ServerChanges PROVE Sound'
<1>1. server'.version = server.version + 1 /\ tasks' = tasks /\ tools' = tools
  BY DEF ServerChanges
<1>2. seen'.applied = seen.applied /\ seen'.version = seen.version
      /\ seen'.missed = (seen.missed \/ ~\E c \in DOMAIN conns : Listens(c))
  <2>1. (~\E c \in DOMAIN conns : Listens(c)) \in BOOLEAN
    OBVIOUS
  <2> QED
    BY <2>1, MissedSeen DEF ServerChanges, Sound, Kept
<1>3. NamesFollowList'
  BY <1>1, <1>2 DEF Sound, NamesFollowList
<1>4. Versions'
  <2>1. server.version \in Nat /\ seen.version \in Nat
        /\ \A t \in Tasks : tasks[t].version \in Nat
    BY SoundValues DEF Sound, Kept
  <2>2. seen.version <= server.version /\ \A t \in Tasks : tasks[t].version <= server.version
    BY DEF Sound, Versions
  <2>3. seen'.version <= server'.version
    BY <1>1, <1>2, <2>1, <2>2
  <2>4. \A t \in Tasks : tasks'[t].version < server'.version
    <3> TAKE t \in Tasks
    <3>1. tasks[t].version \in Nat /\ tasks[t].version <= server.version
      BY <2>1, <2>2
    <3> QED
      BY <1>1, <2>1, <3>1
  <2>5. \A t \in Tasks : tasks'[t].version <= server'.version /\ tasks'[t].version # server'.version
    BY <1>1, <2>1, <2>4
  <2> QED
    BY <2>3, <2>5 DEF Versions
<1>5. Synced'
  <2> SUFFICES ASSUME ~seen'.missed PROVE \E c \in DOMAIN conns' : conns'[c].news
    BY DEF Synced
  <2>1. PICK c \in DOMAIN conns : Listens(c)
    BY <1>2
  <2> DEFINE x == conns[c].news \/ Listens(c)
  <2>2. conns[c] \in ConnRec
    BY ConnTyped DEF Sound, Kept, Typed
  <2>3. c \in DOMAIN conns' /\ conns'[c] = [conns[c] EXCEPT !.news = x]
    BY <2>2 DEF ServerChanges, ConnRec
  <2>4. x
    BY <2>1
  <2> HIDE DEF x
  <2>5. conns'[c].news = x
    BY <2>2, <2>3 DEF ConnRec
  <2> QED
    BY <2>3, <2>4, <2>5
<1> QED
  BY <1>3, <1>4, <1>5 DEF Sound

LEMMA ServerDiesSound ==
    ASSUME Sound, Kept', NEW c \in DOMAIN conns, ServerDies(c) PROVE Sound'
<1>1. server' = server /\ tools' = tools /\ tasks' = tasks /\ runtime' = runtime
  BY DEF ServerDies
<1>2. seen'.applied = seen.applied /\ seen'.version = seen.version
      /\ seen'.missed = (seen.missed \/ conns[c].news)
  BY ConnTyped, MissedSeen DEF ServerDies, Sound, Kept, Typed
<1>3. Carries(conns, conns') /\ \A d \in DOMAIN conns : d # c => conns'[d] = conns[d]
  BY DeadCarries DEF ServerDies, Sound, Kept, Typed
<1>4. ~conns[c].news => \A d \in DOMAIN conns :
          conns[d].news => d \in DOMAIN conns' /\ conns'[d].news
  BY <1>3 DEF Carries
<1>5. \A t \in Tasks : Coming(t) => Coming(t)'
  BY <1>1 DEF Coming, Unsynced
<1> QED
  BY <1>1, <1>2, <1>4, <1>5, QuietStep

LEMMA StreamSound ==
    ASSUME Sound, Kept', StreamDrops \/ StreamReopens PROVE Sound'
<1>1. server' = server /\ tools' = tools /\ tasks' = tasks /\ runtime' = runtime
  BY DEF StreamDrops, StreamReopens
<1>2. \A t \in Tasks : Coming(t) => Coming(t)'
  BY <1>1 DEF Coming, Unsynced
<1>3. CASE StreamDrops
  <2>1. seen'.applied = seen.applied /\ seen'.version = seen.version
        /\ seen'.missed = (seen.missed \/ \E c \in DOMAIN conns : conns[c].news)
    <3>1. (\E c \in DOMAIN conns : conns[c].news) \in BOOLEAN
      OBVIOUS
    <3> QED
      BY <1>3, <3>1, MissedSeen DEF StreamDrops, Sound, Kept
  <2> QED
    BY <1>1, <1>2, <2>1, QuietStep
<1>4. CASE StreamReopens
  <2>1. conns' = conns /\ seen' = seen
    BY <1>4 DEF StreamReopens
  <2> QED
    BY <1>1, <1>2, <2>1, QuietStep
<1> QED
  BY <1>3, <1>4

LEMMA StartSound ==
    ASSUME Sound, Kept', NEW t \in Tasks, Start(t) PROVE Sound'
<1>1. server' = server /\ tools' = tools
  BY DEF Start
<1>2. PICK want \in {"start", "background"} : Ensures(t, want, conns)
  BY DEF Start
<1>3. want \in Wants /\ want # "call" /\ tasks[t].op = "idle"
  BY DEF Wants, Start
<1>4. Carries(conns, conns)
  BY SameCarries DEF Sound, Kept, Typed
<1>5. /\ \A u \in Tasks : tasks'[u] = tasks[u] \/ Waits(tasks[u], tasks'[u])
      /\ seen'.applied = seen.applied /\ seen'.version = seen.version
      /\ seen'.missed \/ Coming(t)'
  BY <1>2, <1>3, <1>4, EnsuresSound DEF Sound, Kept
<1> QED
  BY <1>1, <1>5, QuietStep

LEMMA CallSound ==
    ASSUME Sound, Kept', NEW t \in Tasks, Call(t) PROVE Sound'
<1>1. server' = server /\ tools' = tools /\ runtime' = runtime
  BY DEF Call
<1>2. Ensures(t, "call", conns) /\ "call" \in Wants /\ tasks[t].op = "idle"
  BY DEF Call, Wants
<1>3. Carries(conns, conns)
  BY SameCarries DEF Sound, Kept, Typed
<1>4. /\ \A u \in Tasks : tasks'[u] = tasks[u] \/ Waits(tasks[u], tasks'[u])
      /\ \A u \in Tasks : u # t => tasks'[u] = tasks[u]
      /\ seen'.applied = seen.applied /\ seen'.version = seen.version
      /\ ~seen'.missed => ~seen.missed
      /\ \A c \in DOMAIN conns : c \in DOMAIN conns' /\ conns'[c] = conns[c]
  BY <1>2, <1>3, EnsuresSound DEF Sound, Kept
<1>5. \A u \in Tasks : Coming(u) => Coming(u)'
  <2> TAKE u \in Tasks
  <2>1. CASE u = t
    BY <1>2, <2>1 DEF Coming
  <2>2. CASE u # t
    BY <1>1, <1>4, <2>2 DEF Coming, Unsynced
  <2> QED
    BY <2>1, <2>2
<1> QED
  BY <1>1, <1>4, <1>5, QuietStep

LEMMA RefreshSound ==
    ASSUME Sound, Kept', NEW t \in Tasks, Refresh(t) PROVE Sound'
<1>1. server' = server /\ tools' = tools
  BY DEF Refresh
<1>2. PICK c \in DOMAIN conns : Ensures(t, "refresh", [conns EXCEPT ![c].news = FALSE])
  BY DEF Refresh
<1> DEFINE heard == [conns EXCEPT ![c].news = FALSE]
<1>3. Carries(conns, heard)
  BY HeardCarries DEF Sound, Kept, Typed
<1>4. Ensures(t, "refresh", heard) /\ "refresh" \in Wants /\ "refresh" # "call"
      /\ tasks[t].op = "idle"
  BY <1>2 DEF Wants, Refresh
<1> HIDE DEF heard
<1>5. /\ \A u \in Tasks : tasks'[u] = tasks[u] \/ Waits(tasks[u], tasks'[u])
      /\ seen'.applied = seen.applied /\ seen'.version = seen.version
      /\ seen'.missed \/ Coming(t)'
  BY <1>3, <1>4, EnsuresSound DEF Sound, Kept
<1> QED
  BY <1>1, <1>5, QuietStep

LEMMA AnswersSound ==
    ASSUME Sound, Kept', NEW t \in Tasks, Answers(t) PROVE Sound'
<1>1. server' = server /\ tools' = tools /\ conns' = conns /\ runtime' = runtime /\ seen' = seen
  BY DEF Answers
<1> DEFINE p == [tasks[t] EXCEPT !.op = "answered"]
           q == [p EXCEPT !.list = server.offers]
           r == [q EXCEPT !.version = server.version]
           n == Len(conns)
<1>2. tasks[t] \in TaskRec(n)
  BY DEF Sound, Kept, Typed, TasksTyped, TaskFine
<1>3. tasks' = [tasks EXCEPT ![t] = r]
  BY DEF Answers, Sound, Kept, Typed, TasksTyped
<1> HIDE DEF n
<1>4. p.op = "answered" /\ p.want = tasks[t].want /\ DOMAIN p = DOMAIN tasks[t]
  BY <1>2 DEF TaskRec
<1>5. DOMAIN tasks[t] = {"op", "want", "conn", "list", "version"}
  BY <1>2 DEF TaskRec
<1> HIDE DEF p
<1>6. /\ q.op = "answered" /\ q.want = tasks[t].want /\ DOMAIN q = DOMAIN tasks[t]
      /\ q.list = server.offers
  BY <1>4, <1>5
<1> HIDE DEF q
<1>7. /\ r.op = "answered" /\ r.want = tasks[t].want /\ r.list = server.offers
      /\ r.version = server.version
  BY <1>5, <1>6
<1> HIDE DEF r
<1>8. tasks'[t] = r /\ \A u \in Tasks : u # t => tasks'[u] = tasks[u]
  <2>1. tasks = [u \in Tasks |-> tasks[u]]
    BY DEF Sound, Kept, Typed, TasksTyped
  <2> QED
    BY <1>3, <2>1
<1>9. \A u \in Tasks : Coming(u) => Coming(u)'
  <2> TAKE u \in Tasks
  <2>1. CASE u = t
    BY <1>1, <1>7, <1>8, <2>1 DEF Coming, Unsynced
  <2>2. CASE u # t
    BY <1>1, <1>8, <2>2 DEF Coming, Unsynced
  <2> QED
    BY <2>1, <2>2
<1>10. Versions'
  <2>1. server.version <= server.version
    BY SoundValues DEF Sound, Kept
  <2> QED
    BY <1>1, <1>7, <1>8, <2>1 DEF Sound, Versions
<1>11. NamesFollowList' /\ Synced'
  BY <1>1, <1>9 DEF Sound, NamesFollowList, Synced
<1> QED
  BY <1>10, <1>11 DEF Sound

LEMMA ReceivesSound ==
    ASSUME Sound, Kept', NEW t \in Tasks, Receives(t) PROVE Sound'
<1>1. server' = server /\ conns' = conns /\ runtime' = runtime
  BY DEF Receives
<1>2. tasks'[t] = Idle /\ \A u \in Tasks : u # t => tasks'[u] = tasks[u]
  <2>1. tasks = [u \in Tasks |-> tasks[u]]
    BY DEF Sound, Kept, Typed, TasksTyped
  <2> QED
    BY <2>1 DEF Receives, Over
<1>3. Waits(tasks[t], tasks'[t])
  BY <1>2 DEF Waits, Idle
<1>4. \A u \in Tasks : u # t /\ Coming(u) => Coming(u)'
  BY <1>1, <1>2 DEF Coming, Unsynced
<1>5. CASE tasks[t].want = "call"
  <2>1. tools' = tools /\ seen' = seen
    BY <1>5 DEF Receives
  <2>2. ~Coming(t)
    BY <1>5 DEF Coming, Unsynced
  <2> QED
    BY <1>1, <1>2, <1>3, <1>4, <2>1, <2>2, QuietStep
<1>6. CASE tasks[t].want # "call"
  <2> DEFINE version == tasks[t].version
  <2>1. /\ seen'.applied = tasks[t].list /\ seen'.version = version
        /\ seen'.missed = ((version < seen.version) \/ (version < server.version /\ seen.missed))
    BY <1>6, ReceivesSeen DEF Sound, Kept
  <2>2. tools' = Applied(tasks[t].list) /\ tasks[t].op = "answered"
    BY <1>6 DEF Receives
  <2>3. tasks[t].list \in SUBSET Raws
    BY Lengths, TaskValues DEF Sound, Kept, Typed, TasksTyped
  <2>4. NamesFollowList'
    BY <2>1, <2>2, <2>3, AppliedTools DEF NamesFollowList, Sound, Kept
  <2>5. version \in Nat /\ server.version \in Nat /\ seen.version \in Nat
    BY SoundValues DEF Sound, Kept
  <2>6. version <= server.version /\ seen.version <= server.version
        /\ (version = server.version => tasks[t].list = server.offers)
    BY <2>2 DEF Sound, Versions
  <2>7. Versions'
    <3>1. seen'.version <= server'.version
      BY <1>1, <2>1, <2>6
    <3>2. tasks'[t].version <= server'.version /\ tasks'[t].op # "answered"
      BY <1>1, <1>2, <2>5 DEF Idle
    <3>3. \A u \in Tasks : u # t =>
              /\ tasks'[u].version <= server'.version
              /\ (tasks'[u].op = "answered" /\ tasks'[u].version = server'.version)
                     => tasks'[u].list = server'.offers
      BY <1>1, <1>2 DEF Sound, Versions
    <3> QED
      BY <3>1, <3>2, <3>3 DEF Versions
  <2>8. Synced'
    <3> SUFFICES ASSUME runtime.started, ~seen'.missed
                 PROVE  \/ seen'.version = server'.version /\ seen'.applied = server'.offers
                        \/ \E c \in DOMAIN conns' : conns'[c].news
                        \/ \E u \in Tasks : Coming(u)'
      BY <1>1 DEF Synced
    <3>1. CASE version = server.version
      BY <1>1, <2>1, <2>6, <3>1
    <3>2. CASE version # server.version
      <4> HIDE DEF version
      <4>0. ~(version < seen.version) /\ ~(version < server.version /\ seen.missed)
        BY <2>1
      <4>1. version < server.version /\ seen.version <= version /\ ~seen.missed
        BY <2>5, <2>6, <3>2, <4>0
      <4>2. seen.version # server.version /\ ~Coming(t)
        BY <2>2, <2>5, <4>1 DEF Coming, version
      <4>3. (\E c \in DOMAIN conns : conns[c].news) \/ \E u \in Tasks : Coming(u)
        BY <4>1, <4>2 DEF Sound, Synced
      <4> QED
        BY <1>1, <1>4, <4>2, <4>3
    <3> QED
      BY <3>1, <3>2
  <2> QED
    BY <2>4, <2>7, <2>8 DEF Sound
<1> QED
  BY <1>5, <1>6

\* A task that is over: what it was to bring is missed.
LEMMA OverSound ==
    ASSUME Sound, Kept', NEW t \in Tasks, Over(t), tasks[t].op # "idle",
           UNCHANGED <<server, tools, runtime>>,
           seen' = [seen EXCEPT !.missed = @ \/ Unsynced(t)],
           \A c \in DOMAIN conns : c \in DOMAIN conns' /\ conns'[c].news = conns[c].news
    PROVE  Sound'
<1>1. tasks'[t] = Idle /\ \A u \in Tasks : u # t => tasks'[u] = tasks[u]
  <2>1. tasks = [u \in Tasks |-> tasks[u]]
    BY DEF Sound, Kept, Typed, TasksTyped
  <2> QED
    BY <2>1 DEF Over
<1>2. Waits(tasks[t], tasks'[t])
  BY <1>1 DEF Waits, Idle
<1>3. /\ seen'.applied = seen.applied /\ seen'.version = seen.version
      /\ seen'.missed = (seen.missed \/ Unsynced(t))
  BY MissedSeen DEF Sound, Kept, Unsynced
<1>4. ~Unsynced(t) => \A u \in Tasks : Coming(u) => Coming(u)'
  BY <1>1 DEF Coming, Unsynced
<1> QED
  BY <1>1, <1>2, <1>3, <1>4, QuietStep

LEMMA ConnectionLostSound ==
    ASSUME Sound, Kept', NEW t \in Tasks, ConnectionLost(t) PROVE Sound'
<1>1. \A c \in DOMAIN conns : c \in DOMAIN conns' /\ conns'[c].news = conns[c].news
  <2>1. CASE Current # 0
    <3>1. Current \in DOMAIN conns /\ conns' = Stopping(Current)
      BY <2>1, Lengths DEF ConnectionLost, Current, Sound, Kept
    <3> QED
      BY <3>1, StoppingCarries DEF Sound, Kept, Typed, Carries
  <2>2. CASE Current = 0
    BY <2>2 DEF ConnectionLost
  <2> QED
    BY <2>1, <2>2
<1>2. /\ Over(t) /\ tasks[t].op # "idle" /\ UNCHANGED <<server, tools, runtime>>
      /\ seen' = [seen EXCEPT !.missed = @ \/ Unsynced(t)]
  BY DEF ConnectionLost
<1> QED
  BY <1>1, <1>2, OverSound

LEMMA GivesUpSound ==
    ASSUME Sound, Kept', NEW t \in Tasks, GivesUp(t) PROVE Sound'
<1>1. \A c \in DOMAIN conns : c \in DOMAIN conns' /\ conns'[c].news = conns[c].news
  <2> TAKE c \in DOMAIN conns
  <2>1. conns[c] \in ConnRec
    BY ConnTyped DEF Sound, Kept, Typed
  <2>2. conns = [d \in DOMAIN conns |-> conns[d]]
    BY DEF Sound, Kept, Typed, ConnsTyped
  <2>3. CASE tasks[t].op = "waiting" /\ Live(tasks[t].conn)
    <3> DEFINE e == tasks[t].conn
    <3>1. conns' = [conns EXCEPT ![e].cancelled = TRUE]
      BY <2>3 DEF GivesUp
    <3> HIDE DEF e
    <3>2. c \in DOMAIN conns' /\ conns'[c] = IF c = e THEN [conns[c] EXCEPT !.cancelled = TRUE] ELSE conns[c]
      BY <2>2, <3>1
    <3>3. [conns[c] EXCEPT !.cancelled = TRUE].news = conns[c].news
      BY <2>1 DEF ConnRec
    <3> QED
      BY <3>2, <3>3
  <2>4. CASE ~(tasks[t].op = "waiting" /\ Live(tasks[t].conn))
    BY <2>4 DEF GivesUp
  <2> QED
    BY <2>3, <2>4
<1>2. /\ Over(t) /\ tasks[t].op # "idle" /\ UNCHANGED <<server, tools, runtime>>
      /\ seen' = [seen EXCEPT !.missed = @ \/ Unsynced(t)]
  BY DEF GivesUp
<1> QED
  BY <1>1, <1>2, OverSound

LEMMA ConnectedSound ==
    ASSUME Sound, Kept', NEW c \in DOMAIN conns, Connected(c) PROVE Sound'
<1>1. server' = server /\ tools' = tools /\ runtime' = runtime /\ seen' = seen
  BY DEF Connected
<1>2. \A d \in DOMAIN conns : d \in DOMAIN conns' /\ conns'[d].news = conns[d].news
  <2> TAKE d \in DOMAIN conns
  <2> DEFINE stage == IF conns[c].stop THEN "leaving" ELSE "serving"
  <2>1. conns[d] \in ConnRec
    BY ConnTyped DEF Sound, Kept, Typed
  <2>2. conns = [e \in DOMAIN conns |-> conns[e]]
    BY DEF Sound, Kept, Typed, ConnsTyped
  <2>3. conns' = [conns EXCEPT ![c].stage = stage]
    BY DEF Connected
  <2> HIDE DEF stage
  <2>4. d \in DOMAIN conns' /\ conns'[d] = IF d = c THEN [conns[d] EXCEPT !.stage = stage] ELSE conns[d]
    BY <2>2, <2>3
  <2>5. [conns[d] EXCEPT !.stage = stage].news = conns[d].news
    BY <2>1 DEF ConnRec
  <2> QED
    BY <2>4, <2>5
<1>3. ASSUME NEW t \in Tasks
      PROVE  /\ tasks'[t] = tasks[t] \/ Waits(tasks[t], tasks'[t])
             /\ Coming(t) => Coming(t)'
  <2>1. tasks'[t] = IF t \in Waiters(c) THEN [tasks[t] EXCEPT !.op = "asked"] ELSE tasks[t]
    BY DEF Connected
  <2>2. CASE t \in Waiters(c)
    <3> DEFINE n == Len(conns)
               r == [tasks[t] EXCEPT !.op = "asked"]
    <3>1. tasks[t] \in TaskRec(n)
      BY DEF Sound, Kept, Typed, TasksTyped, TaskFine
    <3> HIDE DEF n
    <3>2. r.op = "asked" /\ r.want = tasks[t].want /\ r.version = tasks[t].version
      BY <3>1 DEF TaskRec
    <3>3. tasks'[t] = r
      BY <2>1, <2>2
    <3> HIDE DEF r
    <3> QED
      BY <3>2, <3>3 DEF Waits, Coming, Unsynced
  <2>3. CASE t \notin Waiters(c)
    <3>1. tasks'[t] = tasks[t]
      BY <2>1, <2>3
    <3> QED
      BY <1>1, <3>1 DEF Coming, Unsynced
  <2> QED
    BY <2>2, <2>3
<1> QED
  BY <1>1, <1>2, <1>3, QuietStep

\* The end of a connection: what it had been told, and the lists that the
\* cancelled tasks were to bring, are missed.
LEMMA EndSound ==
    ASSUME Sound, Kept', NEW c \in DOMAIN conns, NEW stage \in {"leaving", "gone"},
           NEW gone \in SUBSET Tasks, Cancels(gone, Ended(c, stage)),
           NEW lost \in SUBSET Tasks, Loses(c, lost),
           \A t \in gone : Unsynced(t) => t \in lost,
           UNCHANGED <<server, era, tools, runtime>>
    PROVE  Sound'
<1>1. /\ Carries(conns, Ended(c, stage))
      /\ \A d \in DOMAIN conns : d # c => Ended(c, stage)[d] = conns[d]
  BY EndedCarries DEF Sound, Kept, Typed
<1>2. /\ Carries(conns, conns')
      /\ \A d \in DOMAIN conns : conns'[d].news = Ended(c, stage)[d].news
  BY <1>1, CancelsCarries DEF Sound, Kept, Typed
<1>3. /\ seen'.applied = seen.applied /\ seen'.version = seen.version
      /\ seen'.missed = (seen.missed \/ (conns[c].news \/ lost # {}))
  <2> DEFINE x == conns[c].news \/ lost # {}
  <2>1. x \in BOOLEAN
    BY ConnTyped DEF Sound, Kept, Typed
  <2>2. seen \in SeenRec
    BY Lengths DEF Sound, Kept
  <2>3. seen' = [seen EXCEPT !.missed = @ \/ x]
    BY <2>2 DEF Loses, SeenRec
  <2> HIDE DEF x
  <2>4. /\ seen'.applied = seen.applied /\ seen'.version = seen.version
        /\ seen'.missed = (seen.missed \/ x)
    BY <2>1, <2>3, MissedSeen DEF Sound, Kept
  <2> QED
    BY <2>4 DEF x
<1>4. /\ \A t \in gone : tasks'[t] = Idle
      /\ \A t \in Tasks : t \notin gone => tasks'[t] = tasks[t]
  BY CancelsTasks DEF Sound, Kept
<1>5. \A t \in Tasks : tasks'[t] = tasks[t] \/ Waits(tasks[t], tasks'[t])
  <2>1. Idle.op # "answered" /\ Idle.version = 0
    BY DEF Idle
  <2> QED
    BY <1>4, <2>1 DEF Waits
<1>6. lost = {} => \A t \in Tasks : Coming(t) => Coming(t)'
  <2> SUFFICES ASSUME lost = {}, NEW t \in Tasks, Coming(t) PROVE Coming(t)'
    OBVIOUS
  <2>1. t \notin gone
    BY DEF Coming
  <2> QED
    BY <1>4, <2>1 DEF Coming, Unsynced
<1>7. ~conns[c].news => \A d \in DOMAIN conns :
          conns[d].news => d \in DOMAIN conns' /\ conns'[d].news
  BY <1>1, <1>2 DEF Carries
<1> QED
  BY <1>3, <1>5, <1>6, <1>7, QuietStep

LEMMA ServeSound ==
    ASSUME Sound, Kept', NEW c \in DOMAIN conns, ServeStep(c) PROVE Sound'
<1>1. Refreshers \in SUBSET Tasks /\ Waiters(c) \in SUBSET Tasks /\ Watchers \in SUBSET Tasks
  BY DEF Refreshers, Waiters, Watchers
<1>2. CASE Connected(c)
  BY <1>2, ConnectedSound
<1>3. CASE ConnectFails(c)
  <2> DEFINE gone == Refreshers \union Waiters(c)
             lost == Refreshers \union {t \in Waiters(c) : tasks[t].want # "call"}
  <2>1. gone \in SUBSET Tasks /\ lost \in SUBSET Tasks
    BY <1>1
  <2>2. \A t \in gone : Unsynced(t) => t \in lost
    BY DEF Unsynced
  <2>3. /\ Cancels(gone, Ended(c, "gone")) /\ Loses(c, lost)
        /\ UNCHANGED <<server, era, tools, runtime>>
    BY <1>3 DEF ConnectFails
  <2> HIDE DEF gone, lost
  <2> QED
    BY <2>1, <2>2, <2>3, EndSound
<1>4. CASE Leaves(c)
  <2>1. /\ Cancels(Watchers, Ended(c, "leaving")) /\ Loses(c, Watchers)
        /\ UNCHANGED <<server, era, tools, runtime>>
    BY <1>4 DEF Leaves
  <2> QED
    BY <1>1, <2>1, EndSound
<1>5. CASE Left(c)
  <2>1. /\ Cancels(Refreshers, Ended(c, "gone")) /\ Loses(c, Refreshers)
        /\ UNCHANGED <<server, era, tools, runtime>>
    BY <1>5 DEF Left
  <2> QED
    BY <1>1, <2>1, EndSound
<1> QED
  BY <1>2, <1>3, <1>4, <1>5 DEF ServeStep

LEMMA ShutdownSound ==
    ASSUME Sound, Kept', Shutdown PROVE Sound'
<1> DEFINE closes == runtime.started /\ session.state # "closed"
           now == IF closes /\ Current # 0 THEN Stopped(Current) ELSE conns
           gone == Background \union (IF closes THEN Watchers ELSE {})
<1>1. gone \in SUBSET Tasks /\ Cancels(gone, now)
  BY DEF Shutdown, Background, Watchers, Refreshers
<1> HIDE DEF gone, now
<1>2. /\ \A t \in gone : tasks'[t] = Idle
      /\ \A t \in Tasks : t \notin gone => tasks'[t] = tasks[t]
  BY <1>1, CancelsTasks DEF Sound, Kept
<1>3. \A t \in Tasks : tasks'[t] = tasks[t] \/ Waits(tasks[t], tasks'[t])
  <2>1. Idle.op # "answered" /\ Idle.version = 0
    BY DEF Idle
  <2> QED
    BY <1>2, <2>1 DEF Waits
<1>4. seen'.missed /\ seen'.applied = seen.applied /\ seen'.version = seen.version
  BY Lengths, SetsMissed DEF Shutdown, Sound, Kept
<1>5. server' = server /\ tools' = tools
  BY DEF Shutdown
<1> QED
  BY <1>3, <1>4, <1>5, QuietStep

LEMMA SoundNext ==
    ASSUME Sound, [Next]_vars PROVE Sound'
<1>1. Kept'
  BY KeptNext DEF Sound
<1>2. CASE ServerChanges \/ StreamDrops \/ StreamReopens \/ Shutdown
  BY <1>1, <1>2, ServerChangesSound, StreamSound, ShutdownSound
<1>3. ASSUME NEW t \in Tasks,
             \/ Start(t) \/ Call(t) \/ Refresh(t) \/ Answers(t)
             \/ Receives(t) \/ ConnectionLost(t) \/ GivesUp(t)
      PROVE  Sound'
  BY <1>1, <1>3, StartSound, CallSound, RefreshSound, AnswersSound, ReceivesSound,
     ConnectionLostSound, GivesUpSound
<1>4. ASSUME NEW c \in DOMAIN conns, ServerDies(c) \/ ServeStep(c) PROVE Sound'
  BY <1>1, <1>4, ServerDiesSound, ServeSound
<1>5. CASE UNCHANGED vars
  <2>1. conns' = conns /\ tasks' = tasks /\ seen' = seen /\ server' = server
        /\ tools' = tools /\ runtime' = runtime
    BY <1>5 DEF vars
  <2>2. \A t \in Tasks : Coming(t) => Coming(t)'
    BY <2>1 DEF Coming, Unsynced
  <2> QED
    BY <1>1, <2>1, <2>2, QuietStep
<1> QED
  BY <1>2, <1>3, <1>4, <1>5 DEF Next

\* However the raw names collide and in whatever order the lists arrive, the
\* names registered are those of the list applied last (runtime.py's
\* _apply_tools()), and once nothing is under way they are those the server
\* offers, unless a change reached nobody or a refresh came to nothing.
THEOREM ToolsAlwaysFollow == Spec => []ToolsFollow
<1>1. Init => Sound
  BY SoundInit
<1>2. Sound /\ [Next]_vars => Sound'
  BY SoundNext
<1>3. Sound => ToolsFollow
  <2> SUFFICES ASSUME Sound, runtime.started, ~seen.missed,
                      \A t \in Tasks : tasks[t].op = "idle",
                      ~\E c \in DOMAIN conns : conns[c].news
               PROVE  DOMAIN tools = Assigned(server.offers)
    BY DEF ToolsFollow, SyncedUnlessMissed, Sound
  <2>1. \A t \in Tasks : ~Coming(t)
    BY DEF Coming
  <2>2. seen.applied = server.offers
    BY <2>1 DEF Sound, Synced
  <2> QED
    BY <2>2 DEF Sound, NamesFollowList
<1> QED
  BY <1>1, <1>2, <1>3, PTL DEF Spec
=============================================================================
