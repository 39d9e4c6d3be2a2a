---------------------------- MODULE EventChannel ----------------------------
(***************************************************************************)
(* core/channel.py: one conversation's event stream.  A publish stamps the *)
(* event with the next seq, keeps it in the replay ring, offers it to every *)
(* buffered reader without waiting, and then awaits the inline callbacks   *)
(* one after the other.  Between two awaits anything else may run, so the  *)
(* publishes of concurrent tasks, and of the callbacks themselves, overlap. *)
(*                                                                         *)
(* An event is its run and whether it is terminal: that is all a filter of *)
(* the code (Turn._is_mine, _ends_run) looks at.  It is named by its seq,  *)
(* so log[q] is event q and Len(log) is the code's _seq.                   *)
(***************************************************************************)
EXTENDS Integers, Sequences, FiniteSets

CONSTANTS
    Readers,    \* identities of the subscriptions that may be made
    Callbacks,  \* identities of the inline callbacks that may be registered
    Runs,       \* run ids
    Replay,     \* EventChannel(replay=...)
    Backlog,    \* EventChannel(backlog=...); 0 would mean an unbounded queue
    MaxSeq      \* bound: how many events are published

ASSUME ChannelAssumption ==
    /\ Replay \in Nat
    /\ Backlog \in Nat \ {0}
    /\ MaxSeq \in Nat
    /\ "all" \notin Runs

CLOSED == 0         \* the _CLOSED item: no event is stamped 0
All    == "all"     \* the view of a reader without keep and ends

Event == [run : Runs, ends : BOOLEAN]
Seqs  == 1 .. MaxSeq

VARIABLES
    log,        \* every event published, in seq order
    replay,     \* _replay: the seqs the ring still holds
    closed,     \* _closed
    members,    \* _subscribers
    view,       \* a reader's keep/ends: All, or the run it is scoped to
    queue,      \* _queue of each reader: seqs and CLOSED
    dropped,    \* Subscription.dropped
    done,       \* Subscription._done
    inline,     \* _inline, in registration order
    pending,    \* per publish, the callbacks it still awaits; the head is running
    \* history
    subscribed, \* the readers that exist
    start,      \* a reader is owed the events after this seq
    taken,      \* how many events a reader took out of its queue
    got,        \* the events get()/take() returned, in order
    causes      \* per event, the publishes that wait for it to return

readerVars == <<members, view, queue, dropped, done, subscribed, start, taken, got>>
inlineVars == <<inline, pending, causes>>
vars == <<log, replay, closed, readerVars, inlineVars>>

seq == Len(log)

Init ==
    /\ log = <<>>
    /\ replay = <<>>
    /\ closed = FALSE
    /\ members = {}
    /\ view = [s \in Readers |-> All]
    /\ queue = [s \in Readers |-> <<>>]
    /\ dropped = [s \in Readers |-> 0]
    /\ done = [s \in Readers |-> FALSE]
    /\ inline = <<>>
    /\ pending = [q \in Seqs |-> <<>>]
    /\ subscribed = {}
    /\ start = [s \in Readers |-> 0]
    /\ taken = [s \in Readers |-> 0]
    /\ got = [s \in Readers |-> <<>>]
    /\ causes = [q \in Seqs |-> {}]

-----------------------------------------------------------------------------
(* Bounded sequences                                                       *)

\* The newest n items of a sequence, all of it when it is shorter.
Newest(n, s) == IF Len(s) <= n THEN s ELSE SubSeq(s, Len(s) - n + 1, Len(s))

\* _offer: never blocks; a full queue gives up its oldest item.
Full(q) == Len(q) >= Backlog

OfferedNewestLost(q, item) == IF Full(q) THEN q ELSE Append(q, item)
Offered(q, item) == Append(IF Full(q) THEN Tail(q) ELSE q, item)

\* history(since): what the replay ring still holds after since.  The ring is
\* in seq order, so that is all of it but the first Older(since) events.
OlderOffByOne(since) ==
    CHOOSE n \in 0 .. Len(replay) : \A i \in 1 .. Len(replay) : replay[i] < since <=> i <= n
Older(since) ==
    CHOOSE n \in 0 .. Len(replay) : \A i \in 1 .. Len(replay) : replay[i] <= since <=> i <= n
History(since) == SubSeq(replay, Older(since) + 1, Len(replay))

\* What came after since and the ring no longer holds.
MissingOffByOne(since) ==
    IF replay # <<>> /\ replay[1] > since THEN replay[1] - since ELSE 0
Missing(since) ==
    IF replay # <<>> /\ replay[1] - 1 > since THEN replay[1] - 1 - since ELSE 0

\* What a reader's filters make of queue item q.
Keeps(s, q) == view[s] = All \/ log[q].run = view[s]
Ends(s, q)  == view[s] # All /\ log[q].ends
Skips(s, q) == q # CLOSED /\ ~Keeps(s, q)

-----------------------------------------------------------------------------
(* Publishing                                                              *)

\* Publish q runs the head of its callbacks and no nested publish holds it up.
RunningAlone(q) ==
    /\ pending[q] # <<>>
    /\ \A r \in Seqs \ {q} : pending[r] = <<>>
Running(q) ==
    /\ pending[q] # <<>>
    /\ \A r \in Seqs : q \in causes[r] => pending[r] = <<>>

\* publish(): stamp, remember, hand out, and call the first inline callback.
\* "by" is the set of publishes that wait for this one: none for a task's own
\* publish; the publish whose callback is running, and those behind it, for a
\* callback that publishes an event of its own.
Publish(event, by) ==
    LET q == seq + 1 IN
    /\ ~closed
    /\ seq < MaxSeq
    /\ log' = Append(log, event)
    /\ replay' = Newest(Replay, Append(replay, q))
    /\ queue' = [s \in Readers |->
                    IF s \in members THEN Offered(queue[s], q) ELSE queue[s]]
    /\ dropped' = [s \in Readers |->
                    IF s \in members /\ Full(queue[s]) THEN dropped[s] + 1 ELSE dropped[s]]
    /\ pending' = [pending EXCEPT ![q] = inline]
    /\ causes' = [causes EXCEPT ![q] = by]
    /\ UNCHANGED <<closed, members, view, done, inline, subscribed, start, taken, got>>

\* A task publishes.
PublishEvent(event) == Publish(event, {})

\* A callback publishes while the publish that called it waits.
NestedPublish(q, event) ==
    /\ Running(q)
    /\ Publish(event, causes[q] \union {q})

\* The running callback returned, or raised an Exception that publish logs:
\* the next callback of the snapshot is called.
CallbackReturns(q) ==
    /\ Running(q)
    /\ pending' = [pending EXCEPT ![q] = Tail(@)]
    /\ UNCHANGED <<log, replay, closed, readerVars, inline, causes>>

\* The publishing task is cancelled inside a callback: CancelledError is not an
\* Exception, so it leaves every publish of the chain with its callbacks uncalled.
PublishCancelled(q) ==
    /\ Running(q)
    /\ pending' = [r \in Seqs |-> IF r = q \/ r \in causes[q] THEN <<>> ELSE pending[r]]
    /\ UNCHANGED <<log, replay, closed, readerVars, inline, causes>>

\* inline(callback) and the unsubscriber it returns.
Register(c) ==
    /\ ~closed
    /\ \A i \in 1 .. Len(inline) : inline[i] # c
    /\ inline' = Append(inline, c)
    /\ UNCHANGED <<log, replay, closed, readerVars, pending, causes>>

Unregister(c) ==
    /\ \E i \in 1 .. Len(inline) :
        /\ inline[i] = c
        /\ inline' = SubSeq(inline, 1, i - 1) \o SubSeq(inline, i + 1, Len(inline))
    /\ UNCHANGED <<log, replay, closed, readerVars, pending, causes>>

-----------------------------------------------------------------------------
(* Readers                                                                 *)

\* subscribe() on an open channel, live-only or replaying what came after
\* "since".  Replay that no longer fits the backlog, and what the ring had
\* already lost, is counted as dropped.
Subscribe(s, v, since) ==
    LET replays == since < seq
        missing == IF replays THEN Missing(since) ELSE 0
        wanted  == IF replays THEN History(since) ELSE <<>>
    IN
    /\ ~closed
    /\ s \notin subscribed
    /\ subscribed' = subscribed \union {s}
    /\ members' = members \union {s}
    /\ view' = [view EXCEPT ![s] = v]
    /\ queue' = [queue EXCEPT ![s] = Newest(Backlog, wanted)]
    /\ dropped' = [dropped EXCEPT ![s] =
                    missing + (IF Len(wanted) > Backlog THEN Len(wanted) - Backlog ELSE 0)]
    /\ start' = [start EXCEPT ![s] = IF replays THEN since ELSE seq]
    /\ UNCHANGED <<log, replay, closed, done, taken, got, inlineVars>>

\* subscribe() on a closed channel: the reader is over before it begins.
SubscribeClosed(s) ==
    /\ closed
    /\ s \notin subscribed
    /\ subscribed' = subscribed \union {s}
    /\ queue' = [queue EXCEPT ![s] = <<CLOSED>>]
    /\ start' = [start EXCEPT ![s] = seq]
    /\ UNCHANGED <<log, replay, closed, members, view, dropped, done, taken, got, inlineVars>>

\* get() and take(): skip what the reader does not keep and return the first
\* item it does, or drain the queue when it keeps none of it.
Read(s) ==
    /\ s \in subscribed
    /\ ~done[s]
    /\ \E k \in 1 .. Len(queue[s]) :
        LET item == queue[s][k] IN
        /\ \A i \in 1 .. (k - 1) : Skips(s, queue[s][i])
        /\ Skips(s, item) => k = Len(queue[s])
        /\ queue' = [queue EXCEPT ![s] = SubSeq(queue[s], k + 1, Len(queue[s]))]
        /\ taken' = [taken EXCEPT ![s] = @ + (IF item = CLOSED THEN k - 1 ELSE k)]
        /\ done' = [done EXCEPT ![s] =
                        item = CLOSED \/ (Keeps(s, item) /\ Ends(s, item))]
        /\ got' = IF item = CLOSED \/ Skips(s, item) THEN got
                  ELSE [got EXCEPT ![s] = Append(@, item)]
    /\ UNCHANGED <<log, replay, closed, members, view, dropped, subscribed, start, inlineVars>>

\* Subscription.close(): the caller stops reading.  The channel keeps offering
\* to it: nothing takes a reader out of _subscribers but the channel's close.
CloseReader(s) ==
    /\ s \in subscribed
    /\ ~done[s]
    /\ done' = [done EXCEPT ![s] = TRUE]
    /\ queue' = [queue EXCEPT ![s] = Offered(@, CLOSED)]
    /\ UNCHANGED <<log, replay, closed, members, view, dropped, subscribed, start, taken, got,
                   inlineVars>>

\* close(): end every reader and forget them and the callbacks.  A publish that
\* is awaiting its callbacks goes on with the list it started from.
Close ==
    /\ ~closed
    /\ closed' = TRUE
    /\ queue' = [s \in Readers |->
                    IF s \in members THEN Offered(queue[s], CLOSED) ELSE queue[s]]
    /\ members' = {}
    /\ inline' = <<>>
    /\ UNCHANGED <<log, replay, view, dropped, done, subscribed, start, taken, got,
                   pending, causes>>

Next ==
    \/ \E e \in Event : PublishEvent(e)
    \/ \E q \in Seqs, e \in Event : NestedPublish(q, e)
    \/ \E q \in Seqs : CallbackReturns(q)
    \/ \E q \in Seqs : PublishCancelled(q)
    \/ \E c \in Callbacks : Register(c)
    \/ \E c \in Callbacks : Unregister(c)
    \/ \E s \in Readers, v \in Runs \union {All}, since \in 0 .. MaxSeq : Subscribe(s, v, since)
    \/ \E s \in Readers : SubscribeClosed(s)
    \/ \E s \in Readers : Read(s)
    \/ \E s \in Readers : CloseReader(s)
    \/ Close

\* Callbacks return: nothing in the code bounds them, so this is assumed of the
\* hooks a conversation is given.
CallbacksReturn == \A q \in Seqs : WF_vars(CallbackReturns(q))

Spec == Init /\ [][Next]_vars /\ CallbacksReturn

\* A reader that keeps reading: its task awaits get() in a loop.
FairSpec == Spec /\ \A s \in Readers : WF_vars(Read(s))
-----------------------------------------------------------------------------
(* Properties                                                              *)

\* The types of the variables, and the two bounds the constructor promises:
\* neither the ring nor a reader's queue outgrows its limit.
TypeOK ==
    /\ log \in Seq(Event) /\ Len(log) <= MaxSeq
    /\ replay \in Seq(Seqs) /\ Len(replay) <= Replay
    /\ closed \in BOOLEAN
    /\ members \subseteq subscribed /\ subscribed \subseteq Readers
    /\ view \in [Readers -> Runs \union {All}]
    /\ queue \in [Readers -> Seq(Seqs \union {CLOSED})]
    /\ \A s \in Readers : Len(queue[s]) <= Backlog
    /\ dropped \in [Readers -> Nat]
    /\ done \in [Readers -> BOOLEAN]
    /\ inline \in Seq(Callbacks)
    /\ pending \in [Seqs -> Seq(Callbacks)]
    /\ start \in [Readers -> 0 .. MaxSeq]
    /\ taken \in [Readers -> Nat]
    /\ got \in [Readers -> Seq(Seqs)]
    /\ causes \in [Seqs -> SUBSET Seqs]

\* A live reader: attached, and not over at either side.
Live(s) == s \in members /\ ~done[s]

\* Subscription._offer and _fill: what waits in a live reader's queue is the
\* newest contiguous run of events, up to the last one published, so a reader
\* that falls behind sees recent events and its gap is one interval.
NewestKept ==
    \A s \in Readers : Live(s) =>
        \A i \in 1 .. Len(queue[s]) : queue[s][i] = seq - Len(queue[s]) + i

\* Subscription.dropped: every event published since the point a live reader
\* asked for is taken, waiting, or counted, through every mix of replay,
\* overflow and filtering.
HonestLoss ==
    \A s \in Readers : Live(s) =>
        start[s] + dropped[s] + taken[s] + Len(queue[s]) = seq

\* The events a reader without a gap must have been given by now.
Owed(s) == {q \in start[s] + 1 .. start[s] + taken[s] : Keeps(s, q)}

\* "a gap is self-describing": while the channel is open, a reader whose
\* dropped is 0 was returned every event of its view and no other; that they
\* came in order, none twice, is DeliveredInOrder.
NoSilentGap ==
    \A s \in subscribed :
        ~closed /\ dropped[s] = 0 => {got[s][i] : i \in 1 .. Len(got[s])} = Owed(s)

\* No reader ever sees the stream go backwards or an event twice, not even one
\* with gaps, across replay, overflow and close.
DeliveredInOrder ==
    \A s \in Readers : \A i, j \in 1 .. Len(got[s]) : i < j => got[s][i] < got[s][j]

\* What a reader is given is in order and, unless it is told otherwise,
\* complete.
DeliveryTrue == TypeOK /\ NoSilentGap /\ DeliveredInOrder

\* A publish returns once its callbacks do: neither a reader that never reads
\* nor another task's publish, nested or not, can hold it up.
PublishReturns == \A q \in Seqs : pending[q] # <<>> ~> pending[q] = <<>>

\* A closed channel ends every reader that keeps reading, whatever its backlog.
CloseEndsReaders == \A s \in Readers : (closed /\ s \in subscribed) ~> done[s]

=============================================================================
