----------------------------- MODULE RetryStream -----------------------------
(***************************************************************************)
(* One request of the loop to its provider: with_retry_stream() with its      *)
(* back-off and deadline (core/provider.py), the translation of the wire's    *)
(* chunks (providers/openai.py), their accumulation, and the identities the   *)
(* loop gives the calls while they stream (core/agent.py).  Text is counted;  *)
(* the arguments of a call are the sequence of their fragments.  Time goes in *)
(* ticks, those left before the deadline and those left of the sleep.        *)
(***************************************************************************)
EXTENDS Integers, Sequences, SequencesExt, Picks

CONSTANTS
    Policies,   \* the RetryPolicies a provider may carry
    Budgets,    \* ticks before the deadline; a set of at most one: {} is no deadline
    Headers,    \* what Retry-After may be: a number or something else
    Words,      \* the ids and names a provider may send; "" is none
    RawChunks,  \* what the wire may carry in one chunk
    MaxRaws     \* bound: chunks of the wire in one attempt

\* Fragments of calls, and chunks: with or without a choice; 0 is no usage and no
\* reason to finish.
Fragments == [index : Nat, id : Words, name : Words, args : Seq(Nat)]
Raws == [choice : BOOLEAN, text : Nat, calls : Seq(Fragments), usage : Nat, finish : Nat]

ASSUME RetryStreamAssumption ==
    /\ Policies \subseteq [attempts : Nat, base : Nat, cap : Nat, jitter : Nat, honor : BOOLEAN]
    /\ \A b \in Budgets : b \subseteq Nat /\ Cardinality(b) <= 1
    /\ \A header \in Headers : header.value \in Int
    /\ "" \in Words /\ RawChunks \subseteq Raws
    /\ MaxRaws \in Nat

VARIABLES
    policy,
    left,       \* ticks before the deadline, if there is one
    phase,      \* top of the loop, awaiting the first chunk, streaming, sleeping, over
    attempt,    \* failures so far
    sleep,      \* ticks left of the back-off
    raws,       \* chunks of the wire in this attempt
    acc,        \* the StreamAccumulator
    callIds,    \* index -> identity
    minted,     \* _call_seq
    outcome, response,
    delivered,  \* history: the chunks that reached the loop, with their attempt
    announced,  \* history: index -> identities the deltas carried
    requests    \* history: provider.stream() calls

streamVars == <<policy, left, phase, attempt, sleep, raws, acc, callIds, minted, outcome,
                response, delivered, announced, requests>>
loop == <<acc, callIds, minted, delivered, announced>>

Empty == [text |-> 0, slots |-> <<>>, usage |-> 0, finish |-> 0]
At(map, key, default) == IF key \in DOMAIN map THEN map[key] ELSE default
With(map, key, value) == [k \in DOMAIN map \union {key} |-> IF k = key THEN value ELSE map[k]]

StreamInit ==
    /\ policy \in Policies /\ left \in Budgets
    /\ phase = "top" /\ attempt = 0 /\ sleep = 0 /\ raws = 0
    /\ acc = Empty /\ callIds = <<>> /\ minted = 0
    /\ outcome = "none" /\ response = <<>>
    /\ delivered = <<>> /\ announced = <<>> /\ requests = 0

Late == 0 \in left
Settle(how) == phase' = "over" /\ outcome' = how

-----------------------------------------------------------------------------
(* The retry loop.                                                          *)

\* Mutant of Request: the deadline is only looked at before a sleep.
RequestLate ==
    /\ phase = "top"
    /\ IF attempt >= policy.attempts THEN Settle("empty") /\ UNCHANGED requests
       ELSE phase' = "awaiting" /\ requests' = requests + 1 /\ UNCHANGED outcome
    /\ raws' = 0
    /\ UNCHANGED <<policy, left, attempt, sleep, response, loop>>
\* A policy of no attempts at all is a stream without chunks.
Request ==
    /\ phase = "top"
    /\ \/ attempt >= policy.attempts /\ Settle("empty") /\ UNCHANGED requests
       \/ attempt < policy.attempts /\ Late /\ Settle("deadline") /\ UNCHANGED requests
       \/ /\ attempt < policy.attempts /\ ~Late
          /\ phase' = "awaiting" /\ requests' = requests + 1 /\ UNCHANGED outcome
    /\ raws' = 0
    /\ UNCHANGED <<policy, left, attempt, sleep, response, loop>>

\* _compute_delay() and _retry_after_seconds(): a date, and whatever else is no
\* number, is skipped.
AtMost(a, b) == IF a < b THEN a ELSE b
AtLeast(a, b) == IF a > b THEN a ELSE b
Delays(p, failures, header) ==
    IF p.honor /\ header.form = "number" THEN {AtLeast(header.value, 0)}
    ELSE {AtMost(p.base * 2 ^ failures + j, p.cap) : j \in 0..p.jitter}

GivesUp(retriable) == ~retriable \/ attempt >= policy.attempts - 1

Fails(retriable, header) ==
    /\ phase = "awaiting"
    /\ \/ GivesUp(retriable) /\ Settle("failed") /\ UNCHANGED sleep
       \/ ~GivesUp(retriable) /\ Late /\ Settle("deadline") /\ UNCHANGED sleep
       \/ /\ ~GivesUp(retriable) /\ ~Late
          /\ sleep' \in Delays(policy, attempt, header)
          /\ phase' = "sleeping" /\ UNCHANGED outcome
    /\ UNCHANGED <<policy, left, attempt, raws, response, requests, loop>>

\* Mutant of Wakes: sleeps on when the deadline passed meanwhile.
WakesInTime ==
    /\ phase = "sleeping" /\ sleep = 0 /\ ~Late
    /\ phase' = "top" /\ attempt' = attempt + 1
    /\ UNCHANGED <<policy, left, sleep, raws, outcome, response, requests, loop>>
Wakes ==
    /\ phase = "sleeping" /\ sleep = 0
    /\ phase' = "top" /\ attempt' = attempt + 1
    /\ UNCHANGED <<policy, left, sleep, raws, outcome, response, requests, loop>>

Tick ==
    /\ phase # "over"
    /\ left' = {AtLeast(ticks - 1, 0) : ticks \in left}
    /\ sleep' = AtLeast(sleep - 1, 0)
    /\ <<left', sleep'>> # <<left, sleep>>
    /\ UNCHANGED <<policy, phase, attempt, raws, outcome, response, requests, loop>>

-----------------------------------------------------------------------------
(* The response streams.                                                    *)

\* _to_chunk(): what carries nothing is not a chunk, what carries no choice
\* carries the usage only.
Chunk(raw) ==
    LET chunk == IF raw.choice THEN raw ELSE [raw EXCEPT !.text = 0, !.calls = <<>>, !.finish = 0]
    IN  IF chunk.text = 0 /\ chunk.calls = <<>> /\ chunk.usage = 0 /\ chunk.finish = 0
        THEN {} ELSE {chunk}

\* Mutant of Slotted: the last fragment's arguments are the call's.
SlottedLast(slot, part) ==
    [id |-> IF part.id = "" THEN slot.id ELSE part.id,
     name |-> IF part.name = "" THEN slot.name ELSE part.name,
     args |-> part.args]
Slotted(slot, part) ==
    [id |-> IF part.id = "" THEN slot.id ELSE part.id,
     name |-> IF part.name = "" THEN slot.name ELSE part.name,
     args |-> slot.args \o part.args]
NoSlot == [id |-> "", name |-> "", args |-> <<>>]
Filed(slots, part) == With(slots, part.index, Slotted(At(slots, part.index, NoSlot), part))
Fed(a, chunk) ==
    [text |-> a.text + chunk.text,
     slots |-> FoldLeft(Filed, a.slots, chunk.calls),
     usage |-> IF chunk.usage = 0 THEN a.usage ELSE chunk.usage,
     finish |-> IF chunk.finish = 0 THEN a.finish ELSE chunk.finish]

\* mint_model_call_id() at the first fragment of a slot; every fragment is
\* published under the slot's identity.
Loop == [ids |-> callIds, minted |-> minted, announced |-> announced]
Identified(l, part) ==
    LET new == part.index \notin DOMAIN l.ids
        ids == IF new THEN With(l.ids, part.index,
                                IF part.id = "" THEN <<"call", l.minted + 1>> ELSE <<"provider", part.id>>)
               ELSE l.ids
    IN  [ids |-> ids, minted |-> IF new THEN l.minted + 1 ELSE l.minted,
         announced |-> With(l.announced, part.index,
                            At(l.announced, part.index, {}) \union {ids[part.index]})]

Takes(chunk) ==
    LET l == FoldLeft(Identified, Loop, chunk.calls)
    IN  /\ acc' = Fed(acc, chunk)
        /\ callIds' = l.ids /\ minted' = l.minted /\ announced' = l.announced
        /\ delivered' = Append(delivered, [chunk |-> chunk, attempt |-> attempt])
        /\ phase' = "streaming"

Delivers(raw) ==
    /\ phase \in {"awaiting", "streaming"} /\ raws < MaxRaws
    /\ raws' = raws + 1
    /\ IF Chunk(raw) = {} THEN UNCHANGED <<phase, loop>>
       ELSE \E chunk \in Chunk(raw) : Takes(chunk)
    /\ UNCHANGED <<policy, left, attempt, sleep, outcome, response, requests>>

\* The window for another attempt has closed.
Breaks ==
    /\ phase = "streaming"
    /\ Settle("failed")
    /\ UNCHANGED <<policy, left, attempt, sleep, raws, response, requests, loop>>

\* build(): the calls in the order of their slots.  The loop looks each call's
\* identity up by its place among them: a place that is no index raises.
Slots == Ascending(DOMAIN acc.slots)
Named == \A place \in DOMAIN Slots : place - 1 \in DOMAIN callIds
Built ==
    [acc EXCEPT !.slots = [place \in DOMAIN Slots |->
        [acc.slots[Slots[place]] EXCEPT !.id = callIds[place - 1]]]]
StreamEnds ==
    /\ phase \in {"awaiting", "streaming"}
    /\ \/ Named /\ Settle("answered") /\ response' = Built
       \/ ~Named /\ Settle("unnamed") /\ UNCHANGED response
    /\ UNCHANGED <<policy, left, attempt, sleep, raws, requests, loop>>

Cancel ==
    /\ phase # "over"
    /\ Settle("cancelled")
    /\ UNCHANGED <<policy, left, attempt, sleep, raws, response, requests, loop>>

-----------------------------------------------------------------------------
Failure == \E retriable \in BOOLEAN, header \in Headers : Fails(retriable, header)
StreamNext ==
    \/ Request \/ Failure \/ Wakes \/ Tick \/ Breaks \/ StreamEnds \/ Cancel
    \/ \E raw \in RawChunks : Delivers(raw)

\* The loop goes on, the clock ticks, and a provider that was asked answers,
\* fails or ends its stream in the end (external: an SDK has its own timeouts).
StreamSpec ==
    /\ StreamInit /\ [][StreamNext]_streamVars
    /\ WF_streamVars(Request) /\ WF_streamVars(Wakes) /\ WF_streamVars(Tick)
    /\ WF_streamVars(Failure \/ Breaks \/ StreamEnds)

-----------------------------------------------------------------------------
StreamTypeOK ==
    /\ phase \in {"top", "awaiting", "streaming", "sleeping", "over"}
    /\ attempt \in 0..(policy.attempts + 1) /\ sleep \in Nat /\ requests <= policy.attempts
    /\ (phase = "over") = (outcome # "none")
    /\ DOMAIN callIds = DOMAIN acc.slots /\ DOMAIN announced = DOMAIN acc.slots

\* What reached the loop came from one attempt, the last: nothing is shown
\* twice, and a failure is not retried once something was shown.
OneSource ==
    \A i \in DOMAIN delivered : delivered[i].attempt = attempt

\* A provider that failed at every attempt is a failure, not an empty answer.
FailureShown == outcome = "empty" => requests = 0

\* What was delivered, by definition: the sum of the texts, and the fragments in
\* their order of arrival.
Plus(a, b) == a + b
Concat(a, b) == a \o b
Texts == [n \in DOMAIN delivered |-> delivered[n].chunk.text]
Gathered == FoldLeft(Concat, <<>>, [n \in DOMAIN delivered |-> delivered[n].chunk.calls])

\* What fragments say of the call of an index: the last name, and all arguments.
Naming(parts, index) == {n \in DOMAIN parts : parts[n].index = index /\ parts[n].name # ""}
SaysName(parts, index, name) ==
    \/ Naming(parts, index) = {} /\ name = ""
    \/ \E n \in Naming(parts, index) :
          name = parts[n].name /\ \A other \in Naming(parts, index) : other <= n
SaysArgs(parts, index) ==
    FoldLeft(Concat, <<>>,
             [n \in DOMAIN parts |-> IF parts[n].index = index THEN parts[n].args ELSE <<>>])

ResponseWhole ==
    outcome = "answered" =>
        /\ response.text = FoldLeft(Plus, 0, Texts)
        /\ Len(response.slots) = Cardinality(DOMAIN announced)
        /\ \A place \in DOMAIN response.slots :
              /\ SaysName(Gathered, place - 1, response.slots[place].name)
              /\ response.slots[place].args = SaysArgs(Gathered, place - 1)

\* The fragments the wire may carry, and what an endpoint promises of the ids in
\* them: one that is given is of one call.
Sent == UNION {{raw.calls[n] : n \in DOMAIN raw.calls} : raw \in RawChunks}
OneIdPerCall == \A a, b \in Sent : a.id # "" /\ a.id = b.id => a.index = b.index

\* One identity covers a call from its first fragment to its dispatch, and no
\* other call has it.
OneIdentity ==
    outcome = "answered" =>
        \A place \in DOMAIN response.slots :
            /\ announced[place - 1] = {response.slots[place].id}
            /\ \A other \in DOMAIN announced \ {place - 1} :
                  response.slots[place].id \notin announced[other]

\* One attempt's words, whole, and each call under one identity.
ResponseTrue == StreamTypeOK /\ OneSource /\ FailureShown /\ ResponseWhole /\ OneIdentity

\* The budget is the hard boundary: no request goes out after the deadline,
\* however long the sleep was.
NoLateRequest == [][requests' > requests => ~Late]_streamVars

\* Whatever the provider does, the request comes to an end.
Settles == <>(phase = "over")

=============================================================================
