------------------------------ MODULE CodeMode ------------------------------
(***************************************************************************)
(* host/plugin/builtin/codemode: the scripts of a conversation.  A script     *)
(* stores values, awaits a call or a parallel() batch, leaves calls running   *)
(* on their own, and returns, exits, fails, is timed out or cancelled.  A     *)
(* stored value is its length as JSON.  A call passes its gates, semaphores   *)
(* taken in order, and gives them back when it is over.                      *)
(***************************************************************************)
EXTENDS Naturals, Sequences, FiniteSets, FiniteSetsExt, SequencesExt, Functions

CONSTANTS
    Scripts,            \* the codemode calls of the conversation
    Keys, Sizes,        \* what scripts store under what
    MaxValue, MaxTotal, \* store_max_value_chars, store_max_total_chars
    Cap,                \* max_concurrency; a set of at most one: {} is no cap
    Limits,             \* the concurrency a batch may ask for
    Kept,               \* what an earlier session may have left in the store
    Callers,            \* bound: the scripts that make calls
    MaxCalls, MaxWrites \* bounds: calls, and writes of a script

ASSUME CodeModeAssumption ==
    /\ Sizes \subseteq Nat /\ MaxValue \in Nat /\ MaxTotal \in Nat
    /\ Cap \subseteq Nat \ {0} /\ (\A m, n \in Cap : m = n) /\ Limits \subseteq Nat \ {0}
    /\ MaxCalls \in Nat /\ MaxWrites \in Nat
    /\ "session" \notin Scripts
    /\ \A store \in Kept : store \in [DOMAIN store -> Nat \ {0}] \* JSON is never empty

VARIABLES
    backing,    \* the plugin's session state
    writer,     \* history: the script whose commit set a key
    scripts,    \* each script: phase, overlay, writes, what it awaits, result
    calls       \* the tool calls and batches under way or over

vars == <<backing, writer, scripts, calls>>

Deleted == 0
Idle == [phase |-> "idle", pending |-> <<>>, writes |-> 0, waits |-> {}, result |-> "none"]

Init ==
    /\ backing \in Kept
    /\ writer = [key \in DOMAIN backing |-> "session"]
    /\ scripts = [s \in Scripts |-> Idle]
    /\ calls = <<>>

-----------------------------------------------------------------------------
(* The store.                                                               *)

With(map, key, value) == [k \in DOMAIN map \union {key} |-> IF k = key THEN value ELSE map[k]]
Staged(pending) ==
    LET after == [k \in DOMAIN backing \union DOMAIN pending |->
                     IF k \in DOMAIN pending THEN pending[k] ELSE backing[k]]
    IN  Restrict(after, {k \in DOMAIN after : after[k] # Deleted})
Total(store) == FoldFunction(+, 0, store)

\* Mutant of Within: what was stored before is not looked at.
WithinAnew(store, pending) ==
    /\ \A k \in DOMAIN store \intersect DOMAIN pending : store[k] <= MaxValue
    /\ Total(Restrict(store, DOMAIN store \intersect DOMAIN pending)) <= MaxTotal
Within(store, pending) ==
    /\ \A k \in DOMAIN store : store[k] <= MaxValue
    /\ Total(store) <= MaxTotal

\* Mutant of Commit: a script that failed commits too.
CommitAlways(s, ok) ==
    LET pending == scripts[s].pending
        fits == Within(Staged(pending), pending)
    IN  /\ IF fits
           THEN /\ backing' = Staged(pending)
                /\ writer' = [k \in DOMAIN backing' |->
                                 IF k \in DOMAIN pending THEN s ELSE writer[k]]
           ELSE UNCHANGED <<backing, writer>>
        /\ scripts' = [scripts EXCEPT ![s].phase = "over", ![s].waits = {},
                                      ![s].result = IF ok /\ fits THEN "ok" ELSE "failed"]
\* Only a script that ended well commits, and one that does not fit has failed.
Commit(s, ok) ==
    LET pending == scripts[s].pending
        fits == Within(Staged(pending), pending)
    IN  /\ IF ok /\ fits
           THEN /\ backing' = Staged(pending)
                /\ writer' = [k \in DOMAIN backing' |->
                                 IF k \in DOMAIN pending THEN s ELSE writer[k]]
           ELSE UNCHANGED <<backing, writer>>
        /\ scripts' = [scripts EXCEPT ![s].phase = "over", ![s].waits = {},
                                      ![s].result = IF ok /\ fits THEN "ok" ELSE "failed"]

-----------------------------------------------------------------------------
(* The calls of scripts.                                                    *)

Semaphore(s, batch, size) == <<s, batch, size>>
CapGate(s) == IF Cap = {} THEN <<>> ELSE <<Semaphore(s, 0, CHOOSE n \in Cap : TRUE)>>

Open(c) == calls[c].state = "open"
Waiting(c) == Open(c) /\ calls[c].passed < Len(calls[c].gates)
NextGate(c) == calls[c].gates[calls[c].passed + 1]
Through(c) == Open(c) /\ ~Waiting(c)
Running(c) == Through(c) /\ calls[c].kind = "tool"
Holders(gate) ==
    {h \in (DOMAIN calls) \X (1..2) :
        Open(h[1]) /\ h[2] <= calls[h[1]].passed /\ calls[h[1]].gates[h[2]] = gate}

NewCall(s, kind, gates, under, awaited) ==
    [script |-> s, kind |-> kind, gates |-> gates, passed |-> 0, state |-> "open",
     under |-> under, awaited |-> awaited]

\* Mutant of GatesOf: the call takes the batch's semaphore again.
GatesOfTwice(s, batch, limit) ==
    IF limit = {} THEN CapGate(s)
    ELSE <<Semaphore(s, batch, CHOOSE n \in limit : TRUE), Semaphore(s, batch, CHOOSE n \in limit : TRUE)>>
\* The batch's limit instead of the cap: what the box reads from the context.
GatesOf(s, batch, limit) ==
    IF limit = {} THEN CapGate(s) ELSE <<Semaphore(s, batch, CHOOSE n \in limit : TRUE)>>

Children(c) == {d \in DOMAIN calls : calls[d].under = c}
Folded(c) == Open(c) /\ calls[c].kind = "inner" /\ Children(c) = {}
Fits(n) == Len(calls) + n + 2 * Cardinality({c \in DOMAIN calls : Folded(c)}) <= MaxCalls
Awaits(s, new) ==
    /\ calls' = calls \o new
    /\ scripts' = [scripts EXCEPT ![s].phase = "awaiting",
                                  ![s].waits = Len(calls) + 1..Len(calls) + Len(new)]
    /\ UNCHANGED <<backing, writer>>

At(s, phase) == scripts[s].phase = phase

Begin(s) ==
    /\ At(s, "idle")
    /\ scripts' = [scripts EXCEPT ![s].phase = "running"]
    /\ UNCHANGED <<backing, writer, calls>>

Store(s, key, size) ==
    /\ At(s, "running") /\ scripts[s].writes < MaxWrites
    /\ scripts' = [scripts EXCEPT ![s].pending = With(@, key, size), ![s].writes = @ + 1]
    /\ UNCHANGED <<backing, writer, calls>>

\* load() hands out the stored object itself: a list a script appends to.
Appends(s, key) ==
    /\ At(s, "running") /\ scripts[s].writes < MaxWrites
    /\ key \in DOMAIN backing \ DOMAIN scripts[s].pending
    /\ backing' = [backing EXCEPT ![key] = @ + 1]
    /\ scripts' = [scripts EXCEPT ![s].writes = @ + 1]
    /\ UNCHANGED <<writer, calls>>

\* One call, awaited or left to itself (asyncio is the script's to use).
AwaitsCall(s) ==
    /\ At(s, "running") /\ Fits(1)
    /\ Awaits(s, <<NewCall(s, "tool", CapGate(s), 0, TRUE)>>)
Spawns(s) ==
    /\ At(s, "running") /\ Fits(1)
    /\ calls' = Append(calls, NewCall(s, "tool", CapGate(s), 0, FALSE))
    /\ UNCHANGED <<backing, writer, scripts>>

\* parallel(): two calls, or one and a batch of its own.
AwaitsBatch(s, limit, second) ==
    /\ At(s, "running") /\ Fits(IF second = "inner" THEN 4 ELSE 2)
    /\ LET gates == GatesOf(s, Len(calls) + 1, limit)
           inner == IF limit = {} THEN <<>> ELSE gates
       IN  Awaits(s, <<NewCall(s, "tool", gates, 0, TRUE),
                       NewCall(s, second, IF second = "tool" THEN gates ELSE inner, 0, TRUE)>>)
Unfolds(c) ==
    /\ Through(c) /\ Folded(c)
    /\ LET s == calls[c].script
           call == NewCall(s, "tool", IF calls[c].gates = <<>> THEN CapGate(s) ELSE <<>>, c, TRUE)
       IN  calls' = calls \o <<call, call>>
    /\ UNCHANGED <<backing, writer, scripts>>

\* Mutant of Passes: one more than the semaphore's count.
PassesOver(c) ==
    /\ Waiting(c)
    /\ Cardinality(Holders(NextGate(c))) <= NextGate(c)[3]
    /\ \A d \in 1..c - 1 : Waiting(d) => NextGate(d) # NextGate(c)
    /\ calls' = [calls EXCEPT ![c].passed = @ + 1]
    /\ UNCHANGED <<backing, writer, scripts>>
\* Semaphores wake their waiters in order.
Passes(c) ==
    /\ Waiting(c)
    /\ Cardinality(Holders(NextGate(c))) < NextGate(c)[3]
    /\ \A d \in 1..c - 1 : Waiting(d) => NextGate(d) # NextGate(c)
    /\ calls' = [calls EXCEPT ![c].passed = @ + 1]
    /\ UNCHANGED <<backing, writer, scripts>>
CallEnds(c) ==
    /\ \/ Running(c)
       \/ Through(c) /\ Children(c) # {} /\ \A d \in Children(c) : ~Open(d)
    /\ calls' = [calls EXCEPT ![c].state = "over"]
    /\ UNCHANGED <<backing, writer, scripts>>

Resumes(s) ==
    /\ At(s, "awaiting") /\ \A c \in scripts[s].waits : ~Open(c)
    /\ scripts' = [scripts EXCEPT ![s].phase = "running", ![s].waits = {}]
    /\ UNCHANGED <<backing, writer, calls>>

-----------------------------------------------------------------------------
(* The end of a script.                                                     *)

Returns(s) == At(s, "running") /\ Commit(s, TRUE) /\ UNCHANGED calls
Raises(s) == At(s, "running") /\ Commit(s, FALSE) /\ UNCHANGED calls

\* Mutant of Halt: the await is given up, and what it waits for goes on.
HaltNone(s) == UNCHANGED calls
\* A cancelled await cancels what it waits for.
Halt(s) ==
    calls' = [c \in DOMAIN calls |->
                 IF c \in scripts[s].waits \union UNION {Children(d) : d \in scripts[s].waits}
                    /\ Open(c)
                 THEN [calls[c] EXCEPT !.state = "over"] ELSE calls[c]]
Over(s, result) ==
    scripts' = [scripts EXCEPT ![s].phase = "over", ![s].waits = {}, ![s].result = result]

\* The plugin's own deadline, or the turn is cancelled: the task is.  The script
\* unwinds, or catches what it is told (a bare except will do) and goes on.
Stopped(s) ==
    /\ scripts[s].phase \in {"running", "awaiting"}
    /\ Halt(s)
    /\ \/ Over(s, "stopped")
       \/ scripts' = [scripts EXCEPT ![s].phase = "running", ![s].waits = {}]
    /\ UNCHANGED <<backing, writer>>

-----------------------------------------------------------------------------
Limit == {{}} \union {{n} : n \in Limits}
ScriptStep(s) ==
    \/ Begin(s)
    \/ \E key \in Keys, size \in Sizes \union {Deleted} : Store(s, key, size)
    \/ /\ s \in Callers
       /\ \/ AwaitsCall(s) \/ Spawns(s)
          \/ \E limit \in Limit, second \in {"tool", "inner"} : AwaitsBatch(s, limit, second)
    \/ \E key \in Keys : Appends(s, key)
    \/ Returns(s) \/ Raises(s) \/ Stopped(s)
Progress == \E c \in DOMAIN calls : Passes(c) \/ CallEnds(c) \/ Unfolds(c)
Next == Progress \/ \E s \in Scripts : ScriptStep(s) \/ Resumes(s)

\* Tools end (the dispatcher's timeout sees to it) and woken tasks run.
Spec == Init /\ [][Next]_vars /\ WF_vars(Progress) /\ \A s \in Scripts : WF_vars(Resumes(s))

-----------------------------------------------------------------------------
TypeOK ==
    /\ \A k \in DOMAIN backing : backing[k] > 0
    /\ DOMAIN writer = DOMAIN backing
    /\ \A s \in Scripts :
           /\ scripts[s].phase \in {"idle", "running", "awaiting", "over"}
           /\ (scripts[s].phase = "over") = (scripts[s].result # "none")
           /\ scripts[s].waits # {} => At(s, "awaiting")
    /\ \A c \in DOMAIN calls : calls[c].passed <= Len(calls[c].gates)

\* What scripts put under a key is there because one that ended well put it:
\* the overlay of one that failed, timed out or was cancelled leaves nothing,
\* whatever scripts run beside it.
OnlyFinishedStored ==
    TypeOK /\ \A k \in DOMAIN backing : writer[k] \in Scripts => scripts[writer[k]].result = "ok"

\* A script that commits leaves a store within its limits as a whole, though
\* it was not before (the limits are the configuration's, the content a
\* session's, and a value may have grown where it stands).
Ends(s) == ~At(s, "over") /\ At(s, "over")'
StoreWithin ==
    [][\A s \in Scripts : Ends(s) /\ scripts'[s].result = "ok" =>
          Total(backing') <= MaxTotal /\ \A k \in DOMAIN backing' : backing'[k] <= MaxValue]_vars

\* No more tool calls of a script run than the cap, those of a batch without a
\* limit in a batch without one among them, and no more of the one batch that
\* asked for its own limit than that.  The calls of a batch inside a limited
\* batch are beyond both: they find the limit in their context and take nothing.
Limited(c) == calls[c].gates # <<>> /\ calls[c].gates[1][2] > 0
Inside(c) == calls[c].under > 0 /\ Limited(calls[c].under)
CapHeld ==
    \A s \in Scripts, n \in Cap :
        LET run == {c \in DOMAIN calls : calls[c].script = s /\ Running(c)}
        IN  /\ Cardinality({c \in run : ~Limited(c) /\ ~Inside(c)}) <= n
            /\ \A c \in run : Limited(c) =>
                  Cardinality({d \in run : Limited(d)}) <= calls[c].gates[1][3]

\* What a script awaits is not open any more once the script goes on, ends or is
\* stopped: neither the call or the batch that it awaits itself nor a call of a
\* batch inside that.  (Only what a script left to itself may outlive it.)
Root(c) == IF calls[c].under > 0 THEN calls[c].under ELSE c
AwaitedEnd ==
    \A c \in DOMAIN calls :
        calls[c].awaited /\ Open(c) =>
            LET s == calls[c].script
            IN  At(s, "awaiting") /\ Root(c) \in scripts[s].waits /\ Open(Root(c))

\* A script's calls keep to their gates and to the script.
CallsContained == CapHeld /\ AwaitedEnd

\* Semaphores, batches and the cap never hold each other up.
CallsReturn == \A s \in Scripts : At(s, "awaiting") ~> ~At(s, "awaiting")

=============================================================================
