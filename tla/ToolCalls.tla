------------------------------ MODULE ToolCalls ------------------------------
(***************************************************************************)
(* A turn's tool calls from the first streamed fragment to the verdict:       *)
(* core/agent.py names the calls and runs the batch, core/dispatch.py takes   *)
(* each through its pipeline, the registry is switched under them, the events *)
(* are folded (RunFold) into the turn's live state and drawn (Screen).  Every *)
(* action ends at an await; publishing is one step with the code up to the    *)
(* next one.                                                                 *)
(***************************************************************************)
EXTENDS Naturals, Sequences, FiniteSets, ToolRegistry, RunFold, Screen

CONSTANTS
    Tools,      \* the tools there are to register: name, audience, source, edition
    Program,    \* the tool that calls tools on the program's behalf (code mode)
    MaxTurns, MaxCalls, \* bounds: turns, calls
    MaxExtras   \* bound: registry changes, texts, notices and outputs together

ASSUME ToolCallsAssumption ==
    /\ IsFiniteSet(Tools)
    /\ \A tool \in Tools : tool.audience \in {"model", "program", "both"}
    /\ MaxTurns \in Nat /\ MaxCalls \in Nat /\ MaxExtras \in Nat

VARIABLES
    endpoint,   \* external: whether its calls have ids, and name the tool at once
    registry,   \* the ToolRegistry
    turn,       \* number, phase and offered schemas of the current or last turn
    calls,      \* every call: id, origin, parent, turn, tool, phase, status
    minted,     \* _call_seq and _nested_seq of the dispatcher
    seq, tail,  \* the last sequence number, the events published last
    states,     \* the live RunState of each turn
    readers,    \* history: what a consumer of the channel folds, a turn each
    printed,    \* history: notices and verdicts drawn since the last rule
    screen,
    extras      \* how much of MaxExtras is used

vars == <<endpoint, registry, turn, calls, minted, seq, tail, states, readers, printed, screen, extras>>
channel == <<seq, tail, states, readers, printed, screen>>

-----------------------------------------------------------------------------
(* Events.  _publish() stamps the run current now, folds and publishes.       *)

Event(kind, call, value) ==
    [kind |-> kind, call |-> call, value |-> value, run |-> turn.no, seq |-> 0]

\* A consumer of a run's events folds what is delivered after its reconnect
\* again, from the last events it had.
Redelivered(fold, events) == FoldLeft(Applied, fold, events \o tail \o events)

\* "folds" is whether the events fold into the live state of their run.
PublishesAs(no, events, folds) ==
    LET of == [i \in DOMAIN events |-> [events[i] EXCEPT !.run = no]]
        stamped == [i \in DOMAIN of |-> [of[i] EXCEPT !.seq = seq + i]]
        Of(fold, t) == IF t \in DOMAIN fold THEN fold[t] ELSE Fresh
        ends == \E i \in DOMAIN of : of[i].kind \in {"run_finished", "run_failed"}
    IN  /\ seq' = seq + Len(events)
        /\ tail' = stamped
        /\ states' = [t \in 1..no |->
                         IF t = no /\ folds THEN FoldLeft(Applied, Of(states, t), of)
                         ELSE Of(states, t)]
        /\ readers' = [t \in 1..no |-> Redelivered(Of(readers, t), stamped)]
        /\ screen' = FoldLeft(Drawn, screen, of)
        /\ printed' = IF ends THEN [notices |-> 0, verdicts |-> {}]
                      ELSE [notices |-> printed.notices
                                        + Cardinality({i \in DOMAIN of : of[i].kind = "notice"}),
                            verdicts |-> printed.verdicts \union
                                {of[i].call : i \in {j \in DOMAIN of :
                                                       of[j].kind = "call_finished"}}]
Publishes(events, folds) == PublishesAs(turn.no, events, folds)

OfModel(k) == calls[k].origin = "model"
CallEvent(kind, k, value) == Event(kind, calls[k].id, value)

Init ==
    /\ endpoint \in {[ids |-> TRUE, names |-> FALSE], [ids |-> FALSE, names |-> TRUE]}
    /\ \E built \in Built(Tools) :
           registry \in {built, Freeze(built)}     \* host.py:250, as the host decided
    /\ turn = [no |-> 0, phase |-> "over", offered |-> <<>>]
    /\ calls = <<>>
    /\ minted = [seq |-> 0, nested |-> <<>>]
    /\ seq = 0 /\ tail = <<>>
    /\ states = <<>> /\ readers = <<>>
    /\ printed = [notices |-> 0, verdicts |-> {}]
    /\ screen \in {Blank(height) : height \in Heights}
    /\ extras = 0

-----------------------------------------------------------------------------
(* The registry is switched by plugins, commands and the host.               *)

Switch ==
    /\ extras < MaxExtras
    /\ extras' = extras + 1
    /\ \/ \E tool \in Tools : \/ registry' = Disable(registry, tool.name)
                              \/ registry' = Enable(registry, tool.name)
                              \/ registry' = Unregister(registry, tool.name)
                              \/ \E edition \in {0, 1} :
                                    LET new == [tool EXCEPT !.edition = edition]
                                    IN  /\ ~Conflicts(registry, new, FALSE)
                                        /\ registry' = Register(registry, new)
       \/ registry' = Freeze(registry)
    /\ registry' # registry
    /\ UNCHANGED <<endpoint, turn, calls, minted, channel>>

-----------------------------------------------------------------------------
(* The turn.                                                                *)

Current == {k \in DOMAIN calls : calls[k].turn = turn.no /\ OfModel(k)}

TurnBegins ==
    /\ turn.phase = "over" /\ turn.no < MaxTurns
    /\ turn' = [no |-> turn.no + 1, phase |-> "streaming", offered |-> AllSchemas(registry)]
    /\ registry' = Asked(registry)
    /\ PublishesAs(turn.no + 1, <<Event("run_started", NoCall, 0),
                                  Event("iteration_started", NoCall, 1)>>, TRUE)
    /\ UNCHANGED <<endpoint, calls, minted, extras>>

Says ==
    /\ turn.phase = "streaming" /\ extras < MaxExtras
    /\ extras' = extras + 1
    /\ Publishes(<<Event("text", NoCall, 0)>>, TRUE)
    /\ UNCHANGED <<endpoint, registry, turn, calls, minted>>

\* A plugin says something.
Notices ==
    /\ extras < MaxExtras
    /\ extras' = extras + 1
    /\ Publishes(<<Event("notice", NoCall, 0)>>, FALSE)
    /\ UNCHANGED <<endpoint, registry, turn, calls, minted>>

Minted == [minted EXCEPT !.seq = @ + 1]
\* mint_model_call_id(): the endpoint's id, which no other call of the turn
\* has, or one of the kernel's.
ModelId == IF endpoint.ids THEN <<"provider", Cardinality(Current) + 1>>
           ELSE <<"call", minted.seq + 1>>
NewCall(id, origin, parent, tool, phase) ==
    [id |-> id, origin |-> origin, parent |-> parent, turn |-> turn.no, tool |-> tool,
     phase |-> phase, status |-> "none", ended |-> 0]

\* The first fragment of a call.
CallForms ==
    /\ turn.phase = "streaming" /\ Len(calls) < MaxCalls
    /\ \E tool \in NamesOf(turn.offered) :
           calls' = Append(calls, NewCall(ModelId, "model", 0, tool, "forming"))
    /\ Publishes(<<Event("args", ModelId, [named |-> endpoint.names])>>, TRUE)
    /\ minted' = Minted
    /\ UNCHANGED <<endpoint, registry, turn, extras>>

\* The stream is exhausted: the calls are run at once, each up to its
\* on_tool_start hooks; arguments that do not parse skip them.
ResponseEnds ==
    /\ turn.phase = "streaming" /\ Current # {}
    /\ turn' = [turn EXCEPT !.phase = "batch"]
    /\ calls' = [k \in DOMAIN calls |->
                    IF k \in Current THEN [calls[k] EXCEPT !.phase = "starting"] ELSE calls[k]]
    /\ Publishes(<<Event("iteration_finished", NoCall, 1)>>, TRUE)
    /\ UNCHANGED <<endpoint, registry, minted, extras>>

Ending(answer, cancelled, iterations) ==
    Event("run_finished", NoCall,
          [cancelled |-> cancelled, answer |-> answer, iterations |-> iterations,
           usage |-> states[turn.no].usage + IF cancelled THEN 0 ELSE 1])

\* The batch is answered and the next response is the reply; or the first was.
Replies ==
    /\ turn.no > 0
    /\ \/ turn.phase = "streaming" /\ Current = {}
       \/ turn.phase = "batch" /\ \A k \in Current : calls[k].phase = "over"
    /\ turn' = [turn EXCEPT !.phase = "over"]
    /\ LET iteration == IF turn.phase = "batch" THEN 2 ELSE 1
           first == IF iteration = 1 THEN <<>>
                    ELSE <<Event("iteration_started", NoCall, 2)>>
       IN  Publishes(first \o <<Event("iteration_finished", NoCall, 1),
                                Ending(1, FALSE, iteration)>>, TRUE)
    /\ UNCHANGED <<endpoint, registry, calls, minted, extras>>

\* What a call called for itself.  A program may await these or leave them to
\* themselves (code mode's asyncio): a cancellation reaches what is awaited.
Made(k) == {j \in DOMAIN calls : calls[j].parent = k /\ calls[j].phase # "over"}
Halted(ks) ==
    [k \in DOMAIN calls |->
        IF k \in ks /\ calls[k].phase # "over" THEN [calls[k] EXCEPT !.phase = "halted"]
        ELSE calls[k]]

\* Turn.cancel(): every call under way is cancelled, the terminal event is
\* the cancellation's.  A provider that fails ends the turn while it streams.
CancelTurn ==
    /\ turn.phase \in {"streaming", "batch"}
    /\ turn' = [turn EXCEPT !.phase = "over"]
    /\ \E awaited \in SUBSET UNION {Made(k) : k \in {j \in Current : calls[j].phase = "running"}} :
           calls' = Halted(Current \union awaited)
    /\ Publishes(<<Ending(0, TRUE, states[turn.no].iteration)>>, TRUE)
    /\ UNCHANGED <<endpoint, registry, minted, extras>>
Fails ==
    /\ turn.phase = "streaming"
    /\ turn' = [turn EXCEPT !.phase = "over"]
    /\ calls' = Halted(Current)
    /\ Publishes(<<Event("run_failed", NoCall, 0)>>, TRUE)
    /\ UNCHANGED <<endpoint, registry, minted, extras>>

-----------------------------------------------------------------------------
(* The dispatcher's pipeline.                                               *)

At(k, phase) == calls[k].phase = phase
Audience(k) == calls[k].origin

\* A tool that is unknown, switched off or not for this audience is refused.
Allowed(k) == calls[k].tool \in Names(registry, Audience(k))

\* The on_tool_start hooks returned.  A call is refused by them, by arguments
\* that do not parse, by a name the model made up or by the registry.
Announce(k) ==
    /\ At(k, "starting")
    /\ \/ calls' = [calls EXCEPT ![k].phase = "completing", ![k].status = "refused"]
       \/ Allowed(k) /\ calls' = [calls EXCEPT ![k].phase = "running"]
    /\ Publishes(<<CallEvent("call_started", k, 0)>>, OfModel(k))
    /\ UNCHANGED <<endpoint, registry, turn, minted, extras>>

\* ctx.emit() of a running tool.
Outputs(k) ==
    /\ At(k, "running") /\ extras < MaxExtras
    /\ extras' = extras + 1
    /\ Publishes(<<CallEvent("output", k, 0)>>, OfModel(k))
    /\ UNCHANGED <<endpoint, registry, turn, calls, minted>>

\* The tool returns or raises, and may leave calls it made running; or it runs
\* out of time, which cancels those it awaits.  Without such calls it is all
\* the same.
ToolEnds(k) ==
    /\ At(k, "running")
    /\ \E awaited \in SUBSET Made(k) :
           calls' = [Halted(awaited) EXCEPT
                        ![k].status = IF awaited = {} THEN "ok" ELSE "timeout",
                        ![k].phase = "completing"]
    /\ UNCHANGED <<endpoint, registry, turn, minted, channel, extras>>

\* Mutant of Completes: a refused call is not finished.
CompletesQuietly(k) ==
    /\ At(k, "completing")
    /\ calls' = [calls EXCEPT ![k].phase = "over", ![k].ended = turn.no]
    /\ Publishes(IF calls[k].status = "refused" THEN <<>>
                 ELSE <<CallEvent("call_finished", k, calls[k].status)>>, OfModel(k))
    /\ UNCHANGED <<endpoint, registry, turn, minted, extras>>
\* on_tool_complete returned.
Completes(k) ==
    /\ At(k, "completing")
    /\ calls' = [calls EXCEPT ![k].phase = "over", ![k].ended = turn.no]
    /\ Publishes(<<CallEvent("call_finished", k, calls[k].status)>>, OfModel(k))
    /\ UNCHANGED <<endpoint, registry, turn, minted, extras>>

\* _assign_call_id() of a call of the program's own.
NextNested(parent) == 1 + IF parent \in DOMAIN minted.nested THEN minted.nested[parent] ELSE 0
MintedNested(parent) ==
    [Minted EXCEPT !.nested = [p \in DOMAIN @ \union {parent} |->
                                  IF p = parent THEN NextNested(parent) ELSE @[p]]]

ProgramCalls(parent, id, tool) ==
    /\ Len(calls) < MaxCalls
    /\ calls' = Append(calls, NewCall(id, "program", parent, tool, "starting"))
    /\ UNCHANGED <<endpoint, registry, turn, channel, extras>>
\* Nested in a running call, or of a plugin that is on its own.
CallsNested(k, tool) ==
    /\ At(k, "running") /\ calls[k].tool = Program
    /\ ProgramCalls(k, Append(calls[k].id, NextNested(calls[k].id)), tool)
    /\ minted' = MintedNested(calls[k].id)
\* (bound: it makes one call).
Alone(k) == calls[k].id[1] = "pcall"
CallsAlone(tool) ==
    /\ \A k \in DOMAIN calls : ~Alone(k)
    /\ ProgramCalls(0, <<"pcall", minted.seq + 1>>, tool)
    /\ minted' = Minted

-----------------------------------------------------------------------------
CallStep(k) ==
    \/ Announce(k) \/ Outputs(k) \/ ToolEnds(k) \/ Completes(k)
    \/ \E tool \in Tools : CallsNested(k, tool.name)

Next ==
    \/ Switch \/ TurnBegins \/ Says \/ Notices \/ CallForms \/ ResponseEnds \/ Replies
    \/ CancelTurn \/ Fails
    \/ \E k \in DOMAIN calls : CallStep(k)
    \/ \E tool \in Tools : CallsAlone(tool.name)

Spec == Init /\ [][Next]_vars

-----------------------------------------------------------------------------
Phases == {"forming", "starting", "running", "completing", "over", "halted"}
Statuses == {"none", "ok", "timeout", "refused"}
TypeOK ==
    /\ turn.no \in 0..MaxTurns /\ turn.phase \in {"over", "streaming", "batch"}
    /\ \A k \in DOMAIN calls :
           /\ calls[k].phase \in Phases /\ calls[k].status \in Statuses
           /\ calls[k].phase \in {"completing", "over"} => calls[k].status # "none"
           /\ calls[k].parent < k
    /\ screen.block <= Len(screen.lines) /\ screen.block < screen.height
    /\ registry.disabled \subseteq NamesOf(registry.tools)

\* No two calls of a turn share an identity: their events would be folded and
\* drawn as one call's.
IdsApart ==
    \A j, k \in DOMAIN calls :
        j # k /\ calls[j].turn = calls[k].turn => calls[j].id # calls[k].id

\* What is offered live is what is registered and switched on, through
\* whatever was cached when.
CacheTrue ==
    registry.frozen = None => AllSchemas(registry) = LiveSchemas(registry, "model")

\* Cache protection: once the interface is frozen only another freeze changes
\* what requests offer.
OfferHeld ==
    [][registry.frozen # None =>
          \/ AllSchemas(registry') = AllSchemas(registry)
          \/ registry'.frozen # registry.frozen
             /\ registry'.frozen = {LiveSchemas(registry, "model")}]_vars

\* A turn that was not cut off leaves no call open in its live state; and
\* whoever follows the channel has the verdict of every call that is over, but
\* for one its program left running until after its turn: its events are
\* stamped with the run that is current then.
CallsAnswered ==
    /\ IdsApart
    /\ turn.no > 0 /\ states[turn.no].status = "done" =>
           \A id \in DOMAIN states[turn.no].calls :
               states[turn.no].calls[id].status \in Statuses \ {"none"}
    /\ \A k \in DOMAIN calls :
           calls[k].phase = "over" /\ ~Alone(k) /\ calls[k].ended = calls[k].turn =>
               readers[calls[k].turn].calls[calls[k].id].status = calls[k].status

\* A consumer that folds the channel of several runs, and parts of it again
\* after a reconnect, holds the live state of each run, but for the program's
\* calls, which the live state has not.
ModelSide(f, t) ==
    [f EXCEPT !.seq = 0,
              !.calls = Restrict(@, DOMAIN @ \intersect
                                    {calls[k].id : k \in {j \in DOMAIN calls :
                                        OfModel(j) /\ calls[j].turn = t}})]
ReaderAgrees == \A t \in DOMAIN states : ModelSide(readers[t], t) = ModelSide(states[t], t)

\* A verdict never lands on a line that is not a call's.
NoticesKept == Shown(screen, "notice", NoCall) = printed.notices

\* While nothing was printed between the rows of running calls, each verdict
\* is shown once and each call has the one row.
RowsTrue ==
    screen.broken \/
    /\ \A call \in printed.verdicts : Shown(screen, "verdict", call) = 1
    /\ \A call \in DOMAIN screen.rows : Shown(screen, "pending", call) <= 1

\* Rows, verdicts and notices on the screen are those of the calls.
ScreenTrue == TypeOK /\ NoticesKept /\ RowsTrue

=============================================================================
