---------------------------- MODULE Conversation ----------------------------
(***************************************************************************)
(* host/conversation.py on top of host/plugin/host.py, host/runtime.py,     *)
(* host/session.py and the cache-protect plugin: one open conversation, the *)
(* sessions on disk, and the tasks that share it.  The turn's task prepares *)
(* the surface, appends to the history and sends requests; tasks of the     *)
(* application start and cancel turns, save, switch sessions and close; the *)
(* plugins emit messages of their own; the world the prompt is rendered     *)
(* from changes; the process dies and a session is opened again.            *)
(*                                                                         *)
(* Between two awaits nothing else runs, so an action is what a task does   *)
(* from one await to the next.  What a turn does between requests is the    *)
(* business of AgentTurn; here it is the messages it leaves behind.         *)
(***************************************************************************)
EXTENDS PluginHost, Sequences, SequencesExt

CONSTANTS
    Sessions,   \* session ids
    Callers,    \* tasks of the application
    MaxLen,     \* bound: no turn and no round of calls starts on a longer history
    MaxCalls,   \* bound: calls of the application, changes of the world, openings
    MaxEmits,   \* bound: messages the plugins emit
    Absent      \* disk: no file for this id

ASSUME ConversationAssumption ==
    /\ "turn" \notin Callers
    /\ MaxLen \in Nat
    /\ MaxCalls \in Nat
    /\ MaxEmits \in Nat

VARIABLES
    world,      \* what a render and a freeze would give now
    disk,       \* SessionStore: the record of each session, or Absent
    host,       \* the plugin host's request surface
    id,         \* Conversation.id
    hist,       \* AgentLoop.messages
    base,       \* cache-protect's state["prompt"], Nothing while it has none
    captured,   \* _plugin_messages
    replaying,  \* _replaying
    flying,     \* plugin messages published, not yet at the capture callback
    emits,      \* how many were published so far
    turn,       \* AgentLoop._turn and where its task is
    calls,      \* how many calls, changes and openings there were
    doing,      \* where each task of the application is
    closed,     \* how the conversation was torn down, and whether that saved it
    seen        \* history variable: what the model was shown of this session

\* The plugin messages of the conversation.
capture == <<captured, replaying, flying, emits>>

vars == <<world, disk, host, id, hist, base, capture, turn, calls, doing, closed, seen>>

-----------------------------------------------------------------------------
(* Histories.  A message carries the session it was said in and, if it is a *)
(* notice of cache-protect, the version of the world it announces.  A round *)
(* of tool calls enters the history at once, with its results.              *)

Message == [in: Sessions, kind: {"user", "notice", "answer", "round", "stop"},
            says: Surfaces]
Said(kind) == [in |-> id, kind |-> kind, says |-> Nothing]
Notice(version) == [in |-> id, kind |-> "notice", says |-> version]
ByUser(m) == m.kind \in {"user", "notice"}

\* What the model has been shown, saved with the session: the last request,
\* where in the history the prompt was last rebuilt, and the known ways to
\* lose track: a baseline taken over from another session (inherited); a
\* turn that begins while another task still prepares the surface, a rebuild
\* that the running turn undoes, and a save before the stored surface is back
\* (torn).
Unseen == [asked |-> FALSE, prompt |-> Nothing, messages |-> <<>>, since |-> 0,
           inherited |-> FALSE, torn |-> FALSE]

\* What the model knows of the world when it is sent this history.
Told ==
    LET news == {i \in DOMAIN hist : i > seen.since /\ hist[i].kind = "notice"}
    IN  IF news = {} THEN host.prompt
        ELSE hist[CHOOSE i \in news : \A j \in news : j <= i].says

\* What cache-protect believes the model knows.
Believed == IF base = Nothing THEN host.prompt ELSE base

-----------------------------------------------------------------------------
(* What a save writes and a load reads.                                     *)

Record == [hist |-> hist, surface |-> host.prompt, base |-> base,
           captured |-> captured,
           seen |-> [seen EXCEPT !.torn = @ \/ (seen.asked /\ host.prompt = Nothing)]]

\* A session is written whole, over what its file was.
Written(record) == [disk EXCEPT ![id] = record]
\* save(): an empty history is not written.
Saved == IF hist = <<>> THEN disk ELSE Written(Record)

\* A session recorded before surfaces were frozen.
OldRecord(s) == [hist |-> <<[in |-> s, kind |-> "user", says |-> Nothing]>>,
                 surface |-> Nothing, base |-> Nothing, captured |-> <<>>, seen |-> Unseen]

Stored == {s \in Sessions : disk[s] # Absent}

-----------------------------------------------------------------------------
NoTurn == [phase |-> "none", atStart |-> Nothing, stop |-> "no"]
Idle == [op |-> "idle", left |-> <<>>]
Busy == turn.phase # "none"
Open == [how |-> "open", saved |-> FALSE]
Free(c) == doing[c].op = "idle" /\ closed = Open

Counted == calls < MaxCalls /\ calls' = calls + 1

\* runtime.new_conversation(): nothing of the process before is left.
Opened(s, old) ==
    /\ id' = s
    /\ hist' = old.hist
    /\ base' = old.base
    /\ captured' = <<>>
    /\ host' = Assembled(old.surface)
    /\ seen' = old.seen
    /\ replaying' = FALSE
    /\ flying' = {}
    /\ turn' = NoTurn
    /\ doing' = [c \in Callers |-> Idle]
    /\ closed' = Open

Empty == [hist |-> <<>>, surface |-> Nothing, base |-> Nothing,
          captured |-> <<>>, seen |-> Unseen]

Init ==
    /\ world \in Versions
    /\ \E old \in SUBSET Sessions :
           /\ disk = [s \in Sessions |-> IF s \in old THEN OldRecord(s) ELSE Absent]
           /\ id \in Sessions \ old
    /\ hist = <<>>
    /\ base = Nothing
    /\ captured = <<>>
    /\ host = Assembled(Nothing)
    /\ seen = Unseen
    /\ replaying = FALSE
    /\ flying = {}
    /\ emits = 0
    /\ calls = 0
    /\ turn = NoTurn
    /\ doing = [c \in Callers |-> Idle]
    /\ closed = Open

\* The process is gone, or the conversation was closed, and a session is
\* opened: a stored one by runtime.resume(), or a new one.
Reopen ==
    /\ Counted
    /\ \/ \E s \in Stored : Opened(s, disk[s])
       \/ \E s \in Sessions \ Stored : Opened(s, Empty)
    /\ UNCHANGED <<world, disk, emits>>

WorldChanges ==
    /\ Counted
    /\ world' \in Versions \ {world}
    /\ UNCHANGED <<disk, host, id, hist, base, capture, turn, doing, closed,
                    seen>>
-----------------------------------------------------------------------------
(* Plugin messages: published on the channel, then at the inline callback.  *)

\* _capture_plugin_message
Capture(m) == IF replaying THEN captured ELSE Append(captured, m)

Emit ==
    /\ emits < MaxEmits
    /\ closed = Open
    /\ emits' = emits + 1
    /\ flying' = flying \union {emits'}
    /\ UNCHANGED <<calls, world, disk, host, id, hist, base, captured,
                    replaying, turn, doing, closed, seen>>

EmissionArrives ==
    /\ \E m \in flying :
           /\ flying' = flying \ {m}
           /\ captured' = Capture(m)
    /\ UNCHANGED <<calls, world, disk, host, id, hist, base, replaying, emits,
                    turn, doing, closed, seen>>

-----------------------------------------------------------------------------
(* cache-protect: say what changed since the model was last told, and take  *)
(* that as the new baseline.  Noticed is the history with the notice in it. *)

Announces(noticed) ==
    IF Believed = world
    THEN UNCHANGED <<hist, base, seen>>
    ELSE /\ hist' = noticed
         /\ base' = world
         /\ seen' = [seen EXCEPT !.inherited = FALSE]

AtTheEnd(m) == Append(hist, m)

\* _insert_before_user
BeforeUser(m) ==
    IF hist # <<>> /\ ByUser(Last(hist)) THEN InsertAt(hist, Len(hist), m) ELSE AtTheEnd(m)

-----------------------------------------------------------------------------
(* The turn's task: AgentLoop._drive and _iterate.                          *)

\* The surface is there: note the prompt, begin, and take in the user's
\* message, unless a stop was asked for before.
BeginsAfter(surface, noted) ==
    /\ host' = surface
    /\ turn' = [phase |-> IF turn.stop = "asked" THEN "ending" ELSE "opening",
                atStart |-> noted,
                stop |-> IF turn.stop = "asked" THEN "taken" ELSE turn.stop]
    /\ hist' = Append(hist, Said(IF turn.stop = "asked" THEN "stop" ELSE "user"))
    /\ seen' = [seen EXCEPT !.torn = @ \/ surface.preparing # {}]
Begins(surface) == BeginsAfter(surface, surface.prompt)

TurnStarts ==
    /\ turn.phase = "new"
    /\ LET surface == Materialized(host, "turn")
       IN  IF "turn" \in surface.preparing
           THEN /\ host' = surface
                /\ turn' = [turn EXCEPT !.phase = "preparing"]
                /\ UNCHANGED <<hist, seen>>
           ELSE Begins(surface)
    /\ UNCHANGED <<calls, world, disk, id, base, capture, doing, closed>>

\* (A prompt noted before prepare() would be a placeholder.)
TurnPrepared ==
    /\ turn.phase = "preparing"
    /\ Begins(Prepared(host, "turn", world))
    /\ UNCHANGED <<calls, world, disk, id, base, capture, doing, closed>>

At(phase) == turn.phase = phase /\ turn.stop # "sent"

\* before_iteration of the first iteration.
TurnAnnounces ==
    /\ At("opening")
    /\ Announces(BeforeUser(Notice(world)))
    /\ turn' = [turn EXCEPT !.phase = "ready"]
    /\ UNCHANGED <<calls, world, disk, host, id, capture, doing, closed>>

TurnAsks ==
    /\ At("ready")
    /\ turn' = [turn EXCEPT !.phase = "asking"]
    /\ seen' = [seen EXCEPT !.asked = TRUE, !.prompt = host.prompt, !.messages = hist]
    /\ UNCHANGED <<calls, world, disk, host, id, hist, base, capture, doing,
                    closed>>

TurnSays(kinds, phase) ==
    /\ hist' = hist \o [i \in DOMAIN kinds |-> Said(kinds[i])]
    /\ turn' = [turn EXCEPT !.phase = phase]
    /\ UNCHANGED <<calls, world, disk, host, id, base, capture, doing, closed,
                    seen>>

\* (A budget may end the turn after a round, or a deadline the request.)
TurnAnswers == At("asking") /\ TurnSays(<<"answer">>, "finishing")
TurnCalls == At("asking") /\ Len(hist) < MaxLen /\ TurnSays(<<>>, "calling")
TurnResults ==
    At("calling") /\ \E next \in {"ready", "finishing"} : TurnSays(<<"round">>, next)
TurnCut == At("asking") /\ TurnSays(<<>>, "finishing")
TurnFails == At("asking") /\ TurnSays(<<>>, "ending")

\* A cancellation is delivered: inside the try of _drive it ends the turn.
TurnInterrupted ==
    /\ turn.stop = "sent"
    /\ turn.phase \in {"opening", "ready", "asking", "calling", "finishing"}
    /\ hist' = hist \o (IF turn.phase = "calling" THEN <<Said("round")>> ELSE <<>>)
                     \o <<Said("stop")>>
    /\ turn' = [turn EXCEPT !.phase = "ending", !.stop = "taken"]
    /\ UNCHANGED <<calls, world, disk, host, id, base, capture, doing, closed,
                    seen>>

\* The finally of _drive; whoever waits for the turn goes on.
TurnEnds ==
    /\ turn.phase = "ending" \/ At("finishing")
    /\ host' = [host EXCEPT !.prompt = turn.atStart]
    /\ turn' = NoTurn
    /\ doing' = [c \in Callers |->
                    IF doing[c].op = "waiting" THEN [doing[c] EXCEPT !.op = "ended"]
                    ELSE doing[c]]
    /\ UNCHANGED <<calls, world, disk, id, hist, base, capture, closed, seen>>

TurnSteps ==
    \/ TurnStarts \/ TurnPrepared \/ TurnAnnounces \/ TurnAsks \/ TurnAnswers
    \/ TurnCalls \/ TurnResults \/ TurnCut \/ TurnFails \/ TurnInterrupted \/ TurnEnds
-----------------------------------------------------------------------------
(* The application's tasks.                                                 *)

\* AgentLoop.start
Run(c) ==
    /\ Counted
    /\ Free(c) /\ ~Busy
    /\ Len(hist) < MaxLen
    /\ turn' = [NoTurn EXCEPT !.phase = "new"]
    /\ UNCHANGED <<world, disk, host, id, hist, base, capture, doing, closed,
                    seen>>

\* Turn.cancel: before the turn has begun the stop is only recorded.
Stopped ==
    IF turn.stop # "no" \/ ~Busy THEN turn
    ELSE [turn EXCEPT !.stop =
            IF turn.phase \in {"new", "preparing"} THEN "asked" ELSE "sent"]

Cancel(c) ==
    /\ Counted
    /\ Free(c) /\ Busy
    /\ turn' = Stopped
    /\ UNCHANGED <<world, disk, host, id, hist, base, capture, doing, closed,
                    seen>>

Goes(c, op, left) == doing' = [doing EXCEPT ![c] = [op |-> op, left |-> left]]

Prepare(c) ==
    /\ Counted
    /\ Free(c)
    /\ host' = Materialized(host, c)
    /\ IF c \in host'.preparing THEN Goes(c, "preparing", <<>>) ELSE UNCHANGED doing
    /\ UNCHANGED <<world, disk, id, hist, base, capture, turn, closed, seen>>

Save(c) ==
    /\ Counted
    /\ Free(c)
    /\ disk' = Saved
    /\ UNCHANGED <<world, host, id, hist, base, capture, turn, doing, closed,
                    seen>>

\* rebuild_prompt: what was announced so far no longer counts.
Rebuild(c) ==
    /\ Counted
    /\ Free(c)
    /\ host' = Rebuilt(host, world)
    /\ base' = Nothing
    /\ seen' = [seen EXCEPT !.asked = FALSE, !.since = Len(hist), !.inherited = FALSE,
                            !.torn = @ \/ turn.phase \notin {"none", "new", "preparing"}]
    /\ UNCHANGED <<world, disk, id, hist, capture, turn, doing, closed>>

\* The call of changed() that ends new_session and load_session, up to its
\* first await; left is what is to be replayed after it.
Changes(c, surface, left) ==
    /\ host' = Materialized(surface, c)
    /\ Goes(c, IF c \in host'.preparing THEN "changing" ELSE "announcing", left)

\* new_session without seed messages.  The plugins' state stays.
NewSessionSavingLate(c) ==
    /\ Counted
    /\ Free(c) /\ ~Busy
    /\ \E s \in {s \in Sessions \ {id} : disk[s] = Absent} :
           /\ id' = s
           /\ disk' = IF hist = <<>> THEN disk ELSE [disk EXCEPT ![s] = Record]
    /\ hist' = <<>>
    /\ captured' = <<>>
    /\ seen' = [Unseen EXCEPT !.inherited = base # Nothing, !.torn = seen.torn]
    /\ Changes(c, host, <<>>)
    /\ UNCHANGED <<world, base, replaying, flying, emits, turn, closed>>
NewSession(c) ==
    /\ Counted
    /\ Free(c) /\ ~Busy
    /\ disk' = Saved
    /\ id' \in {s \in Sessions \ {id} : disk[s] = Absent}
    /\ hist' = <<>>
    /\ captured' = <<>>
    /\ seen' = [Unseen EXCEPT !.inherited = base # Nothing, !.torn = seen.torn]
    /\ Changes(c, host, <<>>)
    /\ UNCHANGED <<world, base, replaying, flying, emits, turn, closed>>

\* load_session: the record was read before the save that comes first.
LoadSessionKeepingBaseline(c) ==
    /\ Counted
    /\ Free(c) /\ ~Busy
    /\ disk' = Saved
    /\ \E s \in Stored :
           /\ id' = s
           /\ hist' = disk[s].hist
           /\ captured' = disk[s].captured
           /\ seen' = [disk[s].seen EXCEPT !.torn =
                          @ \/ (disk[s].surface = Nothing /\ seen.torn)]
           /\ Changes(c, Reinstated(host, disk[s].surface), disk[s].captured)
    /\ UNCHANGED <<world, base, replaying, flying, emits, turn, closed>>
LoadSession(c) ==
    /\ Counted
    /\ Free(c) /\ ~Busy
    /\ disk' = Saved
    /\ \E s \in Stored :
           /\ id' = s
           /\ hist' = disk[s].hist
           /\ base' = disk[s].base
           /\ captured' = disk[s].captured
           /\ seen' = [disk[s].seen EXCEPT !.torn =
                          @ \/ (disk[s].surface = Nothing /\ seen.torn)]
           /\ Changes(c, Reinstated(host, disk[s].surface), disk[s].captured)
    /\ UNCHANGED <<world, replaying, flying, emits, turn, closed>>

\* prepare_all() returns to the task that called it.
CallerPrepared(c) ==
    /\ c \in host.preparing
    /\ host' = Prepared(host, c, world)
    /\ Goes(c, IF doing[c].op = "changing" THEN "announcing" ELSE "idle", doing[c].left)
    /\ UNCHANGED <<calls, world, disk, id, hist, base, capture, turn, closed,
                    seen>>

\* ConversationChanged at cache-protect's on_event; then the replay begins.
ChangeAnnounced(c) ==
    /\ doing[c].op = "announcing"
    /\ IF closed = Open
       THEN Announces(AtTheEnd(Notice(world)))
       ELSE UNCHANGED <<hist, base, seen>>
    /\ replaying' = (replaying \/ doing[c].left # <<>>)
    /\ Goes(c, IF doing[c].left = <<>> THEN "idle" ELSE "replaying", doing[c].left)
    /\ UNCHANGED <<calls, world, disk, host, id, captured, flying, emits, turn,
                    closed>>

\* One republished message at the capture callback.
Replays(c) ==
    /\ doing[c].op = "replaying"
    /\ captured' = Capture(Head(doing[c].left))
    /\ IF Len(doing[c].left) = 1
       THEN replaying' = FALSE /\ Goes(c, "idle", <<>>)
       ELSE UNCHANGED replaying /\ Goes(c, "replaying", Tail(doing[c].left))
    /\ UNCHANGED <<calls, world, disk, host, id, hist, base, flying, emits,
                    turn, closed, seen>>

\* _teardown
TornDown(how) ==
    \E save \in BOOLEAN :
        /\ disk' = IF save THEN Saved ELSE disk
        /\ closed' = [how |-> how, saved |-> save]

\* close(): the turn is asked to stop and goes on.
Close(c) ==
    /\ Counted
    /\ Free(c)
    /\ turn' = Stopped
    /\ TornDown("close")
    /\ UNCHANGED <<world, host, id, hist, base, capture, doing, seen>>

\* aclose(): the turn's ending comes first.
ACloseAtOnce(c) ==
    /\ Counted
    /\ Free(c)
    /\ turn' = Stopped
    /\ TornDown("aclose")
    /\ UNCHANGED <<world, host, id, hist, base, capture, doing, seen>>
AClose(c) ==
    /\ Counted
    /\ Free(c)
    /\ turn' = Stopped
    /\ IF Busy
       THEN Goes(c, "waiting", <<>>) /\ UNCHANGED <<disk, closed>>
       ELSE TornDown("aclose") /\ UNCHANGED doing
    /\ UNCHANGED <<world, host, id, hist, base, capture, seen>>

ACloseReturns(c) ==
    /\ doing[c].op = "ended"
    /\ TornDown("aclose")
    /\ Goes(c, "idle", <<>>)
    /\ UNCHANGED <<calls, world, host, id, hist, base, capture, turn, seen>>

CallerGoesOn(c) == CallerPrepared(c) \/ ChangeAnnounced(c) \/ Replays(c) \/ ACloseReturns(c)

Calls(c) ==
    \/ Run(c) \/ Cancel(c) \/ Prepare(c) \/ Save(c) \/ Rebuild(c)
    \/ NewSession(c) \/ LoadSession(c) \/ Close(c) \/ AClose(c)

Next ==
    \/ TurnSteps
    \/ \E c \in Callers : Calls(c) \/ CallerGoesOn(c)
    \/ Emit \/ EmissionArrives
    \/ WorldChanges
    \/ Reopen

Spec == Init /\ [][Next]_vars

-----------------------------------------------------------------------------
\* The state stays within the types of the code.
TypeOK ==
    /\ world \in Versions
    /\ host \in HostType(Callers \union {"turn"})
    /\ \A s \in Stored : disk[s].hist \in Seq(Message) /\ disk[s].surface \in Surfaces
    /\ id \in Sessions
    /\ hist \in Seq(Message)
    /\ base \in Surfaces
    /\ captured \in Seq(1..MaxEmits)
    /\ flying \subseteq 1..MaxEmits
    /\ turn.stop \in {"no", "asked", "sent", "taken"}
    /\ replaying = (\E c \in Callers : doing[c].op = "replaying")

Begun == turn.phase \notin {"none", "new", "preparing"}
Surfaced == host.materialized /\ host.preparing = {}

\* A turn never starts from, and never restores, a placeholder, whatever ran
\* before it: prepare(), a change of session, a rebuild (agent.py:343).
NoPlaceholder == Begun => host.prompt # Nothing /\ turn.atStart # Nothing

\* It takes a turn that begins while another task is in prepare_all().
PlaceholderOnlyRaced == ~seen.torn => NoPlaceholder

\* The provider's cache survives: whatever the session is next asked begins
\* with the bytes of its last request, prompt and history, across turns,
\* notices, saves, loads and reopenings, unless the prompt was rebuilt.
PrefixKept ==
    Surfaced /\ seen.asked /\ ~seen.torn =>
        /\ host.prompt = seen.prompt
        /\ IsPrefix(seen.messages, hist)

\* cache-protect's baseline is what the model was last told, by the prompt
\* or by a notice still in its history (cache_protect.py:25): nothing is
\* announced twice and nothing is left out.
BaselineTrue ==
    Surfaced /\ ~seen.inherited /\ ~seen.torn => Believed = Told

\* The bytes a provider has cached, and what the model believes of them, hold
\* through every way a session is left and come back to.
SurfaceTrue == TypeOK /\ PlaceholderOnlyRaced /\ PrefixKept /\ BaselineTrue

\* No plugin message is recorded twice, however often it is republished.
CapturedOnce ==
    /\ IsInjective(captured)
    /\ \A s \in Stored : IsInjective(disk[s].captured)

\* A session's file holds what was said in that session and nothing else.
SessionsApart ==
    \A s \in Stored : \A i \in DOMAIN disk[s].hist : disk[s].hist[i].in = s

\* What is on disk is each session's own, once.
RecordsApart == CapturedOnce /\ SessionsApart

\* aclose() releases the plugins and closes the channel only after the turn
\* has ended, and what it saves is the whole conversation.
ClosedWhole ==
    closed.how = "aclose" =>
        /\ ~Busy
        /\ closed.saved /\ hist # <<>> => disk[id].hist = hist
=============================================================================
