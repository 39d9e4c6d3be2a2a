----------------------------- MODULE McpSession -----------------------------
(***************************************************************************)
(* builtin/mcp/client.py under builtin/mcp/runtime.py: one configured server, *)
(* its session, the connections the session goes through and the tools it     *)
(* has registered.  A connection is a task that enters the SDK's client,      *)
(* holds it and leaves it; entering and leaving take their time, so an old    *)
(* connection may still be leaving when the next one serves.  Tasks call the  *)
(* server, connect it in start() and refresh its tools when it says they      *)
(* changed.  The server changes its tools, dies and drops subscriptions.      *)
(*                                                                         *)
(* Raw tool names are numbers in their sorted order; Fold gives the name a    *)
(* raw one folds to, and raw names may collide.                              *)
(***************************************************************************)
EXTENDS Naturals, Sequences, SequencesExt

CONSTANTS
    Tasks,      \* tasks that call, connect or refresh
    Raws,       \* raw tool names
    Fold,       \* naming.normalize() of each of them
    MaxConns,   \* bound: connections
    MaxChanges, \* bound: changes of the server's tools
    MaxWork     \* bound: calls

ASSUME McpAssumption ==
    /\ Raws \subseteq Nat
    /\ Fold \in [Raws -> Raws]
    /\ MaxConns \in Nat /\ MaxChanges \in Nat /\ MaxWork \in Nat

VARIABLES
    server,     \* external: version and names of the tools it offers
    era,        \* "modern" or "legacy", as negotiated
    conns,      \* every _Connection there was: where its task is, its signals
    session,    \* state, _conn, _client, _watch_task of the McpSession
    tasks,      \* where each task is
    tools,      \* _registered of this server: full name -> raw name
    runtime,    \* whether start() reached the server, and shutdown() ran
    work,       \* how many calls there were
    seen        \* history: lists applied and lost, assertions that failed

vars == <<server, era, conns, session, tasks, tools, runtime, work, seen>>

-----------------------------------------------------------------------------
(* naming.assign_tool_names(): of the raw names that fold together the first  *)
(* keeps the plain name, the others are told apart by their hash.            *)

Plain(raw) == [fold |-> Fold[raw], hash |-> 0]
Hashed(raw) == [fold |-> Fold[raw], hash |-> raw]
FullName(raws, raw) ==
    IF \E other \in raws : Fold[other] = Fold[raw] /\ other < raw
    THEN Hashed(raw) ELSE Plain(raw)
Assigned(raws) == {FullName(raws, raw) : raw \in raws}


\* runtime._apply_tools(): names that are gone are unregistered, newcomers are
\* registered; a name that stays keeps the tool it has.
Applied(raws) ==
    [full \in Assigned(raws) |->
        IF full \in DOMAIN tools THEN tools[full]
        ELSE CHOOSE raw \in raws : FullName(raws, raw) = full]

-----------------------------------------------------------------------------
Idle == [op |-> "idle", want |-> "none", conn |-> 0, list |-> {}, version |-> 0]
Live(c) == c \in DOMAIN conns /\ conns[c].stage # "gone"
Ready(c) == conns[c].stage \in {"serving", "leaving"}
Waiters(c) == {t \in Tasks : tasks[t].op = "waiting" /\ tasks[t].conn = c}
Current == session.conn

NewConn == [stage |-> "connecting", stop |-> FALSE, cancelled |-> FALSE,
            up |-> TRUE, news |-> FALSE]

\* start() in the background, a refresh the server asked for, ...
Starts(want) == want \in {"start", "background"}

Init ==
    /\ server \in {[version |-> 0, offers |-> raws] : raws \in SUBSET Raws}
    /\ era \in {"modern", "legacy"}
    /\ conns = <<>>
    /\ session = [state |-> "disconnected", conn |-> 0, client |-> 0, watch |-> "none"]
    /\ tasks = [t \in Tasks |-> Idle]
    /\ tools = <<>>
    /\ runtime = [started |-> FALSE, down |-> FALSE, late |-> FALSE]
    /\ work = 0
    /\ seen = [applied |-> {}, version |-> 0, missed |-> FALSE, unclient |-> FALSE]

-----------------------------------------------------------------------------
(* The server.                                                              *)

\* A change is told to whoever listens: on the legacy wire every connection
\* that is up, on the modern one the subscription of the session.
Listens(c) ==
    /\ conns[c].up /\ conns[c].stage = "serving"
    /\ era = "legacy" \/ (session.watch = "listening" /\ session.client = c)
ServerChanges ==
    /\ server.version < MaxChanges
    /\ \E raws \in SUBSET Raws \ {server.offers} :
           server' = [version |-> server.version + 1, offers |-> raws]
    /\ conns' = [c \in DOMAIN conns |-> [conns[c] EXCEPT !.news = @ \/ Listens(c)]]
    /\ seen' = [seen EXCEPT !.missed = @ \/ ~\E c \in DOMAIN conns : Listens(c)]
    /\ UNCHANGED <<era, session, tasks, tools, runtime, work>>

ServerDies(c) ==
    /\ conns[c].stage = "serving" /\ conns[c].up
    /\ conns' = [conns EXCEPT ![c].up = FALSE, ![c].news = FALSE]
    /\ seen' = [seen EXCEPT !.missed = @ \/ conns[c].news]
    /\ UNCHANGED <<server, era, session, tasks, tools, runtime, work>>

\* subscriptions.watch_tools(): a dropped stream is opened again after a
\* backoff, and nothing is replayed.
StreamDrops ==
    /\ session.watch = "listening"
    /\ session' = [session EXCEPT !.watch = "backoff"]
    /\ conns' = [c \in DOMAIN conns |-> [conns[c] EXCEPT !.news = FALSE]]
    /\ seen' = [seen EXCEPT !.missed = @ \/ \E c \in DOMAIN conns : conns[c].news]
    /\ UNCHANGED <<server, era, tasks, tools, runtime, work>>
StreamReopens ==
    /\ session.watch = "backoff"
    /\ session' = [session EXCEPT !.watch = "listening"]
    /\ UNCHANGED <<server, era, conns, tasks, tools, runtime, work, seen>>

-----------------------------------------------------------------------------
(* Tasks.  _ensure_connection() has four outcomes: refused, the verdict of    *)
(* the attempt under way, the live client, and a connection of its own.      *)

Working(t, op, want, c) ==
    tasks' = [tasks EXCEPT ![t] = [Idle EXCEPT !.op = op, !.want = want, !.conn = c]]
Over(t) == tasks' = [tasks EXCEPT ![t] = Idle]

\* A refresh that does not come to its end leaves the change unseen, and so
\* does the first registration.
Unsynced(t) == tasks[t].want \notin {"none", "call"}

\* The state start() leaves behind when its connect fails, whatever it was.
FailedState(want) == IF Starts(want) THEN "error" ELSE session.state


\* client = self._client; assert client is not None; the request is sent.
Sends(t, want) ==
    IF session.client = 0
    THEN /\ Over(t)
         /\ session' = [session EXCEPT !.state = FailedState(want)]
         /\ seen' = [seen EXCEPT !.unclient = TRUE, !.missed = @ \/ want # "call"]
    ELSE /\ Working(t, "asked", want, session.client)
         /\ UNCHANGED <<session, seen>>

\* "heard" is the connections the task found, its notification consumed.
Ensures(t, want, heard) ==
    \/ /\ session.state = "closed"
       /\ Over(t)
       /\ session' = [session EXCEPT !.state = FailedState(want)]
       /\ seen' = [seen EXCEPT !.missed = @ \/ want # "call"]
       /\ conns' = heard
    \/ /\ session.state # "closed" /\ Live(Current)
       /\ IF Ready(Current) THEN Sends(t, want)
          ELSE Working(t, "waiting", want, Current) /\ UNCHANGED <<session, seen>>
       /\ conns' = heard
    \/ /\ session.state # "closed" /\ ~Live(Current) /\ session.client # 0
       /\ Sends(t, want)
       /\ conns' = heard
    \/ /\ session.state # "closed" /\ ~Live(Current) /\ session.client = 0
       /\ Len(conns) < MaxConns
       /\ conns' = Append(heard, NewConn)
       /\ session' = [session EXCEPT !.conn = Len(conns) + 1]
       /\ Working(t, "waiting", want, Len(conns) + 1)
       /\ UNCHANGED seen

\* start() reaches the server: a bounded wait if its tools must be declared
\* in the first request, a background task otherwise.  Nothing stops the
\* loop when the runtime was shut down while it waited for another server.
Start(t) ==
    /\ ~runtime.started /\ tasks[t].op = "idle"
    /\ \E want \in {"start", "background"} : Ensures(t, want, conns)
    /\ runtime' = [runtime EXCEPT !.started = TRUE, !.late = @ \/ runtime.down]
    /\ UNCHANGED <<server, era, tools, work>>

\* call_tool(), list_resources() and the like.
Call(t) ==
    /\ runtime.started /\ ~runtime.down
    /\ tasks[t].op = "idle" /\ work < MaxWork
    /\ work' = work + 1
    /\ Ensures(t, "call", conns)
    /\ UNCHANGED <<server, era, tools, runtime>>

\* Mutant of Refresh: a change is dropped while a list is under way.
RefreshCoalesced(t) ==
    /\ tasks[t].op = "idle"
    /\ \E c \in DOMAIN conns :
           /\ conns[c].news
           /\ IF \E u \in Tasks : Unsynced(u)
              THEN /\ conns' = [conns EXCEPT ![c].news = FALSE]
                   /\ UNCHANGED <<session, tasks, seen>>
              ELSE Ensures(t, "refresh", [conns EXCEPT ![c].news = FALSE])
    /\ UNCHANGED <<server, era, tools, runtime, work>>

\* The server said its tools changed: on the legacy wire a task each, on the
\* modern one the subscription's task, which does one after the other.
Refresh(t) ==
    /\ tasks[t].op = "idle"
    /\ \E c \in DOMAIN conns :
           /\ conns[c].news
           /\ era = "modern" => \A u \in Tasks : tasks[u].want # "refresh"
           /\ Ensures(t, "refresh", [conns EXCEPT ![c].news = FALSE])
    /\ UNCHANGED <<server, era, tools, runtime, work>>

\* The server answers: a list is what it offers at that moment.
Answers(t) ==
    /\ tasks[t].op = "asked" /\ conns[tasks[t].conn].up
    /\ conns[tasks[t].conn].stage = "serving"
    /\ tasks' = [tasks EXCEPT ![t].op = "answered", ![t].list = server.offers,
                              ![t].version = server.version]
    /\ UNCHANGED <<server, era, conns, session, tools, runtime, work, seen>>

\* The answer arrives; lists are applied in the order they arrive.
Receives(t) ==
    /\ tasks[t].op = "answered"
    /\ Over(t)
    /\ IF tasks[t].want = "call" THEN UNCHANGED <<tools, seen>>
       ELSE /\ tools' = Applied(tasks[t].list)
            /\ seen' = [seen EXCEPT !.applied = tasks[t].list,
                                    !.missed = (tasks[t].version < seen.version)
                                               \/ (tasks[t].version < server.version /\ @),
                                    !.version = tasks[t].version]
    /\ UNCHANGED <<server, era, conns, session, runtime, work>>

\* Mutant of Stopping: the dropped connection is forgotten.
StoppingNothing(c) == conns
\* conn.stop.set()
Stopping(c) == [conns EXCEPT ![c].stop = TRUE]

\* _drop(): the session gives up on whatever connection it has now.
Dropped == [session EXCEPT !.conn = 0, !.client = 0, !.state = "disconnected"]

\* The request finds the connection closed.
ConnectionLost(t) ==
    /\ tasks[t].op = "asked"
    /\ ~conns[tasks[t].conn].up \/ conns[tasks[t].conn].stage # "serving"
    /\ Over(t)
    /\ conns' = IF Current # 0 THEN Stopping(Current) ELSE conns
    /\ session' = [Dropped EXCEPT !.state = IF Starts(tasks[t].want) THEN "error" ELSE @]
    /\ seen' = [seen EXCEPT !.missed = @ \/ Unsynced(t)]
    /\ UNCHANGED <<server, era, tools, runtime, work>>

\* The task's own timeout, a cancellation, or the request's timeout.  Whoever
\* gives up waiting for an attempt takes the attempt down.
GivesUp(t) ==
    /\ tasks[t].op # "idle"
    /\ tasks[t].op = "waiting" => tasks[t].want \in {"start", "call"}
    /\ Over(t)
    /\ conns' = IF tasks[t].op = "waiting" /\ Live(tasks[t].conn)
                THEN [conns EXCEPT ![tasks[t].conn].cancelled = TRUE] ELSE conns
    /\ session' = [session EXCEPT !.state = FailedState(tasks[t].want)]
    /\ seen' = [seen EXCEPT !.missed = @ \/ Unsynced(t)]
    /\ UNCHANGED <<server, era, tools, runtime, work>>

-----------------------------------------------------------------------------
(* _serve(), the task of a connection.                                      *)

\* Cancelled tasks take down the attempts they wait for.
Cancels(gone, now) ==
    /\ tasks' = [t \in Tasks |-> IF t \in gone THEN Idle ELSE tasks[t]]
    /\ conns' = [c \in DOMAIN now |->
                    [now[c] EXCEPT !.cancelled = @ \/ \E t \in gone :
                        /\ tasks[t].op = "waiting" /\ tasks[t].conn = c
                        /\ now[c].stage # "gone"]]
Refreshers == {t \in Tasks : tasks[t].want = "refresh"}
Background == {t \in Tasks : tasks[t].want = "background"}
\* _cancel_watch_task(): on the modern wire the refresh is the subscription's.
Watchers == IF era = "modern" THEN Refreshers ELSE {}

\* Unsynced by c, and by the refreshes that are cancelled.
Loses(c, gone) ==
    seen' = [seen EXCEPT !.missed = @ \/ conns[c].news \/ gone # {}]
Ended(c, stage) == [conns EXCEPT ![c].stage = stage, ![c].news = FALSE]

\* The client is negotiated, and ready is set: the tasks that waited go on to
\* their request before anything else happens.  A connection asked to stop in
\* the meantime is left at once.
Connected(c) ==
    /\ conns[c].stage = "connecting" /\ ~conns[c].cancelled
    /\ conns' = [conns EXCEPT ![c].stage = IF conns[c].stop THEN "leaving" ELSE "serving"]
    /\ session' = [session EXCEPT !.client = c, !.state = "connected",
                                  !.watch = IF era = "modern" /\ ~conns[c].stop
                                            THEN "listening" ELSE "none"]
    /\ tasks' = [t \in Tasks |-> IF t \in Waiters(c) THEN [tasks[t] EXCEPT !.op = "asked"]
                                 ELSE tasks[t]]
    /\ UNCHANGED <<server, era, tools, runtime, work, seen>>


\* The finally of _serve(): the end of any connection clears the session's
\* client, its subscription and the refreshes it holds tasks of.
Cleared == [session EXCEPT !.client = 0, !.watch = "none"]

\* The failure is the verdict of every task that waited.
ConnectFails(c) ==
    /\ conns[c].stage = "connecting"
    /\ Cancels(Refreshers \union Waiters(c), Ended(c, "gone"))
    /\ Loses(c, Refreshers \union {t \in Waiters(c) : tasks[t].want # "call"})
    /\ session' = [Cleared EXCEPT !.state =
                      IF conns[c].cancelled /\ ~\E t \in Waiters(c) : Starts(tasks[t].want)
                      THEN @ ELSE "error"]
    /\ UNCHANGED <<server, era, tools, runtime, work>>

\* Mutant of Leaves: the requests under way are waited for.
LeavesQuiet(c) ==
    /\ conns[c].stage = "serving" /\ (conns[c].stop \/ conns[c].cancelled)
    /\ ~\E t \in Tasks : tasks[t].op = "asked" /\ tasks[t].conn = c
    /\ Cancels(Watchers, Ended(c, "leaving"))
    /\ Loses(c, Watchers)
    /\ session' = [session EXCEPT !.watch = "none"]
    /\ UNCHANGED <<server, era, tools, runtime, work>>

Leaves(c) ==
    /\ conns[c].stage = "serving" /\ (conns[c].stop \/ conns[c].cancelled)
    /\ Cancels(Watchers, Ended(c, "leaving"))
    /\ Loses(c, Watchers)
    /\ session' = [session EXCEPT !.watch = "none"]
    /\ UNCHANGED <<server, era, tools, runtime, work>>

\* The child is gone, cleanly or with an error of the SDK.
Left(c) ==
    /\ conns[c].stage = "leaving"
    /\ Cancels(Refreshers, Ended(c, "gone"))
    /\ Loses(c, Refreshers)
    /\ \E state \in {session.state, "error"} :
           session' = [Cleared EXCEPT !.state = state]
    /\ UNCHANGED <<server, era, tools, runtime, work>>

\* runtime.shutdown() with session.shutdown(), from the plugin's close(): a
\* session there is, and is not closed yet, stops what it has.
Stopped(c) == [conns EXCEPT ![c].stop = TRUE,
                            ![c].cancelled = @ \/ conns[c].stage = "connecting"]
Shutdown ==
    /\ ~runtime.down
    /\ runtime' = [runtime EXCEPT !.down = TRUE]
    /\ LET closes == runtime.started /\ session.state # "closed"
       IN  /\ session' = IF closes
                         THEN [session EXCEPT !.state = "closed", !.conn = 0, !.watch = "none"]
                         ELSE session
           /\ Cancels(Background \union (IF closes THEN Watchers ELSE {}),
                      IF closes /\ Current # 0 THEN Stopped(Current) ELSE conns)
    /\ seen' = [seen EXCEPT !.missed = TRUE]
    /\ UNCHANGED <<server, era, tools, work>>

-----------------------------------------------------------------------------
ServeStep(c) == Connected(c) \/ ConnectFails(c) \/ Leaves(c) \/ Left(c)

Next ==
    \/ ServerChanges \/ StreamDrops \/ StreamReopens \/ Shutdown
    \/ \E t \in Tasks : \/ Start(t) \/ Call(t) \/ Refresh(t) \/ Answers(t)
                        \/ Receives(t) \/ ConnectionLost(t) \/ GivesUp(t)
    \/ \E c \in DOMAIN conns : ServerDies(c) \/ ServeStep(c)

\* Entering and leaving a client end: the SDK bounds both.
Spec ==
    /\ Init /\ [][Next]_vars
    /\ \A c \in 1..MaxConns : WF_vars(c \in DOMAIN conns /\ ServeStep(c))

-----------------------------------------------------------------------------
TypeOK ==
    /\ server \in [version : 0..MaxChanges, offers : SUBSET Raws]
    /\ era \in {"modern", "legacy"}
    /\ \A c \in DOMAIN conns :
           conns[c] \in [stage : {"connecting", "serving", "leaving", "gone"},
                         stop : BOOLEAN, cancelled : BOOLEAN, up : BOOLEAN, news : BOOLEAN]
    /\ session.state \in {"disconnected", "connected", "error", "closed"}
    /\ session.conn \in 0..Len(conns) /\ session.client \in 0..Len(conns)
    /\ session.watch \in {"none", "listening", "backoff"}
    /\ \A t \in Tasks :
           /\ tasks[t].op \in {"idle", "waiting", "asked", "answered"}
           /\ tasks[t].op # "idle" <=> tasks[t].conn # 0
    /\ \A full \in DOMAIN tools : tools[full] \in Raws

\* A connection the session no longer speaks through has been told to end:
\* no child process is left behind by a reconnect, a timeout or a close.
NoConnectionLeaked ==
    \A c \in DOMAIN conns :
        conns[c].stage \in {"connecting", "serving"} /\ c # session.conn
            => conns[c].stop \/ conns[c].cancelled

\* A client the session still holds has not been left.
ClientLives == session.client = 0 \/ Live(session.client)

\* The session's connections are the one it speaks through and those it has
\* told to end.
ConnectionsKept == TypeOK /\ NoConnectionLeaked /\ ClientLives

\* The names registered are those of the list applied last, whatever lists
\* were applied before it and however they collided.
NamesFollowList == DOMAIN tools = Assigned(seen.applied)

\* Once nothing is under way, the tools registered are those the server
\* offers, unless a change reached nobody or a refresh came to nothing.
SyncedUnlessMissed ==
    (runtime.started /\ ~seen.missed
        /\ (\A t \in Tasks : tasks[t].op = "idle") /\ ~\E c \in DOMAIN conns : conns[c].news)
        => DOMAIN tools = Assigned(server.offers)

\* The registered tools are the list's, and the list is the server's.
ToolsFollow == NamesFollowList /\ SyncedUnlessMissed

\* client.py:388 "assert client is not None  # ensured above": whoever ensured
\* that there is a connection finds a client.
ClientEnsured == ~seen.unclient

\* A connection that was replaced, dropped or closed comes to its end.
DroppedEnds ==
    \A c \in 1..MaxConns : (c \in DOMAIN conns /\ c # session.conn) ~> ~Live(c)

=============================================================================
