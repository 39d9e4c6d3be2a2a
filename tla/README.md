# A TLA+ verification of MoCode

MoCode is an asyncio agent host: a kernel (`mocode/core`) that runs the turns of
one conversation, a host (`mocode/host`) that gives a conversation its tools,
prompt and persistence through plugins, the built-in plugins (shell, MCP, code
mode, ...), and a terminal frontend (`mocode/cli`). Paths below are relative to
the repository root; `file.py:n` names a line.

The specifications model the *control* of this code: which `await` each task is
suspended at, what another task may do in the meantime, what a cancellation,
a failure or an overflow leaves behind. Text, JSON and layout are abstracted.

## 1. Inventory

| Component | State it keeps | Operations | What is hard | Modules |
|---|---|---|---|---|
| Event channel `core/channel.py` | seq, replay ring, buffered readers with backlog and filters, inline callbacks | publish, subscribe, get/take, close of a reader, inline/unsubscribe, close | nested and concurrent publishes across awaits, overflow, replay meeting live events, closing | `EventChannel` (whole) |
| Agent loop and turn `core/agent.py`, `core/turn.py` | history, system prompt, the running turn and its task, stop flags, budgets | start, cancel, `_drive`, `_iterate`, tool batches | a cancellation at any await, failures inside handlers, tasks of a batch, budgets | `AgentTurn`, `TurnContract` |
| Transcript `core/transcript.py` | (pure) | message constructors | the answer-for-every-call rule | `Transcript` |
| Tool dispatcher `core/dispatch.py` | call counters | run, mint ids, execute, program-origin calls | timeouts and cancellation in each stage, calls made by calls | `AgentTurn`, `ToolCalls` |
| Run state `core/state.py` | the fold of a run's events | apply | events folded live against events replayed, stamped with another run, or folded twice | `RunFold` (whole) |
| Provider and retry `core/provider.py`, `providers/openai.py` | attempts, delay, accumulator | `with_retry_stream`, `feed`, `build` | deadline against back-off, no retry after output, fragments in any order | `RetryStream` (whole) |
| Tool registry `core/tool.py` | tools, disabled set, schema cache, frozen interface | register, unregister, enable, disable, freeze, project, check arguments | conflicts, a stale cache, frozen against live, what a schema means | `ToolRegistry`, `ToolSchema` |
| Hooks `core/hook.py` | list of hooks | the hook points | await at every point, errors isolated | the awaits, in `AgentTurn` |
| Prompt `core/prompt.py`, `host/prompt.py` | sections, pins | render, refresh | pinned text against live text | - |
| Plugin host `host/plugin/host.py`, `context.py` | materialized flag, pending session, the request surface | build, prepare, materialize, reinstate, rebuild, close | two callers of materialize, a resume during a prepare | `PluginHost` |
| Conversation `host/conversation.py` | identity, captured plugin messages, replaying flag | new_session, load_session, save, close, aclose | check-then-await, capture during replay, teardown against a running turn | `Conversation` |
| Runtime and store `host/runtime.py`, `session.py`, `io.py` | plugin cache, session files | new_conversation, resume, save, find, delete | writes that are not atomic | `Conversation` |
| Cache protection `builtin/cache_protect.py` | what the model was last told | announce | baselines across resumes | `Conversation` |
| Shell `builtin/shell/` | jobs, output rings, done queue | start_background, read_output, wait, kill, restart, shutdown, announce | spawn awaits, jobs that end while being killed or waited for, delivery of their news | `Shell`, `OutputRing` |
| MCP `builtin/mcp/` | connection, subscription, tool names per server | connect, serve, call, reconnect, close, sync tools, read configuration | overlapping connections, late unwinding, overlapping refreshes | `McpSession`, `McpConfig` |
| Code mode `builtin/codemode/` | store, toolbox, semaphores | execute, commit, call, parallel | limits, nested gates, partial failure | `CodeMode` |
| Plugins on disk `host/plugin/install.py`, `loader.py`, `env.py` | directories, environments, `sys.modules` | install, sync, remove, discover, load | a command cut short, one module table for all projects | `PluginDisk` |
| Filesystem tools `builtin/filesystem.py` | one file, threads | read, write, edit | threads that outlive their call, two writers | `FileTools` |
| Configuration `host/config.py` | config.json | load, save, set_default_model, resolve a model | fields nobody knows, zeroes, wrong shapes | `Json`, `HostConfig` |
| Terminal `cli/render.py`, `cli/display.py` | the block on the screen, rows | begin, text, tool rows, freeze | a row addressed after its block was frozen | `Screen` |
| Commands, export and text helpers, skills, help, effort, default prompts, SDK, test doubles | | | text and layout | - |

How they interact: `Conversation` owns an `AgentLoop`, its `EventChannel` and a
`PluginHost`. `AgentLoop.start` creates a `Turn`, whose task runs `_drive`; it
awaits the host's `materialize()`, then loops over provider requests and tool
batches; everything it has to say goes through `_publish`, which folds the event
into the turn's `RunState` and publishes it on the channel; the channel awaits
the inline callbacks (the hooks, the conversation's capture) and hands the event
to the buffered readers (frontends, `Turn.subscribe` views). All of it runs on
one event loop, so code between two awaits is atomic and everything else may
happen at an await: that is the granularity of every action below.

## 2. The modules

### The loop and its channel

`EventChannel` — `core/channel.py`. `log`, `replay`, `closed`, `queue`,
`dropped`, `done`, `inline` are the fields of the code; `pending[q]` is the rest
of the callback list that publish `q` still awaits. `Publish` is everything up
to the first callback, `CallbackReturns` one turn of the loop over the
callbacks, `NestedPublish` a callback that publishes itself, `PublishCancelled`
a cancellation of the publishing task inside a callback. An event is reduced to
its run and whether it ends it, all the filters look at. `start`, `taken`, `got` and
`causes` are history variables.

`Transcript` — the messages of `core/transcript.py` reduced to role, call ids
and whether it is an interruption note, and `Replayable`, the condition a
provider puts on a history.

`TurnContract` — the abstract specification: one turn at a time, only a running
turn writes to the history, it only appends and what it appends is complete.

`AgentTurn` — `core/agent.py`, `core/turn.py` and the stages of
`core/dispatch.py`. `task` names the await `_drive` is suspended at; each action
is the code from one await to the next. `tool[k]` is the stage of the task of
the k-th call of the batch. `Turn.cancel` (`CancelTurn`) is possible in every
state; the `CancelledError` it causes is delivered by `InterruptTurn`,
`InterruptTools`, `InterruptSettled` or `InterruptFailed`, one for each place of
the code that handles it differently. The module composes with the dispatcher's
tool tasks and implements `TurnContract` under
`running <- task # "idle", history <- messages`.

`ToolCalls` — the same turn seen from its calls, with what `AgentTurn` abstracts:
the identities `core/agent.py` gives to calls that form while they stream, the
pipeline of `core/dispatch.py` for calls of either origin (a tool may call tools
on the program's behalf, and leave them running), the registry switched under it,
the fold and the terminal. It composes `ToolRegistry` (`core/tool.py`: tools,
disabled set, cache, frozen interface as a value), `RunFold` (`RunState.apply` as
a function of a fold and an event) and `Screen` (the renderer's rows and the
display's live block; what was frozen above it is how often each line is there).
`Built` is the registry that registering the tools makes. `PublishesAs` is `_publish()`: it stamps, folds into the
live state of the turn and hands the event to a reader, which may have lost its
place and fold the last events again (`Redelivered`).

`RetryStream` — one request of the loop to its provider. Time is the ticks before
the deadline and the ticks left of a back-off; `Delays` is the set of delays the
jitter allows. `Chunk` is the translation of the wire, `Fed` the accumulator,
`Identified` the loop's naming of calls, `Built` the response. What they come to is
compared with the fragments in their order of arrival (`Gathered`).

### The conversation

`PluginHost` — the request surface of `host/plugin/host.py` as a value and what
each operation makes of it. Prompt and tool interface are written by one
function and compared as one thing, so they are one version of the world; 0 is
the empty prompt the loop is assembled with. An operator each for `assemble`,
`_reinstate`, `materialize` up to its await and after it, and `rebuild`.

`Conversation` — composes the surface with `host/conversation.py`, the session
files, the capture of plugin messages, cache-protect and the turn's task.
`turn.phase` is the await of the turn (`new` before its task runs, `preparing`
in `prepare_all()`, `opening` and `ready` around `before_iteration`, `asking`,
`calling`, `finishing` and `ending` for the terminal event inside and outside
the `try`); `doing[c]` is the await of a task of the application inside
`prepare`, `new_session`, `load_session` or `aclose`; any number of tasks may call,
each of which looks at `Busy` once and goes on, as the code does. `Reopen` is a restart: it
drops everything in memory at any moment and opens a stored session as
`runtime.resume()` does, or a new one. A message is its session, its kind and,
for a notice, the version it announces. `seen` is a history variable: the last
request of the session and what exempts it from a property.

### The built-in plugins

`Shell` — the background jobs of one conversation. A process is alive, doomed
(signalled, `returncode` still `None`) or exited; a job has a collector
(`Settle`) and a watchdog (`WatchdogFires`); `doing[c]` is the await of a tool
call; `notifier` is where the announcement between two turns is (`Speak`,
`Spoken`). `OutputRing` is the ring of output lines: what it keeps within a number
of bytes, cuts and counts. `Picks` is what a condition picks from a list, for the
ring's `take_matching`, the registry's projections and the plugins that are discovered.

`McpSession` — `client.py` under `runtime.py` for one server. A connection is a task
that enters the SDK's client, holds it and leaves it (`connecting`, `serving`,
`leaving`, `gone`), so that an old one may be leaving when the next one serves; a
task calls, connects in `start()` or refreshes the tools. The SDK and the server
are external: they answer, fail, drop subscriptions and change their tools.

`CodeMode` — scripts over one store. A script has an overlay and commits it when it
returns; a call passes `gates`, the semaphores of its batches and the cap, in the
order the code takes them; a batch inside a batch unfolds into calls of its own, which
take the cap unless the outer batch has a limit. `awaited` tells what a script awaits
from what it leaves to itself (`Spawns`).

`PluginDisk` — a directory is the set of its parts, each knowing the source it came
from. `Install`, `Copies`, `Sync`, `MakesEnv`, `RemovePlugin` and `Deletes` are
the commands file by file, `CutShort` an interruption between two files, `Loads`
discovery, import and the process's cache, `Restarts` another process. Code is of one
of four kinds (`Coded`): a module with a plugin, one in which `resolve_plugin()` finds
none, one whose plugin class raises when it is made, and one that cannot be imported.
The third takes the load down (`LoadFails`): nothing is cached, the modules stay.

`FileTools` — one file and the calls of two batches. Each call is a thread; `Begins`
reads, `Opens` truncates, `Flushes` writes, `Abandoned` is the call that gives up
while its thread goes on.

### Rules

`McpConfig`, `ToolSchema` and `HostConfig` (with `Json` for values) are pure: the
merged table of servers and the exposure of a tool, the argument checker with its
coercions and defaults, config.json read and written back. `Rules` makes them a
state machine of one step, a question and its answer, so that TLC compares each
answer with a definition of what it should be. `ToolSchema` coerces by the type
list first and checks branches of a union on the same value, as the code does.

`MC*` modules hold the values of the constants, and `MCHost` puts the plugins, the file
tools and the rules into one run (`part` is the one that moves); `EventChannelProofs` (about
`EventChannel` and `RetryStream`), `AgentTurnProofs`, `ConversationProofs`, `ToolCallsProofs`, `HostProofs` (about `Shell`,
`PluginDisk` and `FileTools`), `McpSessionProofs` and `CodeModeProofs` the theorems,
and `ListFacts` what they share about lists and folds. A definition that begins with "Mutant
of" is a plausible bug of the definition after it; no specification uses it.

## 3. What the runs check

Deep properties are conjunctions of named parts; a run lists the whole.

| Run (module) | Property | Says |
|---|---|---|
| `Channel` (`MCEventChannel`) | `NewestKept` | a live reader's queue is the newest contiguous run of the stream |
| | `HonestLoss` | start + dropped + taken + waiting = seq |
| | `DeliveryTrue` | `NoSilentGap`: a reader with `dropped = 0` got exactly its view; `DeliveredInOrder` |
| | `PublishReturns`, `CloseEndsReaders` | nobody holds a publish up; close ends a reader with a full queue |
| `Turn` (`MCAgentTurn`) | `HistoryReplayable` | every call has its answer, however the batch ended |
| | `EndedTurnReported`, `NoStragglers` | an ended turn published its ending; no tool outlives its batch |
| | `EndsClean` | a second ending comes only from a late cancel, nothing is published after it, a cancelled turn says so, the prompt is restored, only a failed turn raises |
| | `ImplementsContract` | `AgentTurn` implements `TurnContract` |
| | `BudgetHolds` | no request begins beyond a budget |
| | `TurnEnds` | a cancelled turn ends though nothing answers; a turn ends when everything answers |
| `CallsSafety` (`MCToolCalls`) | `CacheTrue`, `OfferHeld` | the cached interface is the live one; a frozen one changes only by a freeze |
| | `CallsAnswered` | identities stay apart; no finished turn leaves an open call; every verdict reaches a reader |
| | `ReaderAgrees` | a reader that folds events twice holds the live state |
| | `ScreenTrue` | each notice is on the screen once and each call has its one row |
| `StreamSafety` (`MCRetryStream`) | `ResponseTrue` | one attempt's chunks, whole, each call under one identity; a failure is not swallowed |
| | `NoLateRequest`, `Settles` | nothing is asked after the deadline; the request ends |
| `ConvSafety` (`MCConversation`) | `SurfaceTrue` | no placeholder but in a race; the next request begins with the bytes of the last; the baseline is what the model was told |
| | `RecordsApart` | a file holds its own session, plugin messages once |
| | `ClosedWhole` | `aclose()` releases after the turn and saves all of it |
| `ShellJobs` (`MCShell`) | `OutputAccounted` | each line was read once, is buffered, or is counted as discarded |
| | `EndingsTrue` | a status is what happened, an end is announced once, nothing outlives a close |
| | `DoneIsFinal` | after a job is done neither its status nor its output changes |
| | `EndsReach` | a signalled job ends; an end becomes news |
| `McpSafety` (`MCMcpSession`) | `ConnectionsKept` | every connection but the session's own was told to end; a held client is open |
| | `ToolsFollow` | registered names are the applied list, and it is the server's unless a change reached nobody |
| | `DroppedEnds` | a connection told to end comes to its end |
| `CodeSafety` (`MCCodeMode`) | `OnlyFinishedStored`, `StoreWithin` | only a script that ended well stores, and within the limits |
| | `CallsContained` | the cap holds for calls at every depth, but for those inside a limited batch, which keep to its limit; what a script awaits, and what is inside that, is over when it goes on, ends or is stopped |
| | `CallsReturn` | gates never block each other for good |
| `HostSafety` (`MCHost`) | `DirectoriesWhole` | no directory mixes two sources, and only an interrupted one is half |
| | `LoadsTrue` | the most specific plugin of each name; a load adds to the module table what it loaded and modules with no plugin in them, nothing else; a plugin that cannot be imported leaves nothing and costs no other its place, unless both have one module name |
| | `CallsTrue` | what an undisturbed call answers is what happened; a call given up before it began never begins |
| | `ServersTrue`, `ArgumentsTrue`, `ConfigKept` | a broken entry costs nobody else; an argument is accepted iff its schema means it; a save keeps what it does not change |

Three runs are expected to fail; each checks one sentence of the repository.

- `McpClient` (`MCMcpSession`), `ClientEnsured`. `client.py:388` says "assert client is
  not None  # ensured above". The task of a dropped connection leaves late and sets
  `self._client = None` in its `finally` (`client.py:537`) after the reconnect has set
  it; a call that ensures the connection, which is live, then fails the assertion.
- `DiskRaises` (`MCPluginDisk`), `HostStands`. "One broken plugin must not take the host
  down" (`host.py:101`, `docs/embedding.md:76`). The plugin is made at `loader.py:347`,
  where nothing catches what its constructor raises: the project gets no plugins, and
  each later load of it fails again.
- `ServersFolded` (`MCRules`), `FirstNameKept`. Of names that fold alike "the second one is
  reported and dropped" (`config.py:5`). Within a file the second replaces the first
  (`config.py:620`, and likewise at 645 and 695).

## 4. Bounds

Deadlock checking is off in every run: a bounded model stops at its bounds, and an
idle conversation, session or shell really does wait for its user.

- `Channel`: a ring and a backlog of 2 under 3 events, so that a reader overflows, loses
  replay and reads on; one reader is enough, because readers share nothing but the
  stream; two runs so that a filter skips something; one callback, which publishes
  from inside itself and so overlaps its own publishes.
- `Turn`: a second turn so that what the first leaves behind is seen, two calls so that
  one is over while the other runs, an endpoint that repeats ids, and all three
  budgets, met exactly and in the middle of a batch (2 iterations or 2 calls, up to
  3 requests before the model answers in text).
- `CallsSafety`: two turns, two calls and one thing that happens beside them (a registry
  switch, text, notice, output); block heights of 2 and 3 rows, so that a block
  freezes with a row in it.
- `StreamSafety`: a policy without retries and one with two, deadlines of none, 0 and 2
  ticks, `Retry-After` as a number (in range and negative) and as a date; 4 chunks of 6
  kinds are enough for a call in three fragments beside another one.
- `ConvSafety`: two sessions, two versions of the world, histories of up to 3 messages
  before a turn starts, one plugin message and 5 calls, changes or restarts: a turn,
  a change, a turn with its notice, a switch and a switch back. Sessions are symmetric.
  One task calls: what two may do is the subject of the theorems of section 6.
- `ShellJobs`: two callers, two jobs of which the first prints up to 3 lines (the
  third longer than the ring's 2 bytes), a limit of one background job, two turns.
- `McpSafety` and `McpClient`: two tasks and two connections (an old one and its
  successor), two raw names that fold to one, and two changes of the list or, for the
  clients, three calls.
- `CodeSafety`: two scripts, one of which calls, 4 calls (a batch with an inner batch)
  under a cap of 1, a store that an earlier session left over the limit.
- `HostSafety` moves one of its three parts and leaves the other two at rest; the parts
  share no state. Plugins (also `DiskRaises`): 3 commands over two roots, five sources:
  two editions of one name, of which the second holds no plugin, one with a name of the
  same slug that cannot be imported, one that raises when it is made and one named like
  a built-in; a process loads for two projects. What ships no code looks like a copy cut
  short after the manifest. Files: every plan of three calls in two batches, over four
  texts in two encodings or no file. Rules: every entry of the listed shapes alone,
  tables of two own entries and a plugin's, exposure tables of two rows, nested values up
  to depth two. `ServersFolded` asks the questions about servers alone.

## 5. Fairness

The event loop runs what is ready; nothing is assumed of users, of servers, of
commands in the shell or of tool bodies beyond what the code bounds.

- `EventChannel!Spec`: inline callbacks return (`CallbacksReturn`); publish awaits them
  without a limit, so nothing less gives `PublishReturns`. `FairSpec` adds that a
  reader's task keeps calling `get()`.
- `AgentTurn!Spec`: weak fairness on the turn's own steps and on the dispatcher's.
  `CancelEnds` needs nothing of provider and tools; `EndsAnswered` has their fairness
  as its hypothesis (`Answering`). Hooks and `prepare()` are assumed to return: the
  code awaits them unguarded.
- `RetryStream!StreamSpec`: the clock ticks, the loop goes on, and a provider that was asked
  answers, fails or ends in the end (an SDK has its own timeouts).
- `Shell!Spec`: a process that was sent SIGKILL exits, collectors and the notifier
  run. Nothing of jobs nobody signalled.
- `McpSession!Spec`: a connection that is entering or leaving ends, which the SDK bounds.
- `CodeMode!Spec`: calls and gates make progress (the dispatcher's timeout) and a script
  that was woken resumes.
- The other modules are checked for safety only.

## 6. Proofs

Checked by TLAPS, for every value of the constants that satisfies the assumptions
named in the modules (`ChannelAssumption`, `TurnAssumption`, `ShellAssumption`, ...):
bounds are natural numbers, a name that must differ from others does. Two parts of
`CodeModeAssumption` say something of the code: there is at most one cap (`Cap` is
empty for a host without one), and a stored value is at least one character long,
because it is JSON.

`EventChannelProofs`. `ChannelBounds` (`TypeOK` with the limits of ring and
queues), `ReadersSeeTheNewest` (`NewestKept`), `LossIsCounted` (`HonestLoss`) and
`DeliveryIsTrue` (`DeliveryTrue`), the last two for `Replay > 0`: with no ring at all a
`since` in the past counts nothing. `StreamNeverGoesBack` needs no ring. The
inductive invariants are `TypeOK /\ RingInv` (the ring is the newest run of the
log), `AttachInv` (a member is subscribed and the channel open), `ReaderInv`
(the queue is the newest run, and the account balances), `OrderInv` (what was
given is older than what waits) and `GapInv` (what was given is what is owed). A
subscriber copies part of the ring, so what it misses can only be counted from a
ring that is contiguous and ends at `seq`.

The same module is about `RetryStream`. `ResponsesAlwaysWhole` (one attempt, the whole
text, every name and all arguments of every call, no failure swallowed) and
`RequestsNeverLate` (`NoLateRequest`) need nothing of the endpoint;
`ResponsesAlwaysTrue` (`ResponseTrue`, which says besides that no two calls share an
identity) needs `OneIdPerCall`: the code takes the ids it is given, so an endpoint that
gives one id to two calls breaks it. `MCRetryStream` assumes the same of its chunks.
`StreamInv` says how far the attempts have come in each phase (`PhaseInv`), that the
slots are what the fragments delivered so far say of each index (`Told`), and that each
index has one identity, minted ones below the counter and apart (`Known`). Both are kept
by one more fragment (`ToldGrows`, `KnownGrows`), hence by the folds over a chunk
(`FoldTracks`). That a call's place is its index is a matter of counting (`PlacesAre`):
k indices among which are 0 to k - 1 are no others.

`AgentTurnProofs`. `TypeCorrect`, `HistoryAlwaysReplayable`, `NoStragglersEver`,
`EveryTurnEndsReported`, `TurnsEndClean` (`EndsClean`), `BudgetKept` (`BudgetHolds`) and
`LoopKeepsContract` (`Spec => Contract!Spec`, step by step).
`Replayable` is not inductive by itself for concatenation: `ReplayableConcat`
shows that two complete pieces make a complete whole, `ReplayableExchange` that
what a batch appends is complete. `EndInv` relates the published endings to the
await the turn is at, which is what makes a third ending impossible; `CleanInv` says
besides when a cancelled turn has its note, when the prompt is the one it began
with, and which endings raise. The code compares the budget of calls with
the number of ids its fold knows; `BudgetInv` bounds the calls that were announced
by those in the history and in the batch, whose ids are known (`Counted`), and
an injection from calls to ids gives the rest unless an id came twice.

`ConversationProofs`, with any number of tasks that call the conversation at once:

- `RecordsKeptApart` (`RecordsApart`), as long as no two replays overlap (`OneReplay`).
  `CaptureInv` keeps apart what is captured and what is on its way to the capture,
  in memory and in every file.
- `ClosesWhole` (`ClosedWhole`), as long as no step starts a turn between the end of
  the one `aclose()` waited for and its going on (`Undisturbed`).
- `CallsInTurn` (`SurfaceTrue` and both of the above), as long as no turn starts and no
  session loads while another call is under way (`OneAtATime`); every other call may
  overlap with anything. `OneTaskEnough` is the case of one task, which `ConvSafety`
  checks and which needs no hypothesis. `SurfaceInv` says where each task stands
  (`Tasks`, `Placed`), what the history told since the baseline (`HistoryTrue`),
  which prompt is or will be in place (`PromptTrue`), and the same of every file
  (`FilesTrue`), because a file becomes the conversation when it is loaded.

The hypotheses are needed: with two callers (`Callers = {c1, c2}`, one version,
`MaxCalls = 4`) TLC finds what section 7 says of overlapping loads and of a turn that
starts before `aclose()` goes on.

`ToolCallsProofs`. `CacheAlwaysTrue` (`CacheTrue`) and `OfferAlwaysHeld`
(`OfferHeld`) from `RegistryOk`, a lemma for each operation of `ToolRegistry`.
`IdsAlwaysApart` (`IdsApart`, the first part of `CallsAnswered`): an identity is the
endpoint's or was minted, and every minted one is below its counter (`MintOk`,
`IdsKnown`), so that the next one is new.
`ReadersAlwaysAgree` (`ReaderAgrees`) from `FoldsLike`: the fold of a consumer and the
live state of each turn are alike but for what programs call (`Like`), no event's
sequence number is ahead of the channel's (`Followed`), and every consumer has passed
what was published last (`TailKnown`), so that a redelivery folds nothing.
`CallsAlwaysAnswered` (`CallsAnswered`) from that and `AnswerInv`: where a call can stand
in each phase of its turn (`ModelStands`), what its followers have of it while it runs
and when it is over (`KnownOf`), and when a live state may say that it is done. An
identity that only differs from those of its own turn is not enough: programs call
across turns, so theirs differ from all (`ProgramsApart`).
`ScreenAlwaysTrue` (`ScreenTrue`) from `ScreenInv`, a lemma for each way an event is
drawn (`DrawnOk`): the lines of the block and those above it are counted together, a row
in the block that is still owned points at its call's one pending line, and as long as no
block was frozen with a row in it each call has as many pending lines as rows
(`RowsAre`). That a verdict is drawn once needs `VerdictsOver`: the verdicts on
the screen are of calls that are over, whose identities no call at work has.
`DisabledOk` is the registry's part; that registering keeps names needs the set of
tools to be finite, which `ToolCallsAssumption` says of a program's tools.

`ListFacts`. The laws of `FoldLeft` the above needs, for any operator: a fold is the
last member of the one sequence of intermediate values (`RunExists`, `FoldIsRun`),
`FoldConcat`, `FoldAppend`, `FoldOne`, what every step keeps the fold keeps
(`FoldStays`), and a relation of list and result that one more item keeps holds of the
whole (`FoldTracks`). `Induction` derives induction over the natural numbers, for a set, from
the well-foundedness of `<`; a module that instantiates `ListFacts` substitutes its
operator for `Step`. `AscendingLists` and `PickedAre` say of a finite set of numbers and
of what is picked from a list (`Picks`) that nothing is lost, repeated or out of order.

`HostProofs`. `OutputKept` (`OutputAccounted`) for every bound of a ring and every
filter, from lemmas about the ring: a filtered read splits a list in two, and
dropping from the front comes to an end with the byte account right. `EndIsFinal`
(`DoneIsFinal`) and `EndsTold` (`EndingsTrue`): `JobsInv` is what the fields of a job can
be together, `CloseInv` who is still in a call behind a close, `NewsInv` that what was
announced and what waits to be are apart and of ended jobs.

`McpSessionProofs`. `ConnectionsAlwaysKept` (`ConnectionsKept`), inductive with the
types of its sequences and records (`Kept`). `ToolsAlwaysFollow` (`ToolsFollow`) needs
`Versions` (nobody has a list the server never offered, and who has the newest has
what it offers now) and `Synced` (until the newest list is applied, its notification
waits or a task is about to read it).

`CodeModeProofs`. `CommitsWithin` (`StoreWithin`) and `FinishedAlwaysStored`
(`OnlyFinishedStored`) from `StoreInv`. `CallsAlwaysContained` (`CallsContained`) from
`CallsInv`: a semaphore is not held more often than it counts (`SemaphoresHeld`), a
script awaits calls of its own (`WaitsOk`), among them all it did not leave to itself
(`BatchesAwaited`) and at most one batch with a limit (`OneBatch`), and a call inside a
batch has the cap's gate unless the batch has a limit (`NestedOk`).

Of the plugins on disk, `DirectoriesAlwaysWhole` (`DirectoriesWhole`) from `DiskInv`: a copy
holds what is missing of its one source (`CommandOk`), and a directory is whole,
cut or in the hands of a copy or a removal (`WholeOrNot`); a `sync` touches no part. A
plugin that is addressed by its name is on disk, which is a lemma about `Discover`.
`LoadsAlwaysTrue` (`LoadsTrue`) is about one step, from `DiskTyped`: a search looks at
every directory of every root, a root's before the next root's (`SearchedAre`, the
arithmetic of `Searched`), so that what `Discover` keeps of a name is the most specific
there is (`DiscoverFinds`); the table a load leaves is followed import by import
(`TableFrom`, `TableAt`), also of a load that a constructor took down, up to where it
stopped (`LoadFailsIs`). The theorem says of what was there before only that it stayed or
went: a place one project loaded can be removed and installed broken before another
project loads, so that "no place in the table is broken now" is not true of every
constant, though it is of the run's.
`PlacedAssumption` says that what users put on disk by hand are whole plugins.

Of the file tools, `CallsAlwaysTrue` (`CallsTrue`) from `FilesInv`: the file is as a
thread nobody disturbed has left it (`Alone`), a thread that has opened it had the
verdict to write (`Opener`), and a file that was there stays there (`There`). `EditMeant`,
`AppendMeant` and `WriteMeant` are about the text alone: what is written is what `Meant`
asks for. `FileToolsAssumption` types the calls and the texts.

Only model-checked:

- Liveness, which is out of the prover's reach: `PublishReturns`, `CloseEndsReaders`,
  `TurnEnds`, `Settles`, `CallsReturn`, `EndsReach`, `DroppedEnds`.
- `ArgumentsTrue`, `ServersTrue` and `ConfigKept`, whose operators recur over the
  structure of a value: induction over such data is out of the prover's reach.

## 7. Where code and documents part without a run, and what is not modelled

What follows was met while modelling. The models do what the code does; the
properties exempt it by name, or nothing states it.

The loop and its channel:

- A callback behind a publishing one gets the nested event first (`channel.py:250`),
  though `channel.py:236` says it is kept from it.
- A view that falls behind may lose the terminal event and stay open, though "the view
  closes on the turn's terminal event" (`turn.py:64`). Closing the channel evicts the
  oldest event of a full reader uncounted (`channel.py:184`).
- A cancel during the delivery of the final `RunFinished` publishes a second terminal
  event (`docs/ARCHITECTURE.md:287` says exactly one).
- `prepare()` that raises: the `finally` reads the unbound `prompt_at_start`
  (`agent.py:388`), so the task ends with an `UnboundLocalError`.
- The tool budget counts distinct ids (`state.py:240`), which an endpoint may use twice.
- A response whose indices do not start at 0 raises `KeyError` (`agent.py:521`); an
  endpoint that leaves the index out has its parallel calls merged into one.
- A back-off that starts before the deadline is slept past it (`provider.py:412`).
- A tool row frozen by other output is drawn again in a new block (`render.py:143`,
  `display.py:14`).

The conversation:

- `materialize()` sets its flag before it awaits (`host.py:215`): a second caller runs on
  the empty prompt, which `agent.py:343` excludes, and may leave it behind; a task of
  the application that is cancelled in there leaves no surface at all.
- `new_session()` drops the history and keeps the baseline (`conversation.py:240`
  against `cache_protect.py:25`).
- A save after `resume()` and before the first turn overwrites the stored prompt with the
  empty one (`conversation.py:404` against `session.py:42`).
- "The capture is switched off for the replay, so the republished messages are not
  re-ingested and a later save does not double them" (`conversation.py:371`), but the
  switch is one flag: of two `load_session()` whose replays overlap, which takes an
  inline callback that suspends, the first to end switches the capture on
  (`conversation.py:391`) while the other still republishes.
- "plugins are released only after the run has stopped using them"
  (`conversation.py:298`), but `aclose()` does not look again once the turn it found
  has ended: a task that runs before it may start the next turn, and the teardown
  (`conversation.py:308`) meets that one.
- `aclose()` that is itself cancelled while it waits takes that for the turn's end
  (`conversation.py:306`) and tears down under it.
- `resume()` leaves captured messages behind (`conversation.py:407`); `_pending_session` is
  never cleared; a rebuild during a turn is undone by the turn's `finally`.

The shell:

- A kill while the pipes of a job that ended by itself drain marks it killed and
  silences its news.
- The watchdog between SIGKILL and the return code overwrites "killed".
- The limit on background jobs is checked before the await that spawns
  (`session.py:327`), so two calls pass it together.

MCP:

- A second request that fails on the old connection drops the healthy new one; a start
  that times out sets ERROR on a live connection; an old connection that leaves
  after the shutdown overwrites CLOSED with ERROR if leaving
  raises (`client.py:532`, though `client.py:343` says a closed session stays closed).
- Overlapping refreshes may apply the older list last; a kept name does not get its
  new schema (`runtime.py:261`); `start()` goes on after a shutdown; a dropped stream
  loses the changes meanwhile; the end of an old connection cancels the subscription
  of the new one.
- An exact exposure nobody knows hides a pattern that matches. Of names that
  fold alike in one file `ServersTrue` leaves open which stays (`ServersFolded` asks it).
- In mocode's own files "an entry using" a plugin's token "is skipped" (`config.py:35`),
  but an HTTP entry with the token in a header's value is kept, the token expanded like
  any variable (`config.py:284`).

Code mode, plugins, files, configuration, tools:

- An inner batch of a limited batch is beyond both limits (`result.py:209`); a script can
  swallow its cancellation (`runtime.py:71`); `load()` hands out the stored object
  (`store.py:58`).
- An inner batch with a limit of its own is not in the model: a script's inner batches
  have none.
- A module without a plugin stays in `sys.modules` (`loader.py:147`), where nothing says
  whether it should; `LoadsTrue` allows for it. The `name` that a plugin's object carries
  is compared neither with its manifest nor with the reserved names (`loader.py:151`). An
  import that raises what is no `Exception` (`sys.exit()` at module level) is not caught
  and not in the model. `LoadsTrue` says of plugins whose names fold to one slug
  only that nothing else is added.
- A module name is "a name only this plugin owns, whatever other plugins ship"
  (`loader.py:295`), but "a-b" and "a.b" are both valid and have one: when the second
  cannot be imported, the module of the first, which is loaded, is forgotten
  (`OwnModule` exempts the two).
- An install cut short leaves a directory without a manifest, which the next install
  refuses (`install.py:167`) and no removal finds; a plugin named like a built-in
  installs and never loads.
- Parallel writes of one file may mix, parallel edits lose one, a call that timed out
  may still write; edit and append rewrite CRLF; edit fails on a file in another
  encoding that read shows; reading an empty file is an error.
- config.json: `write_json` is not atomic (`io.py:1` says "atomic-ish"); a number too large
  raises out of the load, as does a provider that is no object; unknown keys
  below a known one are lost on save; a save overwrites what was edited outside.
- Arguments: a type list of only unknown names rejects everything (`tool.py:170`), a
  union branch that fails leaves its defaults in the value (`tool.py:147`), and
  defaults are shared objects.

Not modelled in the modelled components, each because it would square the states of a
run or is out of the model's abstraction:

- loop: hooks that rewrite messages or cancel their own turn; `reset()`/`adopt()` during
  a turn; `derive()`; a `get()` that holds an item when its subscription closes;
  `chat()` and `stream()`, which are `start`, `subscribe`, `cancel` in a row; `select()`,
  tool policies and truncation.
- conversation: tasks cancelled inside `prepare()` or `aclose()`; `run(None)`; a seeded `new_session`; model and effort switches; an unfrozen
  interface; the cap of the capture; a file half written; `prepare()` or a render
  that raises; calls after a close; deletion and listings.
- shell: foreground commands (`BashSession.execute`) with their two ends, and process
  groups. MCP: the HTTP and stdio transports, result conversion, the status
  command. Code mode: the search facade, truncation, the import gate. Plugins: git,
  the enabled switch, `sys.path` of an environment, single-file plugins. Files:
  listings, ranges and paths.

Not modelled at all: prompt sections, commands, export and text helpers, skills, help,
effort, default prompts (text and dictionaries used by one task); key handling, input
line and layout of the terminal; the OpenAI request format; SDK re-exports and test
doubles.

## 8. What is left

1. Session files torn by a crash, and tasks of the application that are cancelled.
2. Foreground commands of the shell beside its jobs.
3. Proofs of the rules in `Rules`, if a prover can do induction over values.
