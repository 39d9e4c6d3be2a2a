------------------------------ MODULE AgentTurn ------------------------------
(***************************************************************************)
(* core/agent.py and core/turn.py: the turns of one conversation.  A turn  *)
(* is an asyncio task that runs _drive; "task" names the await it is       *)
(* suspended at and each action is the code from that await to the next.   *)
(* The tool calls of one response are tasks of their own.  Turn.cancel may *)
(* come from any other task between two steps, and is delivered as a       *)
(* CancelledError at the await the turn is suspended at.                   *)
(*                                                                         *)
(*   new -> prepare -> runStarted -> [ beforeIteration -> iterationStarted *)
(*     -> beforeRequest -> stream -> afterResponse -> iterationFinished    *)
(*     -> tools -> settling ]* -> finished -> idle                         *)
(*   unwinding, cancelled, failed and prepareFailed are the other endings. *)
(***************************************************************************)
EXTENDS Transcript, FiniteSets

CONSTANTS
    MaxIterations,  \* AgentConfig.max_iterations, 0 = unlimited
    MaxToolCalls,   \* AgentConfig.max_tool_calls, 0 = unlimited
    TimeBudget,     \* whether AgentConfig.max_turn_seconds > 0
    ProviderIds,    \* call ids an endpoint may send; it may always send none
    MaxTurns,       \* bound: turns started
    MaxRequests,    \* bound: from this request of a turn on, the model answers in text
    MaxBatch        \* bound: tool calls in one response

ASSUME TurnAssumption ==
    /\ MaxIterations \in Nat
    /\ MaxToolCalls \in Nat
    /\ TimeBudget \in BOOLEAN
    /\ ProviderIds \subseteq Nat
    /\ MaxTurns \in Nat
    /\ MaxRequests \in Nat
    /\ MaxBatch \in Nat

Turns == 1 .. MaxTurns
Slots == 1 .. MaxBatch

VARIABLES
    \* AgentLoop
    messages,       \* messages
    prompt,         \* system_prompt: "placeholder", "surface" or a hook's "rewrite"
    callSeq,        \* ToolDispatcher._call_seq
    turn,           \* how many turns were started; _turn is the last of them
    \* Turn
    task,           \* where its task is; "idle" when it is done
    started,        \* _started
    stopped,        \* _stopped
    stopRequested,  \* _stop_requested
    cancelled,      \* cancelled
    known,          \* the keys of state.tool_calls
    \* _drive and _iterate
    cancelPending,  \* task.cancel() was called and not delivered yet
    userInput,      \* whether start() was given an input
    baseline,       \* prompt_at_start
    iteration,      \* iteration
    batch,          \* the ids of the response's tool calls, in order
    tool,           \* the task of each call of the batch
    \* history
    terminals,      \* per turn, its terminal events: a stop_reason or "failed"
    after,          \* kinds of event the turn published after a terminal one
    startedCalls,   \* calls announced by ToolCallStarted this turn
    raised          \* turns whose task ended with an exception

loopVars == <<messages, prompt, callSeq, turn>>
turnVars == <<started, stopped, stopRequested, cancelled, known>>
frameVars == <<cancelPending, userInput, baseline, iteration, batch, tool>>
historyVars == <<terminals, after, startedCalls, raised>>
vars == <<loopVars, task, turnVars, frameVars, historyVars>>

\* A tool call's task: not run yet or in on_tool_start; in the tool's body; in
\* on_tool_complete; the two ways a cancellation is under way; over.
ToolStages ==
    {"none", "starting", "running", "completing", "cancelling", "interrupted", "done"}

Init ==
    /\ messages = <<>>
    /\ prompt = "placeholder"
    /\ callSeq = 0
    /\ turn = 0
    /\ task = "idle"
    /\ started = FALSE
    /\ stopped = FALSE
    /\ stopRequested = FALSE
    /\ cancelled = FALSE
    /\ known = {}
    /\ cancelPending = FALSE
    /\ userInput = FALSE
    /\ baseline = "placeholder"
    /\ iteration = 0
    /\ batch = <<>>
    /\ tool = [k \in Slots |-> "none"]
    /\ terminals = [t \in Turns |-> <<>>]
    /\ after = {}
    /\ startedCalls = 0
    /\ raised = {}

-----------------------------------------------------------------------------
(* What the steps are made of                                              *)

\* _publish, seen from after the turn's first terminal event.
Say(kind) ==
    after' = IF turn > 0 /\ terminals[turn] # <<>> THEN after \union {kind} ELSE after

\* Publish the turn's terminal event.
SayTerminal(kind, outcome) ==
    /\ terminals' = [terminals EXCEPT ![turn] = Append(@, outcome)]
    /\ Say(kind)

\* The budget checks at the top of the loop: the reason to stop, "" to go on.
\* The wall clock may have run out at any of them.
CutCountsOneMore ==
    IF MaxIterations > 0 /\ iteration > MaxIterations THEN {"max_iterations"}
    ELSE IF MaxToolCalls > 0 /\ Cardinality(known) > MaxToolCalls THEN {"max_tool_calls"}
    ELSE {""}
Cut ==
    IF MaxIterations > 0 /\ iteration >= MaxIterations THEN {"max_iterations"}
    ELSE IF MaxToolCalls > 0 /\ Cardinality(known) >= MaxToolCalls THEN {"max_tool_calls"}
    ELSE IF TimeBudget THEN {"time_budget", ""} ELSE {""}

\* The top of _iterate's loop: a budget ends the turn, or the next iteration
\* begins with its before_iteration hooks.
LoopTop ==
    \E why \in Cut :
        IF why = ""
        THEN /\ task' = "beforeIteration"
             /\ iteration' = iteration + 1
             /\ UNCHANGED <<terminals, after>>
        ELSE /\ task' = "finished"
             /\ SayTerminal("RunFinished", why)
             /\ UNCHANGED iteration

\* _drive's except CancelledError: what the interrupted step leaves in the
\* history, the note, and the cancelled ending.
EndCancelledUnsaid(left) ==
    /\ messages' = messages \o left \o <<Interrupted>>
    /\ cancelled' = TRUE
    /\ task' = "cancelled"
    /\ UNCHANGED <<terminals, after>>
EndCancelledNoteFirst(left) ==
    /\ messages' = messages \o <<Interrupted>> \o left
    /\ cancelled' = TRUE
    /\ SayTerminal("RunFinished", "cancelled")
    /\ task' = "cancelled"
EndCancelled(left) ==
    /\ messages' = messages \o left \o <<Interrupted>>
    /\ cancelled' = TRUE
    /\ SayTerminal("RunFinished", "cancelled")
    /\ task' = "cancelled"

\* _drive's except Exception.
EndFailed ==
    /\ SayTerminal("RunFailed", "failed")
    /\ task' = "failed"

-----------------------------------------------------------------------------
(* Starting and stopping                                                   *)

\* AgentLoop.start: refused while busy; a new Turn schedules _drive.
StartWhileBusy(input) ==
    /\ turn < MaxTurns
    /\ turn' = turn + 1
    /\ task' = "new"
    /\ userInput' = input
    /\ started' = FALSE /\ stopped' = FALSE /\ stopRequested' = FALSE
    /\ cancelled' = FALSE /\ cancelPending' = FALSE
    /\ known' = {} /\ startedCalls' = 0 /\ after' = {}
    /\ UNCHANGED <<messages, prompt, callSeq, baseline, iteration, batch, tool,
                   terminals, raised>>
Start(input) ==
    /\ task = "idle"
    /\ turn < MaxTurns
    /\ turn' = turn + 1
    /\ task' = "new"
    /\ userInput' = input
    /\ started' = FALSE /\ stopped' = FALSE /\ stopRequested' = FALSE
    /\ cancelled' = FALSE /\ cancelPending' = FALSE
    /\ known' = {} /\ startedCalls' = 0 /\ after' = {}
    /\ UNCHANGED <<messages, prompt, callSeq, baseline, iteration, batch, tool,
                   terminals, raised>>

\* Turn.cancel: a turn that has not begun is told when it does.
CancelTurnForgotten ==
    /\ task # "idle" /\ ~stopped
    /\ stopped' = TRUE
    /\ cancelPending' = started
    /\ UNCHANGED <<loopVars, task, started, stopRequested, cancelled, known, userInput,
                   baseline, iteration, batch, tool, historyVars>>
CancelTurn ==
    /\ task # "idle" /\ ~stopped
    /\ stopped' = TRUE
    /\ cancelPending' = started
    /\ stopRequested' = ~started
    /\ UNCHANGED <<loopVars, task, started, cancelled, known, userInput, baseline,
                   iteration, batch, tool, historyVars>>

\* The task's first step, up to the host's prepare().
EnterDrive ==
    /\ task = "new"
    /\ task' = "prepare"
    /\ UNCHANGED <<loopVars, turnVars, frameVars, historyVars>>

\* prepare() returned: it made the prompt real the first time.  The prompt to
\* come back to is read, and the turn begins or, if it was stopped, ends.
Prepared ==
    /\ task = "prepare"
    /\ prompt' = IF prompt = "placeholder" THEN "surface" ELSE prompt
    /\ baseline' = prompt'
    /\ started' = TRUE
    /\ IF stopRequested
       THEN /\ EndCancelled(<<>>)
            /\ UNCHANGED iteration
       ELSE /\ messages' = IF userInput THEN Append(messages, User) ELSE messages
            /\ iteration' = 0
            /\ Say("RunStarted")
            /\ task' = "runStarted"
            /\ UNCHANGED <<cancelled, terminals>>
    /\ UNCHANGED <<callSeq, turn, stopped, stopRequested, known, cancelPending, userInput,
                   batch, tool, startedCalls, raised>>

\* prepare() raised: the failure is published like any other, but there is no
\* prompt_at_start yet for _drive's finally.
PrepareFails ==
    /\ task = "prepare"
    /\ SayTerminal("RunFailed", "failed")
    /\ task' = "prepareFailed"
    /\ UNCHANGED <<loopVars, turnVars, frameVars, startedCalls, raised>>

-----------------------------------------------------------------------------
(* One iteration.  Each step needs the await it resumes from to return     *)
(* normally, so no cancellation may be pending.                            *)

At(await) == task = await /\ ~cancelPending

BeginLoop ==
    /\ At("runStarted")
    /\ LoopTop
    /\ UNCHANGED <<loopVars, turnVars, cancelPending, userInput, baseline, batch, tool,
                   startedCalls, raised>>

\* before_iteration returned; a hook may have rewritten the prompt for this turn.
StartIteration ==
    /\ At("beforeIteration")
    /\ prompt' \in {prompt, "rewrite"}
    /\ Say("IterationStarted")
    /\ task' = "iterationStarted"
    /\ UNCHANGED <<messages, callSeq, turn, turnVars, frameVars, terminals, startedCalls, raised>>

PrepareRequest ==
    /\ At("iterationStarted")
    /\ task' = "beforeRequest"
    /\ UNCHANGED <<loopVars, turnVars, frameVars, historyVars>>

\* before_request returned: the same freedom, then the provider is called.
SendRequest ==
    /\ At("beforeRequest")
    /\ prompt' \in {prompt, "rewrite"}
    /\ batch' = <<>>
    /\ task' = "stream"
    /\ UNCHANGED <<messages, callSeq, turn, turnVars, cancelPending, userInput, baseline,
                   iteration, tool, historyVars>>

\* The first fragment of another tool call: its identity is the endpoint's id
\* or a minted one, and the delta puts it into the turn's state.
StreamCall ==
    /\ At("stream")
    /\ Len(batch) < MaxBatch
    /\ iteration < MaxRequests
    /\ callSeq' = callSeq + 1
    /\ \E id \in ProviderIds \union {callSeq'} :
        /\ batch' = Append(batch, id)
        /\ known' = known \union {id}
    /\ Say("ToolCallArgsDelta")
    /\ UNCHANGED <<messages, prompt, turn, task, started, stopped, stopRequested, cancelled,
                   cancelPending, userInput, baseline, iteration, tool, terminals,
                   startedCalls, raised>>

\* The response is complete; after_response hooks run.
StreamEnds ==
    /\ At("stream")
    /\ task' = "afterResponse"
    /\ UNCHANGED <<loopVars, turnVars, frameVars, historyVars>>

\* The provider failed for good, before or inside the response.
ProviderFails ==
    /\ At("stream")
    /\ EndFailed
    /\ UNCHANGED <<loopVars, turnVars, frameVars, startedCalls, raised>>

\* RetryDeadlineExceeded: the clock ran out between two attempts, so nothing
\* of a response has arrived.
DeadlineExceeded ==
    /\ At("stream")
    /\ TimeBudget
    /\ batch = <<>>
    /\ SayTerminal("RunFinished", "time_budget")
    /\ task' = "finished"
    /\ UNCHANGED <<loopVars, turnVars, frameVars, startedCalls, raised>>

FinishIteration ==
    /\ At("afterResponse")
    /\ Say("IterationFinished")
    /\ task' = "iterationFinished"
    /\ UNCHANGED <<loopVars, turnVars, frameVars, terminals, startedCalls, raised>>

\* The response has no tool calls: it is the answer.
Answer ==
    /\ At("iterationFinished")
    /\ batch = <<>>
    /\ messages' = Append(messages, Assistant(<<>>))
    /\ SayTerminal("RunFinished", "completed")
    /\ task' = "finished"
    /\ UNCHANGED <<prompt, callSeq, turn, turnVars, frameVars, startedCalls, raised>>

\* _run_tool_batch: one task per call, and a gather over them.
RunTools ==
    /\ At("iterationFinished")
    /\ batch # <<>>
    /\ tool' = [k \in Slots |-> IF k <= Len(batch) THEN "starting" ELSE "none"]
    /\ task' = "tools"
    /\ UNCHANGED <<loopVars, turnVars, cancelPending, userInput, baseline, iteration, batch,
                   historyVars>>

\* Every tool task is over.
AllSettled == \A k \in Slots : tool[k] \in {"none", "done"}

\* The gather returned; _run_tool_batch's finally awaits the tasks once more.
GatherToolsFirstDone ==
    /\ At("tools")
    /\ \E k \in Slots : tool[k] = "done"
    /\ task' = "settling"
    /\ UNCHANGED <<loopVars, turnVars, frameVars, historyVars>>
GatherTools ==
    /\ At("tools")
    /\ AllSettled
    /\ task' = "settling"
    /\ UNCHANGED <<loopVars, turnVars, frameVars, historyVars>>

\* The batch is over: the calls enter the history with their results.
RecordResults ==
    /\ At("settling")
    /\ messages' = messages \o Exchange(batch, FALSE)
    /\ LoopTop
    /\ UNCHANGED <<prompt, callSeq, turn, turnVars, cancelPending, userInput, baseline, batch,
                   tool, startedCalls, raised>>

-----------------------------------------------------------------------------
(* The task of one tool call: ToolDispatcher.run                           *)

ToolFrame == UNCHANGED <<loopVars, task, started, stopped, stopRequested, cancelled,
                         cancelPending, userInput, baseline, iteration, batch, terminals, raised>>

\* on_tool_start returned: the call is announced, then executed, unless its
\* arguments did not parse or a hook denied it.
AnnounceTool(k) ==
    /\ tool[k] = "starting"
    /\ \E stage \in {"running", "completing"} : tool' = [tool EXCEPT ![k] = stage]
    /\ known' = known \union {batch[k]}
    /\ startedCalls' = startedCalls + 1
    /\ Say("ToolCallStarted")
    /\ ToolFrame

\* The tool returned, raised, timed out, or was refused.
ToolReturns(k) ==
    /\ tool[k] = "running"
    /\ tool' = [tool EXCEPT ![k] = "completing"]
    /\ UNCHANGED <<known, startedCalls, after>>
    /\ ToolFrame

\* Something outside _execute's try raised, a policy callable for one: the task
\* ends with the exception and the batch turns it into the call's result.
ToolRaises(k) ==
    /\ tool[k] = "running"
    /\ tool' = [tool EXCEPT ![k] = "done"]
    /\ UNCHANGED <<known, startedCalls, after>>
    /\ ToolFrame

\* on_tool_complete returned and ToolCallFinished is published.
ToolFinishes(k) ==
    /\ tool[k] = "completing"
    /\ tool' = [tool EXCEPT ![k] = "done"]
    /\ Say("ToolCallFinished")
    /\ UNCHANGED <<known, startedCalls>>
    /\ ToolFrame

\* A cancelled task ends; a tool body may also catch the CancelledError and return.
ToolUnwinds(k) ==
    /\ tool[k] \in {"cancelling", "interrupted"}
    /\ \/ tool' = [tool EXCEPT ![k] = "done"]
       \/ tool[k] = "cancelling" /\ tool' = [tool EXCEPT ![k] = "completing"]
    /\ UNCHANGED <<known, startedCalls, after>>
    /\ ToolFrame

-----------------------------------------------------------------------------
(* Delivering a cancellation                                               *)

\* Awaits of _iterate at which nothing of the response is in the history yet.
BeforeTools == {"runStarted", "beforeIteration", "iterationStarted", "beforeRequest",
                "stream", "afterResponse", "iterationFinished"}

Deliver == cancelPending /\ cancelPending' = FALSE

\* Outside a tool batch, also while the final RunFinished is being published.
InterruptTurn ==
    /\ Deliver
    /\ task \in BeforeTools \union {"finished"}
    /\ EndCancelled(<<>>)
    /\ UNCHANGED <<prompt, callSeq, turn, started, stopped, stopRequested, known, userInput,
                   baseline, iteration, batch, tool, startedCalls, raised>>

\* In the gather: it cancels every task that is not done and waits for them.
InterruptTools ==
    /\ Deliver
    /\ task = "tools"
    /\ task' = "unwinding"
    /\ tool' = [k \in Slots |->
                    CASE tool[k] \in {"starting", "completing"} -> "interrupted"
                      [] tool[k] = "running" -> "cancelling"
                      [] OTHER -> tool[k]]
    /\ UNCHANGED <<loopVars, turnVars, userInput, baseline, iteration, batch, historyVars>>

\* The tasks are over: every call gets the interruption note for an answer.
UnwindToolsUnanswered ==
    /\ task = "unwinding"
    /\ AllSettled
    /\ EndCancelled(<<Assistant(batch)>>)
    /\ UNCHANGED <<prompt, callSeq, turn, started, stopped, stopRequested, known, frameVars,
                   startedCalls, raised>>
UnwindTools ==
    /\ task = "unwinding"
    /\ AllSettled
    /\ EndCancelled(Exchange(batch, TRUE))
    /\ UNCHANGED <<prompt, callSeq, turn, started, stopped, stopRequested, known, frameVars,
                   startedCalls, raised>>

\* In _run_tool_batch's finally: the results are there and are not used.
InterruptSettled ==
    /\ Deliver
    /\ task = "settling"
    /\ EndCancelled(Exchange(batch, TRUE))
    /\ UNCHANGED <<prompt, callSeq, turn, started, stopped, stopRequested, known, userInput,
                   baseline, iteration, batch, tool, startedCalls, raised>>

\* While RunFailed is being published: nothing in _drive catches it any more,
\* its finally still restores the prompt.
InterruptFailed ==
    /\ Deliver
    /\ task = "failed"
    /\ prompt' = baseline
    /\ raised' = raised \union {turn}
    /\ task' = "idle"
    /\ UNCHANGED <<messages, callSeq, turn, turnVars, userInput, baseline, iteration, batch,
                   tool, terminals, after, startedCalls>>

-----------------------------------------------------------------------------
(* The end of _drive                                                       *)

\* The terminal event was delivered; the finally drops the hooks' rewrite.
DriveReturns ==
    /\ At(task)
    /\ task \in {"finished", "cancelled", "failed"}
    /\ prompt' = baseline
    /\ task' = "idle"
    /\ UNCHANGED <<messages, callSeq, turn, turnVars, frameVars, historyVars>>

\* After a failed prepare the finally has nothing to restore from and raises.
DriveRaises ==
    /\ task = "prepareFailed"
    /\ raised' = raised \union {turn}
    /\ task' = "idle"
    /\ UNCHANGED <<loopVars, turnVars, frameVars, terminals, after, startedCalls>>

-----------------------------------------------------------------------------
\* The turn's own code and the hooks it awaits.
LoopStep ==
    \/ EnterDrive \/ Prepared \/ PrepareFails \/ BeginLoop \/ StartIteration
    \/ PrepareRequest \/ SendRequest \/ FinishIteration \/ Answer \/ RunTools
    \/ GatherTools \/ RecordResults \/ DriveReturns \/ DriveRaises

\* Cancellation on its way through the turn.
CancelStep ==
    InterruptTurn \/ InterruptTools \/ UnwindTools \/ InterruptSettled \/ InterruptFailed

\* What only the provider, or a tool's own body, decides when to do.
ProviderStep == StreamCall \/ StreamEnds \/ ProviderFails \/ DeadlineExceeded
ToolBody(k) == ToolReturns(k) \/ ToolRaises(k)

\* The dispatcher's part of a tool call, and the end of a cancelled one.
ToolStep(k) == AnnounceTool(k) \/ ToolFinishes(k) \/ ToolUnwinds(k)

Next ==
    \/ \E input \in BOOLEAN : Start(input)
    \/ CancelTurn
    \/ LoopStep
    \/ CancelStep
    \/ ProviderStep
    \/ \E k \in Slots : ToolBody(k) \/ ToolStep(k)

\* The event loop runs what is ready, hooks and prepare() return, and a
\* cancelled tool gives up.  The provider and the tools may hang.
Fairness ==
    /\ WF_vars(LoopStep)
    /\ WF_vars(CancelStep)
    /\ \A k \in Slots : WF_vars(ToolStep(k))

Spec == Init /\ [][Next]_vars /\ Fairness

\* The provider's stream ends and tools return: the timeouts of the code see
\* to the second, the endpoint to the first.
Answering ==
    /\ WF_vars(ProviderStep)
    /\ \A k \in Slots : WF_vars(ToolBody(k))

-----------------------------------------------------------------------------
(* Properties                                                              *)

Awaits == BeforeTools \union
    {"idle", "new", "prepare", "prepareFailed", "tools", "settling", "unwinding",
     "finished", "cancelled", "failed"}
Outcomes == {"completed", "cancelled", "failed", "max_iterations", "max_tool_calls", "time_budget"}

DataOK ==
    /\ messages \in Seq(Message)
    /\ prompt \in {"placeholder", "surface", "rewrite"}
    /\ callSeq \in Nat
    /\ turn \in 0 .. MaxTurns
    /\ task \in Awaits
    /\ known \subseteq Nat
    /\ baseline \in {"placeholder", "surface", "rewrite"}
    /\ iteration \in Nat
    /\ batch \in Seq(Nat) /\ Len(batch) <= MaxBatch
    /\ tool \in [Slots -> ToolStages]
    /\ terminals \in [Turns -> Seq(Outcomes)]
    /\ startedCalls \in Nat
    /\ raised \subseteq Turns

FlagsOK ==
    /\ started \in BOOLEAN /\ stopped \in BOOLEAN /\ stopRequested \in BOOLEAN
    /\ cancelled \in BOOLEAN /\ cancelPending \in BOOLEAN /\ userInput \in BOOLEAN
    /\ cancelPending => started /\ stopped /\ ~stopRequested

\* The types of the variables; and a CancelledError is on its way only to a turn
\* that has begun, a stop is on record only for one that had not.
TypeOK == DataOK /\ FlagsOK

\* AgentLoop.messages can be sent to a provider in every state the turn can be
\* left, read or resumed in: however a batch ended, each call has its answer
\* right after it and no answer is an orphan (agent.py:64).
HistoryReplayable == Replayable(messages)

\* Turn: when the task of a turn is over, a terminal event was published for
\* it, whichever await it was stopped or failed at.
EndedTurnReported ==
    \A t \in 1 .. turn : (t < turn \/ task = "idle") => terminals[t] # <<>>

\* A turn that published two terminal events was cancelled while the first one,
\* a RunFinished, was being handed to the hooks; it never publishes a third.
SecondTerminalIsCancel ==
    \A t \in 1 .. turn : Len(terminals[t]) > 1 =>
        Len(terminals[t]) = 2 /\ terminals[t][2] = "cancelled" /\ terminals[t][1] # "failed"

\* After a terminal event a turn publishes nothing but that second one: no tool
\* of the batch and no iteration is still talking.
QuietAfterTerminal == after \subseteq {"RunFinished"}

\* _run_tool_batch leaves no task behind: a tool runs only while its turn waits.
NoStragglers == task \notin {"tools", "unwinding"} => AllSettled

\* A cancelled turn says so everywhere: in its terminal event and, for whoever
\* reads the history, in its last message.
CancelledSaysSo ==
    cancelled => /\ terminals[turn][Len(terminals[turn])] = "cancelled"
                 /\ messages[Len(messages)] = Interrupted

\* A hook's rewrite of the system prompt never outlives its turn, and a turn
\* never begins from the placeholder.
PromptRestored ==
    /\ task = "idle" => prompt # "rewrite"
    /\ task \in BeforeTools => baseline = "surface"

\* Only a turn that reported a failure ends its task with an exception.
RaisedIsFailed == \A t \in raised : terminals[t][Len(terminals[t])] = "failed"

\* What a turn leaves behind tells how it ended, and nothing else is left.
EndsClean ==
    /\ TypeOK /\ SecondTerminalIsCancel /\ QuietAfterTerminal
    /\ CancelledSaysSo /\ PromptRestored
    /\ RaisedIsFailed

\* An endpoint has used the id of a call again.
Reused ==
    \E i, j \in DOMAIN messages : \E a \in DOMAIN messages[i].ids, b \in DOMAIN messages[j].ids :
        /\ messages[i].role = "assistant" /\ messages[j].role = "assistant"
        /\ <<i, a>> # <<j, b>> /\ messages[i].ids[a] = messages[j].ids[b]

\* AgentConfig: no provider request is begun once a budget is spent; calls are
\* counted by their ids, so one whose id comes again is not seen.
BudgetHolds ==
    [][iteration' = iteration + 1 =>
        /\ MaxIterations > 0 => iteration' <= MaxIterations
        /\ MaxToolCalls > 0 => startedCalls < MaxToolCalls \/ Reused']_vars

\* Turn.cancel ends the turn though the provider and the tools never answer.
CancelEnds == (stopped /\ task # "idle") ~> task = "idle"

\* With a provider and tools that answer, every turn ends by itself.
EndsAnswered == Answering => (task # "idle" ~> task = "idle")

\* Every turn ends, stopped or answered.
TurnEnds == CancelEnds /\ EndsAnswered

\* The abstract promise this loop implements.
Contract == INSTANCE TurnContract WITH running <- task # "idle", history <- messages
ImplementsContract == Contract!Spec

=============================================================================
