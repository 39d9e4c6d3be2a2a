--------------------------- MODULE AgentTurnProofs ---------------------------
(***************************************************************************)
(* Proofs about AgentTurn for every value of its constants.                *)
(***************************************************************************)
EXTENDS AgentTurn, SequenceTheorems, FiniteSetTheorems, TLAPS

\* What SMT is told about sequences.  Message i of h \o b is message i of h, or message i - Len(h) of b.
LEMMA ConcatIndex ==
    ASSUME NEW S, NEW h \in Seq(S), NEW b \in Seq(S)
    PROVE  /\ h \o b \in Seq(S)
           /\ Len(h \o b) = Len(h) + Len(b)
           /\ \A i \in 1 .. Len(h) : (h \o b)[i] = h[i]
           /\ \A i \in 1 .. Len(b) : (h \o b)[Len(h) + i] = b[i]
OBVIOUS

\* Two replayable histories, one after the other, are replayable: neither can
\* tell that the other is there.
LEMMA ReplayableConcat ==
    ASSUME NEW h \in Seq(Message), NEW b \in Seq(Message), Replayable(h), Replayable(b)
    PROVE  Replayable(h \o b)
<1> DEFINE g == h \o b
<1>1. /\ g \in Seq(Message)
      /\ Len(g) = Len(h) + Len(b)
      /\ \A i \in 1 .. Len(h) : g[i] = h[i]
      /\ \A i \in 1 .. Len(b) : g[Len(h) + i] = b[i]
  BY ConcatIndex
<1>2. ASSUME NEW i \in 1 .. Len(h)
      PROVE  /\ g[i].role = "assistant" => CallsAnswered(g, i)
             /\ g[i].role = "tool" => AnswersCall(g, i)
  <2>1. g[i] = h[i]
    BY <1>1
  <2>2. ASSUME h[i].role = "assistant" PROVE CallsAnswered(g, i)
    <3>1. CallsAnswered(h, i)
      BY <2>2 DEF Replayable
    <3>2. h[i] \in Message
      OBVIOUS
    <3>3. Len(h[i].ids) \in Nat
      BY <3>2 DEF Message
    <3> QED
      BY <1>1, <2>1, <3>1, <3>3 DEF CallsAnswered
  <2>3. ASSUME h[i].role = "tool" PROVE AnswersCall(g, i)
    <3>1. AnswersCall(h, i)
      BY <2>3 DEF Replayable
    <3>2. PICK j \in 1 .. (i - 1) :
            /\ h[j].role = "assistant"
            /\ i - j <= Len(h[j].ids)
            /\ h[i].ids = <<h[j].ids[i - j]>>
      BY <3>1 DEF AnswersCall
    <3>3. g[j] = h[j]
      BY <1>1
    <3> QED
      BY <2>1, <3>2, <3>3 DEF AnswersCall
  <2> QED
    BY <2>1, <2>2, <2>3
<1>3. ASSUME NEW i \in 1 .. Len(b)
      PROVE  /\ g[Len(h) + i].role = "assistant" => CallsAnswered(g, Len(h) + i)
             /\ g[Len(h) + i].role = "tool" => AnswersCall(g, Len(h) + i)
  <2>1. g[Len(h) + i] = b[i]
    BY <1>1
  <2>2. ASSUME b[i].role = "assistant" PROVE CallsAnswered(g, Len(h) + i)
    <3>1. CallsAnswered(b, i)
      BY <2>2 DEF Replayable
    <3>2. b[i] \in Message
      OBVIOUS
    <3>3. Len(b[i].ids) \in Nat
      BY <3>2 DEF Message
    <3>4. ASSUME NEW k \in 1 .. Len(b[i].ids)
          PROVE  /\ Len(h) + i + k <= Len(g)
                 /\ g[Len(h) + i + k] = b[i + k]
      <4>1. i + k \in 1 .. Len(b)
        BY <3>1, <3>3 DEF CallsAnswered
      <4>2. Len(h) + i + k = Len(h) + (i + k)
        BY <3>3
      <4> QED
        BY <1>1, <4>1, <4>2
    <3> QED
      BY <2>1, <3>1, <3>4 DEF CallsAnswered
  <2>3. ASSUME b[i].role = "tool" PROVE AnswersCall(g, Len(h) + i)
    <3>1. AnswersCall(b, i)
      BY <2>3 DEF Replayable
    <3>2. PICK j \in 1 .. (i - 1) :
            /\ b[j].role = "assistant"
            /\ i - j <= Len(b[j].ids)
            /\ b[i].ids = <<b[j].ids[i - j]>>
      BY <3>1 DEF AnswersCall
    <3>3. /\ Len(h) + j \in 1 .. (Len(h) + i - 1)
          /\ (Len(h) + i) - (Len(h) + j) = i - j
      OBVIOUS
    <3>4. g[Len(h) + j] = b[j]
      BY <1>1
    <3> QED
      BY <2>1, <3>2, <3>3, <3>4 DEF AnswersCall
  <2> QED
    BY <2>1, <2>2, <2>3
<1>4. ASSUME NEW i \in 1 .. Len(g)
      PROVE  i \in 1 .. Len(h) \/ \E j \in 1 .. Len(b) : i = Len(h) + j
  <2>1. CASE i <= Len(h)
    BY <2>1
  <2>2. CASE i > Len(h)
    <3>1. i - Len(h) \in 1 .. Len(b) /\ i = Len(h) + (i - Len(h))
      BY <1>1, <2>2
    <3> QED
      BY <3>1
  <2> QED
    BY <2>1, <2>2
<1> HIDE DEF g
<1>5. Replayable(g)
  BY <1>2, <1>3, <1>4 DEF Replayable
<1> QED
  BY <1>5 DEF g

\* The messages the loop builds a history from are messages.
LEMMA MessageTypes ==
    ASSUME NEW calls \in Seq(Nat), NEW note \in BOOLEAN
    PROVE  /\ User \in Message
           /\ Interrupted \in Message
           /\ Assistant(calls) \in Message
           /\ Exchange(calls, note) \in Seq(Message)
           /\ Len(Exchange(calls, note)) = 1 + Len(calls)
           /\ Exchange(calls, note)[1] = Assistant(calls)
           /\ \A k \in 1 .. Len(calls) : Exchange(calls, note)[1 + k] = Result(calls[k], note)
<1> DEFINE results == [k \in 1 .. Len(calls) |-> Result(calls[k], note)]
<1>1. /\ User \in Message
      /\ Interrupted \in Message
      /\ Assistant(calls) \in Message
  BY DEF Message, User, Interrupted, Assistant
<1>2. \A k \in 1 .. Len(calls) : Result(calls[k], note) \in Message
  BY DEF Message, Result
<1>3. results \in Seq(Message) /\ Len(results) = Len(calls)
  BY <1>2
<1>4. <<Assistant(calls)>> \in Seq(Message) /\ Len(<<Assistant(calls)>>) = 1
  BY <1>1
<1>5. \A k \in 1 .. Len(calls) : results[k] = Result(calls[k], note)
  OBVIOUS
<1> HIDE DEF results
<1>6. /\ <<Assistant(calls)>> \o results \in Seq(Message)
      /\ Len(<<Assistant(calls)>> \o results) = 1 + Len(calls)
      /\ (<<Assistant(calls)>> \o results)[1] = Assistant(calls)
      /\ \A k \in 1 .. Len(calls) : (<<Assistant(calls)>> \o results)[1 + k] = results[k]
  BY <1>3, <1>4, ConcatIndex
<1>7. Exchange(calls, note) = <<Assistant(calls)>> \o results
  BY DEF Exchange, results
<1> QED
  BY <1>1, <1>5, <1>6, <1>7

\* An exchange is replayable on its own, whether its results are the tools' or
\* interruption notes.
LEMMA ReplayableExchange ==
    ASSUME NEW calls \in Seq(Nat), NEW note \in BOOLEAN
    PROVE  Replayable(Exchange(calls, note))
<1> DEFINE g == Exchange(calls, note)
<1>1. /\ Len(g) = 1 + Len(calls)
      /\ g[1] = Assistant(calls)
      /\ \A k \in 1 .. Len(calls) : g[1 + k] = Result(calls[k], note)
  BY MessageTypes
<1> HIDE DEF g
<1>2. g[1].role = "assistant" /\ g[1].ids = calls
  BY <1>1 DEF Assistant
<1>3. ASSUME NEW k \in 1 .. Len(calls)
      PROVE  g[1 + k].role = "tool" /\ g[1 + k].ids = <<calls[k]>>
  <2>1. g[1 + k] = [role |-> "tool", ids |-> <<calls[k]>>, note |-> note]
    BY <1>1 DEF Result
  <2> QED
    BY <2>1
<1>4. CallsAnswered(g, 1)
  BY <1>1, <1>2, <1>3 DEF CallsAnswered
<1>5. ASSUME NEW k \in 1 .. Len(calls) PROVE AnswersCall(g, 1 + k)
  <2>1. 1 \in 1 .. ((1 + k) - 1) /\ (1 + k) - 1 = k
    OBVIOUS
  <2>2. g[1 + k].ids = <<g[1].ids[(1 + k) - 1]>>
    BY <1>2, <1>3, <2>1
  <2> QED
    BY <1>2, <2>1, <2>2 DEF AnswersCall
<1>6. \A i \in 1 .. Len(g) : i = 1 \/ \E k \in 1 .. Len(calls) : i = 1 + k
  <2> SUFFICES ASSUME NEW i \in 1 .. Len(g), i # 1
               PROVE  i - 1 \in 1 .. Len(calls) /\ i = 1 + (i - 1)
    OBVIOUS
  <2> QED
    BY <1>1
<1>7. Replayable(g)
  BY <1>2, <1>3, <1>4, <1>5, <1>6 DEF Replayable
<1> QED
  BY <1>7 DEF g

\* A message that neither calls a tool nor answers one is replayable on its own.
LEMMA ReplayableSingle ==
    /\ Replayable(<<User>>)
    /\ Replayable(<<Interrupted>>)
    /\ Replayable(<<Assistant(<<>>)>>)
BY DEF Replayable, User, Interrupted, Assistant, CallsAnswered, AnswersCall

-----------------------------------------------------------------------------
(* Type correctness                                                        *)

\* A tool task that is not over belongs to a call of the batch, and the turn is
\* waiting for it.
ToolsAwaited ==
    \A k \in Slots :
        \/ tool[k] \in {"none", "done"}
        \/ k <= Len(batch) /\ task \in {"tools", "unwinding"}

\* TypeOK made inductive: a turn whose task is not over has a number, and only
\* calls of the batch run, so the id a tool announces is one the model used.
TypeInv ==
    /\ TypeOK
    /\ task # "idle" => turn \in Turns
    /\ ToolsAwaited

LEMMA TypeInit == Init => TypeInv
<1> SUFFICES ASSUME Init PROVE TypeInv
  OBVIOUS
<1>1. messages \in Seq(Message) /\ batch \in Seq(Nat) /\ Len(batch) <= MaxBatch
  BY TurnAssumption DEF Init
<1>2. terminals \in [Turns -> Seq(Outcomes)]
  BY DEF Init
<1>3. tool \in [Slots -> ToolStages]
  BY DEF Init, ToolStages
<1>4. turn \in 0 .. MaxTurns /\ callSeq \in Nat /\ iteration \in Nat /\ startedCalls \in Nat /\ known \subseteq Nat
  BY TurnAssumption DEF Init
<1>5. raised \subseteq Turns
  BY DEF Init
<1>6. ToolsAwaited
  BY DEF Init, ToolsAwaited
<1>7. task \in Awaits /\ task = "idle"
  BY DEF Init, Awaits
<1>8. /\ started \in BOOLEAN /\ stopped \in BOOLEAN /\ stopRequested \in BOOLEAN
    /\ cancelled \in BOOLEAN /\ cancelPending \in BOOLEAN /\ userInput \in BOOLEAN
    /\ cancelPending => started /\ stopped /\ ~stopRequested
  BY DEF Init
<1>9. prompt \in {"placeholder", "surface", "rewrite"} /\ baseline \in {"placeholder", "surface", "rewrite"}
  BY DEF Init
<1>10. DataOK
  BY <1>1, <1>2, <1>3, <1>4, <1>5, <1>7, <1>9 DEF DataOK
<1>11. FlagsOK
  BY DEF Init, FlagsOK
<1> QED
  BY <1>6, <1>7, <1>10, <1>11 DEF TypeInv, TypeOK

\* Publishing a terminal event keeps the record of them well typed.
LEMMA SayTerminalType ==
    ASSUME TypeInv, turn \in Turns, NEW kind, NEW outcome \in Outcomes,
           SayTerminal(kind, outcome)
    PROVE  terminals' \in [Turns -> Seq(Outcomes)]
<1>1. terminals[turn] \in Seq(Outcomes)
  BY DEF TypeInv, TypeOK, DataOK, FlagsOK
<1>2. Append(terminals[turn], outcome) \in Seq(Outcomes)
  BY <1>1
<1> QED
  BY <1>2 DEF SayTerminal, TypeInv, TypeOK, DataOK, FlagsOK

\* What the cancelled ending leaves behind is well typed.
LEMMA EndCancelledType ==
    ASSUME TypeInv, turn \in Turns, NEW left \in Seq(Message), EndCancelled(left)
    PROVE  /\ messages' \in Seq(Message)
           /\ terminals' \in [Turns -> Seq(Outcomes)]
           /\ cancelled' = TRUE
           /\ task' = "cancelled"
<1>1. "cancelled" \in Outcomes
  BY DEF Outcomes
<1>2. <<Interrupted>> \in Seq(Message)
  BY DEF Interrupted, Message
<1>3. messages \o left \in Seq(Message)
  BY DEF TypeInv, TypeOK, DataOK, FlagsOK
<1>4. (messages \o left) \o <<Interrupted>> \in Seq(Message)
  BY <1>2, <1>3
<1> QED
  BY <1>1, <1>4, SayTerminalType DEF EndCancelled

\* So is what the top of the loop does.
LEMMA LoopTopType ==
    ASSUME TypeInv, turn \in Turns, LoopTop
    PROVE  /\ terminals' \in [Turns -> Seq(Outcomes)]
           /\ task' \in {"beforeIteration", "finished"}
           /\ iteration' \in Nat
<1>1. PICK why \in Cut :
        IF why = ""
        THEN /\ task' = "beforeIteration"
             /\ iteration' = iteration + 1
             /\ UNCHANGED <<terminals, after>>
        ELSE /\ task' = "finished"
             /\ SayTerminal("RunFinished", why)
             /\ UNCHANGED iteration
  BY DEF LoopTop
<1>2. CASE why = ""
  <2>1. iteration \in Nat /\ terminals \in [Turns -> Seq(Outcomes)]
    BY DEF TypeInv, TypeOK, DataOK
  <2>2. task' = "beforeIteration" /\ iteration' = iteration + 1 /\ terminals' = terminals
    BY <1>1, <1>2, Zenon
  <2> QED
    BY <2>1, <2>2
<1>3. CASE why # ""
  <2>1. why \in Outcomes
    BY <1>3 DEF Cut, Outcomes
  <2> QED
    BY <1>1, <1>3, <2>1, SayTerminalType DEF TypeInv, TypeOK, DataOK, FlagsOK
<1> QED
  BY <1>2, <1>3

LEMMA TypeStep == TypeInv /\ [Next]_vars => TypeInv'
<1> SUFFICES ASSUME TypeInv, [Next]_vars PROVE TypeInv'
  OBVIOUS
<1>a. /\ batch \in Seq(Nat)
      /\ messages \in Seq(Message)
  BY DEF TypeInv, TypeOK, DataOK
<1>b. Append(messages, User) \in Seq(Message) /\ Append(messages, Assistant(<<>>)) \in Seq(Message)
  <2>1. User \in Message /\ Assistant(<<>>) \in Message
    BY DEF User, Assistant, Message
  <2> QED
    BY <1>a, <2>1, AppendProperties
<1>c. messages \o Exchange(batch, FALSE) \in Seq(Message)
  BY <1>a, MessageTypes, ConcatIndex
<1> USE TurnAssumption
<1> USE DEF TypeInv, TypeOK, DataOK, FlagsOK, ToolsAwaited, Turns, Slots, Awaits, BeforeTools, Outcomes, ToolStages,
            loopVars, turnVars, frameVars, historyVars
<1>0. turn \in Turns \/ task = "idle"
  OBVIOUS
<1>1. /\ User \in Message /\ Interrupted \in Message /\ Assistant(<<>>) \in Message
      /\ Exchange(batch, TRUE) \in Seq(Message) /\ Exchange(batch, FALSE) \in Seq(Message)
      /\ <<>> \in Seq(Message)
  <2>1. batch \in Seq(Nat) /\ <<>> \in Seq(Nat) /\ TRUE \in BOOLEAN /\ FALSE \in BOOLEAN
    OBVIOUS
  <2>2. <<>> \in Seq(Message)
    OBVIOUS
  <2> QED
    BY <2>1, <2>2, MessageTypes
<1>2. ASSUME NEW input \in BOOLEAN, Start(input) PROVE TypeInv'
  <2>1. DataOK' /\ (task # "idle" => turn \in Turns)' /\ ToolsAwaited'
    BY <1>1, <1>2 DEF Start
  <2>2. FlagsOK'
    BY <1>2, Zenon DEF Start
  <2> QED
    BY <2>1, <2>2, Zenon DEF TypeInv, TypeOK
<1>3. ASSUME CancelTurn PROVE TypeInv'
  BY <1>1, <1>3 DEF CancelTurn
<1>4. ASSUME EnterDrive PROVE TypeInv'
  BY <1>1, <1>4 DEF EnterDrive
<1>5. ASSUME Prepared PROVE TypeInv'
  <2>1. CASE stopRequested
    BY <1>1, <1>5, <2>1, EndCancelledType DEF Prepared
  <2>2. CASE ~stopRequested
    <3>1. /\ messages' = messages \/ messages' = Append(messages, User)
          /\ task' = "runStarted" /\ iteration' = 0
      BY <1>5, <2>2, Zenon DEF Prepared
    <3>2. messages' \in Seq(Message)
      BY <1>b, <3>1
    <3>3. DataOK' /\ (task # "idle" => turn \in Turns)' /\ ToolsAwaited'
      BY <1>5, <2>2, <3>1, <3>2 DEF Prepared
    <3>4. FlagsOK'
      BY <1>5, <2>2, Zenon DEF Prepared
    <3> QED
      BY <3>3, <3>4, Zenon DEF TypeInv, TypeOK
  <2> QED
    BY <2>1, <2>2
<1>6. ASSUME PrepareFails PROVE TypeInv'
  BY <1>1, <1>6, SayTerminalType DEF PrepareFails
<1>7. ASSUME BeginLoop PROVE TypeInv'
  BY <1>1, <1>7, LoopTopType DEF At, BeginLoop
<1>8. ASSUME StartIteration PROVE TypeInv'
  BY <1>1, <1>8 DEF At, Say, StartIteration
<1>9. ASSUME PrepareRequest PROVE TypeInv'
  BY <1>1, <1>9 DEF At, PrepareRequest
<1>10. ASSUME SendRequest PROVE TypeInv'
  BY <1>1, <1>10 DEF At, SendRequest
<1>11. ASSUME FinishIteration PROVE TypeInv'
  BY <1>1, <1>11 DEF At, Say, FinishIteration
<1>12. ASSUME Answer PROVE TypeInv'
  BY <1>1, <1>12 DEF At, SayTerminal, Say, Answer
<1>13. ASSUME RunTools PROVE TypeInv'
  BY <1>1, <1>13 DEF At, RunTools
<1>14. ASSUME GatherTools PROVE TypeInv'
  BY <1>1, <1>14 DEF At, GatherTools, AllSettled
<1>15. ASSUME RecordResults PROVE TypeInv'
  BY <1>c, <1>15, LoopTopType DEF At, RecordResults
<1>16. ASSUME DriveReturns PROVE TypeInv'
  BY <1>1, <1>16 DEF At, DriveReturns
<1>17. ASSUME DriveRaises PROVE TypeInv'
  BY <1>1, <1>17 DEF DriveRaises
<1>18. ASSUME InterruptTurn PROVE TypeInv'
  BY <1>1, <1>18, EndCancelledType DEF Deliver, InterruptTurn
<1>19. ASSUME InterruptTools PROVE TypeInv'
  BY <1>1, <1>19 DEF Deliver, InterruptTools
<1>20. ASSUME UnwindTools PROVE TypeInv'
  BY <1>1, <1>20, EndCancelledType DEF UnwindTools, AllSettled
<1>21. ASSUME InterruptSettled PROVE TypeInv'
  BY <1>1, <1>21, EndCancelledType DEF Deliver, InterruptSettled
<1>22. ASSUME InterruptFailed PROVE TypeInv'
  BY <1>1, <1>22 DEF Deliver, InterruptFailed
<1>23. ASSUME StreamCall PROVE TypeInv'
  BY <1>1, <1>23 DEF At, Say, StreamCall
<1>24. ASSUME StreamEnds PROVE TypeInv'
  BY <1>1, <1>24 DEF At, StreamEnds
<1>25. ASSUME ProviderFails PROVE TypeInv'
  BY <1>1, <1>25, SayTerminalType DEF At, EndFailed, ProviderFails
<1>26. ASSUME DeadlineExceeded PROVE TypeInv'
  BY <1>1, <1>26, SayTerminalType DEF At, DeadlineExceeded
<1>27. ASSUME NEW k \in Slots, AnnounceTool(k) PROVE TypeInv'
  <2>1. k <= Len(batch) /\ task \in {"tools", "unwinding"} /\ batch[k] \in Nat
    <3>1. tool[k] \notin {"none", "done"}
      BY <1>27 DEF AnnounceTool
    <3>2. k \in 1 .. Len(batch) /\ task \in {"tools", "unwinding"}
      BY <3>1
    <3> QED
      BY <1>a, <3>2
  <2>2. PICK stage \in {"running", "completing"} : tool' = [tool EXCEPT ![k] = stage]
    BY <1>27 DEF AnnounceTool
  <2>3. known' = known \union {batch[k]} /\ startedCalls' = startedCalls + 1
    BY <1>27 DEF AnnounceTool
  <2>4. ToolFrame
    BY <1>27 DEF AnnounceTool
  <2>5. known' \subseteq Nat /\ startedCalls' \in Nat
    <3>1. startedCalls' \in Nat
      BY <2>3
    <3>2. batch[k] \in Nat /\ known \subseteq Nat
      BY <2>1
    <3>3. known \union {batch[k]} \subseteq Nat
      BY <3>2, Zenon
    <3> QED
      BY <2>3, <3>1, <3>3
  <2>6. ToolsAwaited'
    BY <2>1, <2>2, <2>4 DEF ToolFrame
  <2>7. DataOK' /\ (task # "idle" => turn \in Turns)'
    BY <2>2, <2>4, <2>5 DEF ToolFrame
  <2>8. FlagsOK'
    BY <2>4 DEF ToolFrame
  <2> QED
    BY <2>6, <2>7, <2>8, Zenon DEF TypeInv, TypeOK
<1>28. ASSUME NEW k \in Slots, ToolReturns(k) PROVE TypeInv'
  BY <1>28 DEF ToolReturns, ToolFrame
<1>29. ASSUME NEW k \in Slots, ToolRaises(k) PROVE TypeInv'
  BY <1>29 DEF ToolRaises, ToolFrame
<1>30. ASSUME NEW k \in Slots, ToolFinishes(k) PROVE TypeInv'
  BY <1>30 DEF Say, ToolFinishes, ToolFrame
<1>31. ASSUME NEW k \in Slots, ToolUnwinds(k) PROVE TypeInv'
  <2>1. k <= Len(batch) /\ task \in {"tools", "unwinding"}
    BY <1>31 DEF ToolUnwinds
  <2>2. /\ tool' \in [Slots -> ToolStages]
        /\ \A i \in Slots : i # k => tool'[i] = tool[i]
    BY <1>31 DEF ToolUnwinds
  <2>3. UNCHANGED <<known, startedCalls, after>> /\ ToolFrame
    BY <1>31 DEF ToolUnwinds
  <2>4. DataOK' /\ (task # "idle" => turn \in Turns)' /\ ToolsAwaited'
    BY <2>1, <2>2, <2>3 DEF ToolFrame
  <2>5. FlagsOK'
    BY <2>3 DEF ToolFrame
  <2> QED
    BY <2>4, <2>5, Zenon DEF TypeInv, TypeOK
<1>32. CASE UNCHANGED vars
  BY <1>32 DEF vars
<1> QED
  BY <1>2, <1>3, <1>4, <1>5, <1>6, <1>7, <1>8, <1>9, <1>10, <1>11, <1>12, <1>13, <1>14, <1>15, <1>16, <1>17, <1>18, <1>19, <1>20, <1>21, <1>22, <1>23, <1>24, <1>25, <1>26, <1>27, <1>28, <1>29, <1>30, <1>31, <1>32
     DEF Next, LoopStep, CancelStep, ProviderStep, ToolBody, ToolStep

\* Every reachable state is well typed: in particular a batch never outgrows its
\* bound, a terminal event is always one of the outcomes the events module names,
\* and a cancellation is pending only for a turn that has begun.
THEOREM TypeCorrect == Spec => []TypeOK
<1>1. TypeInv => TypeOK
  BY DEF TypeInv
<1> QED
  BY <1>1, TypeInit, TypeStep, PTL DEF Spec

-----------------------------------------------------------------------------
(* The history                                                             *)

\* A complete, replayable piece of history that a step may append.
Piece(b) == b \in Seq(Message) /\ Len(b) > 0 /\ Replayable(b)

\* The pieces the loop appends: what the person said, an answer, a batch with
\* its results, and the interruption note behind any of them or alone.
LEMMA Pieces ==
    ASSUME NEW calls \in Seq(Nat), NEW note \in BOOLEAN
    PROVE  /\ Piece(<<User>>)
           /\ Piece(<<Assistant(<<>>)>>)
           /\ Piece(<<Interrupted>>)
           /\ Piece(Exchange(calls, note))
           /\ Piece(Exchange(calls, note) \o <<Interrupted>>)
<1>1. User \in Message /\ Assistant(<<>>) \in Message /\ Interrupted \in Message
  BY DEF User, Assistant, Interrupted, Message
<1>2. Piece(<<User>>) /\ Piece(<<Assistant(<<>>)>>) /\ Piece(<<Interrupted>>)
  BY <1>1, ReplayableSingle DEF Piece
<1>3. Piece(Exchange(calls, note))
  BY MessageTypes, ReplayableExchange DEF Piece
<1>4. Piece(Exchange(calls, note) \o <<Interrupted>>)
  <2> DEFINE e == Exchange(calls, note)
  <2>1. /\ e \in Seq(Message) /\ Len(e) > 0 /\ Replayable(e)
        /\ <<Interrupted>> \in Seq(Message) /\ Len(<<Interrupted>>) = 1
        /\ Replayable(<<Interrupted>>)
    BY <1>1, <1>2, <1>3 DEF Piece
  <2> HIDE DEF e
  <2>2. e \o <<Interrupted>> \in Seq(Message) /\ Len(e \o <<Interrupted>>) = Len(e) + 1
    BY <2>1, ConcatIndex
  <2>3. Replayable(e \o <<Interrupted>>)
    BY <2>1, ReplayableConcat
  <2>4. Len(e \o <<Interrupted>>) > 0
    BY <2>1, <2>2
  <2>5. Piece(e \o <<Interrupted>>)
    BY <2>2, <2>3, <2>4 DEF Piece
  <2> QED
    BY <2>5 DEF e
<1> QED
  BY <1>2, <1>3, <1>4

\* Every step leaves the history alone or appends one such piece, and it appends
\* only while the turn's task runs before and after the step.
HistoryGrows ==
    \/ messages' = messages
    \/ /\ task # "idle" /\ task' # "idle"
       /\ \E b \in Seq(Message) : Piece(b) /\ messages' = messages \o b

\* The cancelled ending appends what it is given and the note behind it.
LEMMA EndCancelledGrows ==
    ASSUME TypeInv, task # "idle", NEW left \in Seq(Message), EndCancelled(left),
           Piece(left \o <<Interrupted>>)
    PROVE  HistoryGrows
<1>1. messages \in Seq(Message) /\ <<Interrupted>> \in Seq(Message)
  BY DEF TypeInv, TypeOK, DataOK, Interrupted, Message
<1>2. messages' = messages \o (left \o <<Interrupted>>)
  BY <1>1, ConcatAssociative DEF EndCancelled
<1>3. left \o <<Interrupted>> \in Seq(Message)
  BY DEF Piece
<1> QED
  BY <1>2, <1>3 DEF HistoryGrows, EndCancelled

LEMMA HistoryStep ==
    ASSUME TypeInv, Next
    PROVE  HistoryGrows
<1>1. messages \in Seq(Message) /\ batch \in Seq(Nat)
  BY DEF TypeInv, TypeOK, DataOK
<1>2. /\ Append(messages, User) = messages \o <<User>>
      /\ Append(messages, Assistant(<<>>)) = messages \o <<Assistant(<<>>)>>
  <2>1. User \in Message /\ Assistant(<<>>) \in Message
    BY DEF User, Assistant, Message
  <2> QED
    BY <1>1, <2>1, AppendIsConcat
<1>3. /\ Piece(<<User>>) /\ Piece(<<Assistant(<<>>)>>)
      /\ Piece(<<Interrupted>>)
      /\ Piece(Exchange(batch, FALSE))
      /\ Piece(Exchange(batch, TRUE)) /\ Piece(Exchange(batch, TRUE) \o <<Interrupted>>)
  BY <1>1, Pieces
<1>4. <<>> \o <<Interrupted>> = <<Interrupted>> /\ <<>> \in Seq(Message)
  BY <1>3, ConcatEmptySeq DEF Piece
<1>5. ASSUME NEW input \in BOOLEAN, Start(input) PROVE HistoryGrows
  BY <1>5 DEF Start, HistoryGrows
<1>6. ASSUME Prepared PROVE HistoryGrows
  <2>1. CASE stopRequested
    BY <1>3, <1>4, <1>6, <2>1, EndCancelledGrows DEF Prepared
  <2>2. CASE ~stopRequested
    <3>1. /\ task = "prepare" /\ task' = "runStarted"
          /\ messages' = messages \/ messages' = Append(messages, User)
      BY <1>6, <2>2, Zenon DEF Prepared
    <3> QED
      BY <1>2, <1>3, <3>1 DEF HistoryGrows, Piece
  <2> QED
    BY <2>1, <2>2
<1>7. ASSUME Answer PROVE HistoryGrows
  BY <1>2, <1>3, <1>7 DEF Answer, At, HistoryGrows, Piece
<1>8. ASSUME RecordResults PROVE HistoryGrows
  <2>1. task = "settling" /\ messages' = messages \o Exchange(batch, FALSE)
    BY <1>8 DEF RecordResults, At
  <2>2. task' # "idle"
    BY <1>8, <2>1, LoopTopType DEF RecordResults, TypeInv
  <2> QED
    BY <1>3, <2>1, <2>2 DEF HistoryGrows, Piece
<1>9. ASSUME InterruptTurn PROVE HistoryGrows
  BY <1>3, <1>4, <1>9, EndCancelledGrows DEF InterruptTurn, BeforeTools
<1>10. ASSUME UnwindTools PROVE HistoryGrows
  BY <1>3, <1>10, EndCancelledGrows DEF UnwindTools, Piece
<1>11. ASSUME InterruptSettled PROVE HistoryGrows
  BY <1>3, <1>11, EndCancelledGrows DEF InterruptSettled, Piece
<1>12. ASSUME \/ CancelTurn \/ EnterDrive \/ PrepareFails \/ BeginLoop
               \/ StartIteration \/ PrepareRequest \/ SendRequest \/ FinishIteration
               \/ RunTools \/ GatherTools \/ DriveReturns \/ DriveRaises
               \/ InterruptTools \/ InterruptFailed \/ StreamCall \/ StreamEnds
               \/ ProviderFails \/ DeadlineExceeded
       PROVE  HistoryGrows
  BY <1>12 DEF HistoryGrows, loopVars, CancelTurn, EnterDrive, PrepareFails, BeginLoop, StartIteration, PrepareRequest, SendRequest, FinishIteration, RunTools, GatherTools, DriveReturns, DriveRaises, InterruptTools, InterruptFailed, StreamCall, StreamEnds, ProviderFails, DeadlineExceeded
<1>13. ASSUME NEW k \in Slots, ToolBody(k) \/ ToolStep(k) PROVE HistoryGrows
  BY <1>13 DEF HistoryGrows, loopVars, ToolFrame, ToolBody, ToolStep, AnnounceTool, ToolReturns,
               ToolRaises, ToolFinishes, ToolUnwinds
<1> QED
  BY <1>5, <1>6, <1>7, <1>8, <1>9, <1>10, <1>11, <1>12, <1>13
     DEF Next, LoopStep, CancelStep, ProviderStep

\* AgentLoop.messages can be sent to a provider at any moment, however a turn or
\* a tool batch was cut: the inductive step is that whatever a step appends is
\* complete in itself.
THEOREM HistoryAlwaysReplayable == Spec => []HistoryReplayable
<1>1. Init => HistoryReplayable
  BY DEF Init, HistoryReplayable, Replayable
<1>2. TypeInv /\ HistoryReplayable /\ [Next]_vars => HistoryReplayable'
  <2> SUFFICES ASSUME TypeInv, HistoryReplayable, [Next]_vars PROVE HistoryReplayable'
    OBVIOUS
  <2>1. CASE messages' = messages
    BY <2>1 DEF HistoryReplayable
  <2>2. CASE Next
    <3>1. HistoryGrows
      BY <2>2, HistoryStep
    <3>2. messages \in Seq(Message)
      BY DEF TypeInv, TypeOK, DataOK
    <3> QED
      BY <2>1, <3>1, <3>2, ReplayableConcat DEF HistoryGrows, Piece, HistoryReplayable
  <2> QED
    BY <2>1, <2>2 DEF vars, loopVars
<1> QED
  BY <1>1, <1>2, TypeInit, TypeStep, PTL DEF Spec

\* _run_tool_batch: no tool task of a batch runs once its turn has moved on, so
\* nothing of a turn still acts when its terminal event is out.
THEOREM NoStragglersEver == Spec => []NoStragglers
<1>1. TypeInv => NoStragglers
  BY DEF TypeInv, ToolsAwaited, NoStragglers, AllSettled
<1> QED
  BY <1>1, TypeInit, TypeStep, PTL DEF Spec

-----------------------------------------------------------------------------
(* The endings                                                             *)

\* Awaits of a turn whose terminal event is not published yet.
Open == BeforeTools \union {"new", "prepare", "tools", "settling", "unwinding"}

Ended == {"finished", "cancelled", "failed", "prepareFailed"}

\* How a step deals with turns and terminal events: the next turn begins; the
\* turn goes on or is over with what it has published; or one of the three kinds
\* of ending is published, "cancelled" also behind a first RunFinished.
Ending(outcome) == terminals' = [terminals EXCEPT ![turn] = Append(@, outcome)]

NextTurn ==
    /\ task = "idle" /\ task' = "new"
    /\ turn < MaxTurns /\ turn' = turn + 1 /\ terminals' = terminals
GoesOn ==
    /\ task # "idle" /\ turn' = turn /\ terminals' = terminals
    /\ \/ task \in Open /\ task' \in Open
       \/ task' = task
       \/ task \in Ended /\ task' = "idle"
Finishes ==
    /\ task \in Open /\ task' = "finished" /\ turn' = turn
    /\ \E outcome \in Outcomes \ {"failed"} : Ending(outcome)
IsCancelled ==
    task \in Open \union {"finished"} /\ task' = "cancelled" /\ turn' = turn /\ Ending("cancelled")
Fails ==
    task \in Open /\ task' \in {"failed", "prepareFailed"} /\ turn' = turn /\ Ending("failed")

TurnMoves == NextTurn \/ GoesOn \/ Finishes \/ IsCancelled \/ Fails

LEMMA LoopTopMoves ==
    ASSUME LoopTop, task \in Open, turn' = turn PROVE TurnMoves
<1>1. task # "idle"
  BY DEF Open, BeforeTools
<1>2. PICK why \in Cut :
        IF why = ""
        THEN /\ task' = "beforeIteration"
             /\ iteration' = iteration + 1
             /\ UNCHANGED <<terminals, after>>
        ELSE /\ task' = "finished"
             /\ SayTerminal("RunFinished", why)
             /\ UNCHANGED iteration
  BY DEF LoopTop
<1>3. CASE why = ""
  <2>1. task' = "beforeIteration" /\ terminals' = terminals
    BY <1>2, <1>3, Zenon
  <2> QED
    BY <1>1, <2>1 DEF TurnMoves, GoesOn, Open, BeforeTools
<1>4. CASE why # ""
  <2>1. why \in Outcomes \ {"failed"}
    BY <1>4 DEF Cut, Outcomes
  <2>2. task' = "finished" /\ Ending(why)
    BY <1>2, <1>4, Zenon DEF SayTerminal, Ending
  <2> QED
    BY <2>1, <2>2 DEF TurnMoves, Finishes
<1> QED
  BY <1>3, <1>4

LEMMA TurnStep ==
    ASSUME TypeInv, Next PROVE TurnMoves
<1> USE DEF TurnMoves, NextTurn, GoesOn, Finishes, IsCancelled, Fails, Open, BeforeTools, Ended, Ending, loopVars, turnVars, frameVars, historyVars
<1>1. ASSUME NEW input \in BOOLEAN, Start(input) PROVE TurnMoves
  BY <1>1 DEF Start
<1>2. ASSUME CancelTurn \/ EnterDrive PROVE TurnMoves
  BY <1>2 DEF CancelTurn, EnterDrive
<1>3. ASSUME Prepared PROVE TurnMoves
  <2>1. CASE stopRequested
    BY <1>3, <2>1 DEF Prepared, EndCancelled, SayTerminal
  <2>2. CASE ~stopRequested
    <3>1. task = "prepare" /\ task' = "runStarted" /\ turn' = turn /\ terminals' = terminals
      BY <1>3, <2>2, Zenon DEF Prepared
    <3> QED
      BY <3>1
  <2> QED
    BY <2>1, <2>2
<1>4. ASSUME PrepareFails PROVE TurnMoves
  BY <1>4 DEF PrepareFails, SayTerminal
<1>5. ASSUME BeginLoop \/ RecordResults PROVE TurnMoves
  BY <1>5, LoopTopMoves DEF BeginLoop, RecordResults, At
<1>6. ASSUME \/ StartIteration \/ PrepareRequest \/ SendRequest \/ FinishIteration
             \/ RunTools \/ GatherTools \/ StreamCall \/ StreamEnds \/ InterruptTools
      PROVE  TurnMoves
  BY <1>6 DEF StartIteration, PrepareRequest, SendRequest, FinishIteration, RunTools,
              GatherTools, StreamCall, StreamEnds, InterruptTools, At
<1>7. ASSUME Answer \/ DeadlineExceeded PROVE TurnMoves
  BY <1>7 DEF Answer, DeadlineExceeded, SayTerminal, At, Outcomes
<1>8. ASSUME ProviderFails PROVE TurnMoves
  BY <1>8 DEF ProviderFails, EndFailed, SayTerminal, At
<1>9. ASSUME InterruptTurn \/ UnwindTools \/ InterruptSettled PROVE TurnMoves
  BY <1>9 DEF InterruptTurn, UnwindTools, InterruptSettled, EndCancelled, SayTerminal
<1>10. ASSUME InterruptFailed \/ DriveReturns \/ DriveRaises PROVE TurnMoves
  BY <1>10 DEF InterruptFailed, DriveReturns, DriveRaises
<1>11. ASSUME NEW k \in Slots, ToolBody(k) \/ ToolStep(k) PROVE TurnMoves
  <2>1. tool[k] \notin {"none", "done"} /\ UNCHANGED <<turn, task, terminals>>
    BY <1>11 DEF ToolBody, ToolStep, ToolFrame, AnnounceTool, ToolReturns, ToolRaises,
                 ToolFinishes, ToolUnwinds
  <2>2. task # "idle"
    BY <2>1 DEF TypeInv, ToolsAwaited
  <2> QED
    BY <2>1, <2>2
<1> QED
  BY <1>1, <1>2, <1>3, <1>4, <1>5, <1>6, <1>7, <1>8, <1>9, <1>10, <1>11
     DEF Next, LoopStep, CancelStep, ProviderStep

\* What the terminal events of a turn may amount to once its task has ended.
EndedWell(s) ==
    /\ s # <<>>
    /\ Len(s) > 1 => Len(s) = 2 /\ s[2] = "cancelled" /\ s[1] # "failed"

\* The strengthening: where the turn's task is tells what it has published.
EndInv ==
    \A t \in Turns :
        /\ t < turn => EndedWell(terminals[t])
        /\ t > turn => terminals[t] = <<>>
        /\ t = turn /\ task \in Open => terminals[t] = <<>>
        /\ t = turn /\ task = "finished" => Len(terminals[t]) = 1 /\ terminals[t][1] # "failed"
        /\ t = turn /\ task \notin Open => EndedWell(terminals[t])

LEMMA EndStep == TypeInv /\ EndInv /\ [Next]_vars => EndInv'
<1> SUFFICES ASSUME TypeInv, EndInv, [Next]_vars PROVE EndInv'
  OBVIOUS
<1>1. CASE UNCHANGED vars
  BY <1>1 DEF vars, loopVars, historyVars, EndInv
<1>2. CASE Next
  <2> USE DEF EndInv
  <2>1. TurnMoves
    BY <1>2, TurnStep
  <2>2. /\ terminals \in [Turns -> Seq(Outcomes)]
        /\ turn \in Nat /\ (task # "idle" => turn \in Turns) /\ Turns \subseteq Nat
    BY TurnAssumption DEF TypeInv, TypeOK, DataOK, Turns
  <2>3. CASE NextTurn
    <3>1. "idle" \notin Open /\ "new" \in Open /\ "finished" \notin Open
      BY DEF Open, BeforeTools
    <3> QED
      BY <2>2, <2>3, <3>1 DEF NextTurn
  <2>4. CASE GoesOn
    <3>1. "idle" \notin Open /\ "finished" \notin Open /\ (task \in Ended => task \notin Open)
      BY DEF Open, BeforeTools, Ended
    <3> QED
      BY <2>2, <2>4, <3>1 DEF GoesOn
  <2>5. ASSUME NEW outcome \in Outcomes, turn' = turn, task # "idle", Ending(outcome),
               \/ task \in Open /\ task' \in Ended
               \/ task = "finished" /\ task' = "cancelled",
               outcome = "failed" <=> task' \in {"failed", "prepareFailed"},
               task' = "cancelled" => outcome = "cancelled"
        PROVE  EndInv'
    <3>1. task' \notin Open /\ "finished" \notin Open
      BY <2>5 DEF Open, BeforeTools, Ended
    <3>2. turn \in Turns /\ terminals[turn] \in Seq(Outcomes)
      BY <2>2, <2>5
    <3>3. /\ \A t \in Turns : t # turn => terminals'[t] = terminals[t]
          /\ terminals'[turn] = Append(terminals[turn], outcome)
      BY <2>2, <2>5, <3>2 DEF Ending
    <3>4. CASE task \in Open
      <4>1. terminals'[turn] = <<outcome>>
        <5>1. terminals[turn] = <<>>
          BY <3>2, <3>4
        <5> QED
          BY <3>3, <5>1
      <4>2. EndedWell(terminals'[turn])
        BY <4>1 DEF EndedWell
      <4>3. task' = "finished" => outcome # "failed"
        BY <2>5
      <4> QED
        BY <2>2, <2>5, <3>1, <3>2, <3>3, <4>1, <4>2, <4>3
    <3>5. CASE task = "finished" /\ task' = "cancelled"
      <4>1. Len(terminals[turn]) = 1 /\ terminals[turn][1] # "failed"
        BY <3>2, <3>5
      <4>2. /\ Len(terminals'[turn]) = 2
            /\ terminals'[turn][1] = terminals[turn][1] /\ terminals'[turn][2] = outcome
        BY <3>2, <3>3, <4>1
      <4>3. EndedWell(terminals'[turn])
        BY <2>5, <3>5, <4>1, <4>2 DEF EndedWell
      <4>4. "cancelled" # "finished"
        OBVIOUS
      <4>5. \A t \in Turns : t # turn => (t < turn => EndedWell(terminals'[t]))
                                      /\ (t > turn => terminals'[t] = <<>>)
        BY <3>3
      <4> QED
        BY <2>2, <2>5, <3>1, <3>2, <3>5, <4>3, <4>4, <4>5
    <3> QED
      BY <2>5, <3>4, <3>5
  <2>6. "failed" \in Outcomes /\ "cancelled" \in Outcomes
    BY DEF Outcomes
  <2>7. task \in Open \union {"finished"} => task # "idle"
    BY DEF Open, BeforeTools
  <2>8. CASE Finishes
    BY <2>5, <2>7, <2>8 DEF Finishes, Ended
  <2>9. CASE IsCancelled
    BY <2>5, <2>6, <2>7, <2>9 DEF IsCancelled, Ended
  <2>10. CASE Fails
    BY <2>5, <2>6, <2>7, <2>10 DEF Fails, Ended
  <2> HIDE DEF EndInv
  <2> QED
    BY <2>1, <2>3, <2>4, <2>8, <2>9, <2>10 DEF TurnMoves
<1> QED
  BY <1>1, <1>2

LEMMA EndInit == Init => EndInv
BY TurnAssumption DEF Init, EndInv, Turns, Open, BeforeTools

\* Every turn whose task is over published a terminal event, and a second one
\* only when it was cancelled while the first was handed to the hooks.
THEOREM EveryTurnEndsReported == Spec => []EndedTurnReported /\ []SecondTerminalIsCancel
<1>1. TypeInv /\ EndInv => EndedTurnReported /\ SecondTerminalIsCancel
  <2> SUFFICES ASSUME TypeInv, EndInv PROVE EndedTurnReported /\ SecondTerminalIsCancel
    OBVIOUS
  <2>1. \A t \in 1 .. turn : t \in Turns /\ (t < turn \/ t = turn)
    BY TurnAssumption DEF TypeInv, TypeOK, DataOK, Turns
  <2>2. "idle" \notin Open
    BY DEF Open, BeforeTools
  <2>3. ASSUME NEW t \in 1 .. turn
        PROVE  EndedWell(terminals[t]) \/ (t = turn /\ task \in Open /\ terminals[t] = <<>>)
    BY <2>1 DEF EndInv
  <2>4. EndedTurnReported
    BY <2>1, <2>2, <2>3 DEF EndedTurnReported, EndedWell
  <2>5. SecondTerminalIsCancel
    BY <2>3 DEF SecondTerminalIsCancel, EndedWell
  <2> QED
    BY <2>4, <2>5
<1> QED
  BY <1>1, TypeInit, TypeStep, EndInit, EndStep, PTL DEF Spec

-----------------------------------------------------------------------------
(* What an ending leaves behind                                            *)

\* Before its terminal event a turn publishes what it likes; the terminal one is
\* all it publishes from then on.
LEMMA SayOpen ==
    ASSUME TypeInv, EndInv, task \in Open, NEW kind, Say(kind)
    PROVE  after' = after
<1>1. turn \in Turns
  BY DEF TypeInv, Open, BeforeTools
<1>2. terminals[turn] = <<>>
  BY <1>1 DEF EndInv
<1> QED
  BY <1>2 DEF Say

LEMMA LoopTopQuiet ==
    ASSUME QuietAfterTerminal, LoopTop PROVE QuietAfterTerminal'
<1>1. after' = after \/ \E why \in Cut : SayTerminal("RunFinished", why)
  BY DEF LoopTop
<1> QED
  BY <1>1 DEF SayTerminal, Say, QuietAfterTerminal

LEMMA QuietStep ==
    ASSUME TypeInv, EndInv, QuietAfterTerminal, Next PROVE QuietAfterTerminal'
<1> USE DEF loopVars, turnVars, frameVars, historyVars
<1>1. ASSUME after' = after PROVE QuietAfterTerminal'
  BY <1>1 DEF QuietAfterTerminal
<1>2. ASSUME NEW kind, Say(kind), kind = "RunFinished" \/ task \in Open PROVE QuietAfterTerminal'
  BY <1>2, SayOpen DEF Say, QuietAfterTerminal
<1>3. ASSUME NEW input \in BOOLEAN, Start(input) PROVE QuietAfterTerminal'
  BY <1>3 DEF Start, QuietAfterTerminal
<1>4. ASSUME CancelTurn \/ EnterDrive PROVE QuietAfterTerminal'
  BY <1>1, <1>4 DEF CancelTurn, EnterDrive
<1>5. ASSUME Prepared PROVE QuietAfterTerminal'
  <2>1. "prepare" \in Open /\ task = "prepare"
    BY <1>5 DEF Prepared, Open, BeforeTools
  <2>2. Say("RunStarted") \/ Say("RunFinished")
    BY <1>5 DEF Prepared, EndCancelled, SayTerminal
  <2> QED
    BY <1>2, <2>1, <2>2
<1>6. ASSUME PrepareFails PROVE QuietAfterTerminal'
  BY <1>2, <1>6 DEF PrepareFails, SayTerminal, Open, BeforeTools
<1>7. ASSUME BeginLoop \/ RecordResults PROVE QuietAfterTerminal'
  BY <1>7, LoopTopQuiet DEF BeginLoop, RecordResults
<1>8. ASSUME StartIteration \/ FinishIteration \/ StreamCall PROVE QuietAfterTerminal'
  <2>1. task \in Open
    BY <1>8 DEF StartIteration, FinishIteration, StreamCall, At, Open, BeforeTools
  <2>2. Say("IterationStarted") \/ Say("IterationFinished") \/ Say("ToolCallArgsDelta")
    BY <1>8 DEF StartIteration, FinishIteration, StreamCall
  <2> QED
    BY <1>2, <2>1, <2>2
<1>9. ASSUME \/ PrepareRequest \/ SendRequest \/ StreamEnds \/ RunTools \/ GatherTools
             \/ InterruptTools \/ InterruptFailed \/ DriveReturns \/ DriveRaises
      PROVE  QuietAfterTerminal'
  BY <1>1, <1>9 DEF PrepareRequest, SendRequest, StreamEnds, RunTools, GatherTools,
                    InterruptTools, InterruptFailed, DriveReturns, DriveRaises
<1>10. ASSUME Answer \/ DeadlineExceeded PROVE QuietAfterTerminal'
  BY <1>2, <1>10 DEF Answer, DeadlineExceeded, SayTerminal
<1>11. ASSUME ProviderFails PROVE QuietAfterTerminal'
  BY <1>2, <1>11 DEF ProviderFails, EndFailed, SayTerminal, At, Open, BeforeTools
<1>12. ASSUME InterruptTurn \/ UnwindTools \/ InterruptSettled PROVE QuietAfterTerminal'
  BY <1>2, <1>12 DEF InterruptTurn, UnwindTools, InterruptSettled, EndCancelled, SayTerminal
<1>13. ASSUME NEW k \in Slots, ToolBody(k) \/ ToolStep(k) PROVE QuietAfterTerminal'
  <2>1. tool[k] \notin {"none", "done"}
    BY <1>13 DEF ToolBody, ToolStep, AnnounceTool, ToolReturns, ToolRaises, ToolFinishes,
                 ToolUnwinds
  <2>2. task \in Open
    BY <2>1 DEF TypeInv, ToolsAwaited, Open
  <2>3. after' = after \/ Say("ToolCallStarted") \/ Say("ToolCallFinished")
    BY <1>13 DEF ToolBody, ToolStep, AnnounceTool, ToolReturns, ToolRaises, ToolFinishes,
                 ToolUnwinds
  <2> QED
    BY <1>1, <1>2, <2>2, <2>3
<1> QED
  BY <1>3, <1>4, <1>5, <1>6, <1>7, <1>8, <1>9, <1>10, <1>11, <1>12, <1>13
     DEF Next, LoopStep, CancelStep, ProviderStep

\* A turn is called cancelled from its cancelled ending on, and not before.
CancelledInv ==
    cancelled => /\ task \in {"cancelled", "idle"} /\ turn \in Turns
                 /\ terminals[turn] # <<>> /\ terminals[turn][Len(terminals[turn])] = "cancelled"
                 /\ messages # <<>> /\ messages[Len(messages)] = Interrupted

\* The cancelled ending says so in the record and in the history.
LEMMA EndCancelledSays ==
    ASSUME TypeInv, turn \in Turns, turn' = turn, NEW left \in Seq(Message), EndCancelled(left)
    PROVE  CancelledInv'
<1>1. /\ messages \in Seq(Message) /\ Interrupted \in Message
      /\ terminals \in [Turns -> Seq(Outcomes)] /\ "cancelled" \in Outcomes
  BY DEF TypeInv, TypeOK, DataOK, Outcomes, Interrupted, Message
<1>2. terminals'[turn] = Append(terminals[turn], "cancelled") /\ task' = "cancelled"
  BY <1>1 DEF EndCancelled, SayTerminal
<1>3. terminals'[turn] # <<>> /\ terminals'[turn][Len(terminals'[turn])] = "cancelled"
  <2> DEFINE said == terminals[turn]
  <2>1. said \in Seq(Outcomes)
    BY <1>1
  <2> HIDE DEF said
  <2>2. /\ Len(Append(said, "cancelled")) = Len(said) + 1 /\ Len(said) \in Nat
        /\ Append(said, "cancelled")[Len(said) + 1] = "cancelled"
    BY <1>1, <2>1, AppendProperties
  <2>3. Append(said, "cancelled") # <<>>
    BY <2>1, <2>2
  <2> QED
    BY <1>2, <2>2, <2>3 DEF said
<1>4. messages' # <<>> /\ messages'[Len(messages')] = Interrupted
  <2> DEFINE before == messages \o left
  <2>1. before \in Seq(Message) /\ <<Interrupted>> \in Seq(Message) /\ Len(<<Interrupted>>) = 1
        /\ <<Interrupted>>[1] = Interrupted
    BY <1>1
  <2>2. messages' = before \o <<Interrupted>>
    BY DEF EndCancelled
  <2> HIDE DEF before
  <2>3. Len(messages') = Len(before) + 1 /\ messages'[Len(before) + 1] = Interrupted /\ Len(before) \in Nat
        /\ messages' \in Seq(Message)
    BY <2>1, <2>2, ConcatIndex
  <2> QED
    BY <2>3
<1> QED
  BY <1>2, <1>3, <1>4 DEF CancelledInv

LEMMA CancelledStep ==
    ASSUME TypeInv, CancelledInv, Next PROVE CancelledInv'
<1> USE DEF loopVars, turnVars, frameVars, historyVars
<1>1. ASSUME ~cancelled' PROVE CancelledInv'
  BY <1>1 DEF CancelledInv
<1>2. ASSUME UNCHANGED <<cancelled, turn, terminals, messages>>, task' \in {"idle", task}
      PROVE  CancelledInv'
  BY <1>2 DEF CancelledInv
<1>3. ASSUME task \notin {"cancelled", "idle"}, cancelled' = cancelled PROVE CancelledInv'
  BY <1>3 DEF CancelledInv
<1>4. ASSUME NEW input \in BOOLEAN, Start(input) PROVE CancelledInv'
  BY <1>1, <1>4 DEF Start
<1>5. ASSUME CancelTurn PROVE CancelledInv'
  BY <1>2, <1>5 DEF CancelTurn
<1>6. ASSUME Prepared PROVE CancelledInv'
  <2>1. CASE stopRequested
    <3>1. EndCancelled(<<>>) /\ turn' = turn /\ turn \in Turns /\ <<>> \in Seq(Message)
      BY <1>6, <2>1 DEF Prepared, TypeInv
    <3> QED
      BY <3>1, EndCancelledSays
  <2>2. CASE ~stopRequested
    <3>1. task = "prepare" /\ cancelled' = cancelled
      BY <1>6, <2>2, Zenon DEF Prepared
    <3> QED
      BY <1>3, <3>1
  <2> QED
    BY <2>1, <2>2
<1>7. ASSUME \/ EnterDrive \/ PrepareFails \/ BeginLoop \/ StartIteration \/ PrepareRequest
             \/ SendRequest \/ FinishIteration \/ Answer \/ RunTools \/ GatherTools
             \/ RecordResults \/ DriveRaises \/ InterruptTools \/ InterruptFailed
             \/ StreamCall \/ StreamEnds \/ ProviderFails \/ DeadlineExceeded
      PROVE  CancelledInv'
  <2>1. task \notin {"cancelled", "idle"} /\ cancelled' = cancelled
    BY <1>7 DEF EnterDrive, PrepareFails, BeginLoop, StartIteration, PrepareRequest, SendRequest,
                FinishIteration, Answer, RunTools, GatherTools, RecordResults, DriveRaises,
                InterruptTools, InterruptFailed, StreamCall, StreamEnds, ProviderFails,
                DeadlineExceeded, At
  <2> QED
    BY <1>3, <2>1
<1>8. ASSUME DriveReturns PROVE CancelledInv'
  BY <1>2, <1>8 DEF DriveReturns
<1>9. ASSUME InterruptTurn \/ UnwindTools \/ InterruptSettled PROVE CancelledInv'
  <2>1. PICK left \in Seq(Message) : EndCancelled(left)
    <3>1. batch \in Seq(Nat) /\ <<>> \in Seq(Message)
      BY DEF TypeInv, TypeOK, DataOK
    <3>2. Exchange(batch, TRUE) \in Seq(Message)
      BY <3>1, MessageTypes
    <3> QED
      BY <1>9, <3>1, <3>2 DEF InterruptTurn, UnwindTools, InterruptSettled
  <2>2. turn' = turn /\ task # "idle"
    BY <1>9 DEF InterruptTurn, UnwindTools, InterruptSettled, BeforeTools
  <2> QED
    BY <2>1, <2>2, EndCancelledSays DEF TypeInv
<1>10. ASSUME NEW k \in Slots, ToolBody(k) \/ ToolStep(k) PROVE CancelledInv'
  BY <1>2, <1>10 DEF ToolFrame, ToolBody, ToolStep, AnnounceTool, ToolReturns, ToolRaises,
                     ToolFinishes, ToolUnwinds
<1> QED
  BY <1>4, <1>5, <1>6, <1>7, <1>8, <1>9, <1>10 DEF Next, LoopStep, CancelStep, ProviderStep

\* The prompt the finally puts back is the surface, and until a turn has one to
\* put back no hook has been asked.
Unprepared == {"idle", "new", "prepare", "prepareFailed"}
PromptInv ==
    /\ task \in Unprepared => prompt # "rewrite"
    /\ task \notin Unprepared => baseline = "surface"

LEMMA PromptStep ==
    ASSUME TypeInv, PromptInv, Next PROVE PromptInv'
<1> USE DEF loopVars, turnVars, frameVars, historyVars, Unprepared
<1>1. ASSUME prompt' = prompt \/ prompt' = "rewrite", baseline' = baseline,
             task \notin Unprepared, task' \notin Unprepared
      PROVE  PromptInv'
  BY <1>1 DEF PromptInv
<1>2. ASSUME UNCHANGED <<prompt, baseline>>,
             task' = task \/ (task \in Unprepared /\ task' \in Unprepared)
      PROVE  PromptInv'
  BY <1>2 DEF PromptInv
<1>3. ASSUME NEW input \in BOOLEAN, Start(input) PROVE PromptInv'
  BY <1>2, <1>3 DEF Start
<1>4. ASSUME CancelTurn \/ EnterDrive \/ PrepareFails \/ DriveRaises PROVE PromptInv'
  BY <1>2, <1>4 DEF CancelTurn, EnterDrive, PrepareFails, DriveRaises
<1>5. ASSUME Prepared PROVE PromptInv'
  <2>1. prompt \in {"placeholder", "surface"}
    BY <1>5 DEF Prepared, PromptInv, TypeInv, TypeOK, DataOK
  <2>2. baseline' = "surface"
    BY <1>5, <2>1 DEF Prepared
  <2>3. task' \in {"cancelled", "runStarted"}
    BY <1>5 DEF Prepared, EndCancelled
  <2> QED
    BY <2>2, <2>3 DEF PromptInv
<1>6. ASSUME BeginLoop \/ RecordResults PROVE PromptInv'
  <2>1. /\ task \notin Unprepared /\ UNCHANGED <<prompt, baseline>> /\ LoopTop
        /\ task # "idle"
    BY <1>6 DEF BeginLoop, RecordResults, At
  <2>2. task' \in {"beforeIteration", "finished"}
    BY <2>1, LoopTopType DEF TypeInv
  <2> QED
    BY <1>1, <2>1, <2>2
<1>7. ASSUME \/ StartIteration \/ PrepareRequest \/ SendRequest \/ FinishIteration \/ Answer
             \/ RunTools \/ GatherTools \/ InterruptTools \/ StreamCall \/ StreamEnds
             \/ ProviderFails \/ DeadlineExceeded
      PROVE  PromptInv'
  <2>1. /\ prompt' \in {prompt, "rewrite"} /\ baseline' = baseline
        /\ task \notin Unprepared /\ task' \notin Unprepared
    BY <1>7 DEF StartIteration, PrepareRequest, SendRequest, FinishIteration, Answer, RunTools,
                GatherTools, InterruptTools, StreamCall, StreamEnds, ProviderFails,
                DeadlineExceeded, EndFailed, At
  <2> QED
    BY <1>1, <2>1
<1>8. ASSUME InterruptTurn \/ UnwindTools \/ InterruptSettled PROVE PromptInv'
  <2>1. /\ UNCHANGED <<prompt, baseline>> /\ task \notin Unprepared /\ task' \notin Unprepared
    BY <1>8 DEF InterruptTurn, UnwindTools, InterruptSettled, EndCancelled, BeforeTools
  <2> QED
    BY <1>1, <2>1
<1>9. ASSUME DriveReturns \/ InterruptFailed PROVE PromptInv'
  <2>1. task \notin Unprepared /\ task' = "idle" /\ prompt' = baseline
    BY <1>9 DEF DriveReturns, InterruptFailed
  <2> QED
    BY <2>1 DEF PromptInv
<1>10. ASSUME NEW k \in Slots, ToolBody(k) \/ ToolStep(k) PROVE PromptInv'
  BY <1>2, <1>10 DEF ToolFrame, ToolBody, ToolStep, AnnounceTool, ToolReturns, ToolRaises,
                     ToolFinishes, ToolUnwinds
<1> QED
  BY <1>3, <1>4, <1>5, <1>6, <1>7, <1>8, <1>9, <1>10 DEF Next, LoopStep, CancelStep, ProviderStep

\* Only a turn that is over can have raised, and it published the failure.
Failure(t) == terminals[t] # <<>> /\ terminals[t][Len(terminals[t])] = "failed"
RaisedInv ==
    /\ \A t \in raised : t <= turn /\ (t = turn => task = "idle") /\ Failure(t)
    /\ task \in {"failed", "prepareFailed"} => Failure(turn)

LEMMA RaisedStep ==
    ASSUME TypeInv, EndInv, RaisedInv, Next PROVE RaisedInv'
<1>1. /\ terminals \in [Turns -> Seq(Outcomes)] /\ turn \in Nat /\ raised \subseteq Turns
      /\ Turns \subseteq Nat /\ (task # "idle" => turn \in Turns)
  BY TurnAssumption DEF TypeInv, TypeOK, DataOK, Turns
<1>2. TurnMoves
  BY TurnStep
<1>3. raised' = raised
        \/ (raised' = raised \union {turn} /\ task \in {"failed", "prepareFailed"}
              /\ task' = "idle" /\ UNCHANGED <<turn, terminals>>)
  <2> USE DEF loopVars, turnVars, frameVars, historyVars
  <2>1. ASSUME InterruptFailed \/ DriveRaises
        PROVE  /\ raised' = raised \union {turn} /\ task \in {"failed", "prepareFailed"}
               /\ task' = "idle" /\ UNCHANGED <<turn, terminals>>
    BY <2>1 DEF InterruptFailed, DriveRaises
  <2>2. ASSUME \/ \E input \in BOOLEAN : Start(input)
               \/ CancelTurn \/ EnterDrive \/ Prepared \/ PrepareFails \/ BeginLoop
               \/ StartIteration \/ PrepareRequest \/ SendRequest \/ FinishIteration \/ Answer
        PROVE  raised' = raised
    BY <2>2 DEF Start, CancelTurn, EnterDrive, Prepared, PrepareFails, BeginLoop, StartIteration,
                PrepareRequest, SendRequest, FinishIteration, Answer
  <2>3. ASSUME \/ RunTools \/ GatherTools \/ RecordResults \/ DriveReturns
               \/ InterruptTurn \/ InterruptTools \/ UnwindTools \/ InterruptSettled
               \/ StreamCall \/ StreamEnds \/ ProviderFails \/ DeadlineExceeded
        PROVE  raised' = raised
    BY <2>3 DEF RunTools, GatherTools, RecordResults, DriveReturns, InterruptTurn, InterruptTools,
                UnwindTools, InterruptSettled, StreamCall, StreamEnds, ProviderFails,
                DeadlineExceeded
  <2>4. ASSUME NEW k \in Slots, ToolBody(k) \/ ToolStep(k) PROVE raised' = raised
    BY <2>4 DEF ToolFrame, ToolBody, ToolStep, AnnounceTool, ToolReturns, ToolRaises,
                ToolFinishes, ToolUnwinds
  <2> QED
    BY <2>1, <2>2, <2>3, <2>4 DEF Next, LoopStep, CancelStep, ProviderStep
<1>4. CASE NextTurn
  <2>1. raised' = raised /\ turn' = turn + 1 /\ terminals' = terminals /\ task' = "new"
    BY <1>3, <1>4 DEF NextTurn
  <2>2. \A t \in raised : t \in Nat /\ t <= turn /\ Failure(t)
    BY <1>1 DEF RaisedInv
  <2>3. \A t \in raised : t <= turn' /\ t # turn'
    BY <1>1, <2>1, <2>2
  <2> QED
    BY <2>1, <2>2, <2>3 DEF RaisedInv, Failure
<1>5. CASE GoesOn
  <2>1. turn' = turn /\ terminals' = terminals /\ task # "idle"
    BY <1>5 DEF GoesOn
  <2>2. task' \in {"failed", "prepareFailed"} => task' = task
    BY <1>5 DEF GoesOn, Open, BeforeTools
  <2>4. \A t \in raised : t <= turn /\ t # turn /\ Failure(t)
    BY <2>1 DEF RaisedInv
  <2>5. task \in {"failed", "prepareFailed"} => turn <= turn /\ Failure(turn)
    BY <1>1 DEF RaisedInv
  <2>3. \A t \in raised' : t <= turn /\ (t = turn => task' = "idle") /\ Failure(t)
    BY <1>3, <2>4, <2>5
  <2> QED
    BY <2>1, <2>2, <2>3 DEF RaisedInv, Failure
<1>6. ASSUME NEW outcome \in Outcomes, turn' = turn, task # "idle", Ending(outcome),
             task' \in {"finished", "cancelled"} \/ outcome = "failed", raised' = raised
      PROVE  RaisedInv'
  <2>1. turn \in Turns /\ terminals[turn] \in Seq(Outcomes)
    BY <1>1, <1>6
  <2>2. \A t \in raised : t # turn /\ t <= turn /\ Failure(t)
    BY <1>6 DEF RaisedInv
  <2>3. \A t \in raised : terminals'[t] = terminals[t]
    BY <1>1, <1>6, <2>2 DEF Ending
  <2>4. outcome = "failed" => terminals'[turn] # <<>> /\ terminals'[turn][Len(terminals'[turn])] = "failed"
    <3> SUFFICES ASSUME outcome = "failed"
                 PROVE  terminals'[turn] # <<>> /\ terminals'[turn][Len(terminals'[turn])] = "failed"
      OBVIOUS
    <3> DEFINE said == terminals[turn]
    <3>1. terminals'[turn] = Append(said, "failed")
      BY <1>1, <1>6, <2>1 DEF Ending
    <3>2. said \in Seq(Outcomes) /\ "failed" \in Outcomes
      BY <2>1 DEF Outcomes
    <3> HIDE DEF said
    <3>3. /\ Len(Append(said, "failed")) = Len(said) + 1 /\ Len(said) \in Nat
          /\ Append(said, "failed")[Len(said) + 1] = "failed"
      BY <3>2, AppendProperties
    <3> QED
      BY <3>1, <3>2, <3>3
  <2> QED
    BY <1>6, <2>2, <2>3, <2>4 DEF RaisedInv, Failure
<1>7. task \in Open \union {"finished"} => task \notin {"idle", "failed", "prepareFailed"}
  BY DEF Open, BeforeTools
<1>8. "failed" \in Outcomes /\ "cancelled" \in Outcomes
  BY DEF Outcomes
<1>9. CASE Finishes
  BY <1>3, <1>6, <1>7, <1>9 DEF Finishes
<1>10. CASE IsCancelled
  BY <1>3, <1>6, <1>7, <1>8, <1>10 DEF IsCancelled
<1>11. CASE Fails
  BY <1>3, <1>6, <1>7, <1>8, <1>11 DEF Fails
<1> QED
  BY <1>2, <1>4, <1>5, <1>9, <1>10, <1>11 DEF TurnMoves

\* The four together.
CleanInv == QuietAfterTerminal /\ CancelledInv /\ PromptInv /\ RaisedInv

LEMMA CleanInit == Init => CleanInv
BY DEF Init, CleanInv, QuietAfterTerminal, CancelledInv, PromptInv, Unprepared, RaisedInv

LEMMA CleanStep == TypeInv /\ EndInv /\ CleanInv /\ [Next]_vars => CleanInv'
<1> SUFFICES ASSUME TypeInv, EndInv, CleanInv, [Next]_vars PROVE CleanInv'
  OBVIOUS
<1>1. CASE Next
  BY <1>1, QuietStep, CancelledStep, PromptStep, RaisedStep DEF CleanInv
<1>2. CASE UNCHANGED vars
  BY <1>2 DEF vars, loopVars, turnVars, frameVars, historyVars, CleanInv, QuietAfterTerminal,
              CancelledInv, PromptInv, Unprepared, RaisedInv, Failure
<1> QED
  BY <1>1, <1>2

\* What a turn leaves behind tells how it ended: a cancelled turn says so in its
\* terminal event and in its last message, a turn whose task raised reported the
\* failure, nothing is published behind the terminal event but a cancellation's,
\* and a hook's rewrite of the prompt is gone.
THEOREM TurnsEndClean == Spec => []EndsClean
<1>1. TypeInv /\ CleanInv => /\ TypeOK /\ QuietAfterTerminal /\ CancelledSaysSo
                             /\ PromptRestored /\ RaisedIsFailed
  BY DEF TypeInv, CleanInv, CancelledInv, CancelledSaysSo, PromptInv, PromptRestored, Unprepared,
         BeforeTools, RaisedInv, Failure, RaisedIsFailed
<1> QED
  BY <1>1, TypeInit, TypeStep, EndInit, EndStep, CleanInit, CleanStep, EveryTurnEndsReported, PTL
     DEF Spec, EndsClean

-----------------------------------------------------------------------------
(* The budget                                                              *)

\* Where the calls behind message "from" are made: message and place in it.
CallsAfter(h, from) ==
    {p \in (from + 1 .. Len(h)) \X Slots :
        h[p[1]].role = "assistant" /\ p[2] <= Len(h[p[1]].ids)}
IdOf(h, p) == h[p[1]].ids[p[2]]

LEMMA CallsFinite ==
    ASSUME NEW h \in Seq(Message), NEW from \in 0 .. Len(h)
    PROVE  IsFiniteSet(CallsAfter(h, from)) /\ Cardinality(CallsAfter(h, from)) \in Nat
<1>1. IsFiniteSet(from + 1 .. Len(h)) /\ IsFiniteSet(Slots)
  BY TurnAssumption, FS_Interval DEF Slots
<1>2. IsFiniteSet((from + 1 .. Len(h)) \X Slots)
  BY <1>1, FS_Product
<1>3. CallsAfter(h, from) \in SUBSET ((from + 1 .. Len(h)) \X Slots)
  BY DEF CallsAfter
<1> QED
  BY <1>2, <1>3, FS_Subset, FS_CardinalityType

\* A batch in the history adds its calls, all of which are new places.
LEMMA CallsGrow ==
    ASSUME NEW h \in Seq(Message), NEW calls \in Seq(Nat), Len(calls) <= MaxBatch,
           NEW from \in 0 .. Len(h), NEW note \in BOOLEAN
    PROVE  LET g == h \o Exchange(calls, note) IN
           /\ CallsAfter(g, from)
                = CallsAfter(h, from) \union ({Len(h) + 1} \X (1 .. Len(calls)))
           /\ Cardinality(CallsAfter(g, from)) = Cardinality(CallsAfter(h, from)) + Len(calls)
           /\ \A p \in CallsAfter(h, from) : IdOf(g, p) = IdOf(h, p)
           /\ \A k \in 1 .. Len(calls) : IdOf(g, <<Len(h) + 1, k>>) = calls[k]
<1> DEFINE e == Exchange(calls, note)
           g == h \o e
           new == {Len(h) + 1} \X (1 .. Len(calls))
<1>1. /\ e \in Seq(Message) /\ Len(e) = 1 + Len(calls) /\ e[1] = Assistant(calls)
      /\ \A k \in 1 .. Len(calls) : e[1 + k] = Result(calls[k], note)
  BY MessageTypes
<1> HIDE DEF e
<1>2. /\ Len(g) = Len(h) + 1 + Len(calls) /\ Len(h) \in Nat /\ Len(calls) \in Nat
      /\ \A i \in 1 .. Len(h) : g[i] = h[i]
      /\ \A i \in 1 .. 1 + Len(calls) : g[Len(h) + i] = e[i]
  <2>1. g \in Seq(Message) /\ Len(g) = Len(h) + Len(e)
        /\ (\A i \in 1 .. Len(h) : g[i] = h[i])
        /\ (\A i \in 1 .. Len(e) : g[Len(h) + i] = e[i])
    <3>1. h \in Seq(Message) /\ e \in Seq(Message)
      BY <1>1
    <3> QED
      BY ONLY <3>1, ConcatIndex
  <2>2. Len(h) \in Nat /\ Len(calls) \in Nat
    OBVIOUS
  <2> HIDE DEF g
  <2> QED
    BY <1>1, <2>1, <2>2
<1> HIDE DEF g
<1>3. g[Len(h) + 1].role = "assistant" /\ g[Len(h) + 1].ids = calls
  BY <1>1, <1>2 DEF Assistant
<1>4. \A i \in Len(h) + 2 .. Len(g) : g[i].role = "tool"
  <2> TAKE i \in Len(h) + 2 .. Len(g)
  <2>1. i - Len(h) - 1 \in 1 .. Len(calls) /\ i - Len(h) \in 1 .. 1 + Len(calls)
    BY <1>2
  <2>2. g[i] = e[i - Len(h)] /\ e[i - Len(h)] = e[1 + (i - Len(h) - 1)]
    BY <1>2, <2>1
  <2>3. g[i] = Result(calls[i - Len(h) - 1], note)
    BY <1>1, <2>1, <2>2
  <2> QED
    BY <2>3 DEF Result
<1>5. ASSUME NEW i \in from + 1 .. Len(g), NEW k \in Slots
      PROVE  (g[i].role = "assistant" /\ k <= Len(g[i].ids))
                <=> \/ i \in from + 1 .. Len(h) /\ h[i].role = "assistant" /\ k <= Len(h[i].ids)
                    \/ i = Len(h) + 1 /\ k \in 1 .. Len(calls)
  <2>1. CASE i <= Len(h)
    BY <1>2, <2>1
  <2>2. CASE i = Len(h) + 1
    BY <1>2, <1>3, <2>2 DEF Slots
  <2>3. CASE i > Len(h) + 1
    <3>1. i \in Len(h) + 2 .. Len(g)
      BY <1>2, <2>3
    <3> QED
      BY <1>2, <1>4, <2>3, <3>1
  <2> QED
    BY <1>2, <2>1, <2>2, <2>3
<1>6. CallsAfter(g, from) = CallsAfter(h, from) \union new
  <2>1. ASSUME NEW p \in CallsAfter(g, from) PROVE p \in CallsAfter(h, from) \union new
    <3>1. PICK i \in from + 1 .. Len(g), k \in Slots : p = <<i, k>>
      BY <2>1 DEF CallsAfter
    <3>2. g[i].role = "assistant" /\ k <= Len(g[i].ids)
      BY <2>1, <3>1 DEF CallsAfter
    <3> QED
      BY <1>5, <3>1, <3>2 DEF CallsAfter
  <2>2. ASSUME NEW p \in CallsAfter(h, from) PROVE p \in CallsAfter(g, from)
    <3>1. PICK i \in from + 1 .. Len(h), k \in Slots : p = <<i, k>>
      BY <2>2 DEF CallsAfter
    <3>2. h[i].role = "assistant" /\ k <= Len(h[i].ids) /\ i \in from + 1 .. Len(g)
      BY <1>2, <2>2, <3>1 DEF CallsAfter
    <3> QED
      BY <1>5, <3>1, <3>2 DEF CallsAfter
  <2>3. ASSUME NEW p \in new PROVE p \in CallsAfter(g, from)
    <3>1. PICK k \in 1 .. Len(calls) : p = <<Len(h) + 1, k>>
      BY <2>3
    <3>2. k \in Slots /\ Len(h) + 1 \in from + 1 .. Len(g)
      BY <1>2, TurnAssumption DEF Slots
    <3> QED
      BY <1>5, <3>1, <3>2 DEF CallsAfter
  <2> QED
    BY <2>1, <2>2, <2>3
<1>7. CallsAfter(h, from) \cap new = {}
  BY <1>2 DEF CallsAfter
<1>8. IsFiniteSet(new) /\ Cardinality(new) = Len(calls)
  <2>1. IsFiniteSet({Len(h) + 1}) /\ Cardinality({Len(h) + 1}) = 1
    BY FS_Singleton
  <2>2. IsFiniteSet(1 .. Len(calls)) /\ Cardinality(1 .. Len(calls)) = Len(calls)
    <3>1. 1 \in Int /\ Len(calls) \in Int
      BY <1>2
    <3>2. IsFiniteSet(1 .. Len(calls))
          /\ Cardinality(1 .. Len(calls)) = IF 1 > Len(calls) THEN 0 ELSE Len(calls) - 1 + 1
      BY ONLY <3>1, FS_Interval
    <3> QED
      BY <1>2, <3>2
  <2>3. IsFiniteSet(new) /\ Cardinality(new) = 1 * Len(calls)
    BY <2>1, <2>2, FS_Product
  <2> QED
    BY <1>2, <2>3
<1>9. Cardinality(CallsAfter(g, from)) = Cardinality(CallsAfter(h, from)) + Len(calls)
  <2>1. IsFiniteSet(CallsAfter(h, from)) /\ Cardinality(CallsAfter(h, from)) \in Nat
    BY CallsFinite
  <2>2. Cardinality(CallsAfter(h, from) \union new)
          = Cardinality(CallsAfter(h, from)) + Cardinality(new)
              - Cardinality(CallsAfter(h, from) \cap new)
    BY <1>8, <2>1, FS_Union
  <2>3. Cardinality(CallsAfter(h, from) \cap new) = 0
    BY <1>7, FS_EmptySet
  <2> QED
    BY <1>2, <1>6, <1>8, <2>1, <2>2, <2>3
<1>10. \A p \in CallsAfter(h, from) : IdOf(g, p) = IdOf(h, p)
  <2> TAKE p \in CallsAfter(h, from)
  <2>1. p[1] \in 1 .. Len(h)
    BY <1>2 DEF CallsAfter
  <2> QED
    BY <1>2, <2>1 DEF IdOf
<1>11. \A k \in 1 .. Len(calls) : IdOf(g, <<Len(h) + 1, k>>) = calls[k]
  BY <1>3 DEF IdOf
<1> QED
  BY <1>6, <1>9, <1>10, <1>11 DEF g, e

\* While no id is used twice, there are no more calls than ids.
LEMMA CallsCounted ==
    ASSUME NEW h \in Seq(Message), NEW from \in 0 .. Len(h), NEW ids, IsFiniteSet(ids),
           \A p \in CallsAfter(h, from) : IdOf(h, p) \in ids,
           \A p, q \in CallsAfter(h, from) : p # q => IdOf(h, p) # IdOf(h, q)
    PROVE  Cardinality(CallsAfter(h, from)) <= Cardinality(ids)
<1> DEFINE f == [p \in CallsAfter(h, from) |-> IdOf(h, p)]
<1>1. f \in Injection(CallsAfter(h, from), ids)
  BY DEF Injection, IsInjective
<1> QED
  BY <1>1, FS_Injection

\* The calls of the batch under way that were announced.
Announced ==
    {k \in Slots : task \in {"tools", "settling"} /\ tool[k] \in {"running", "completing", "done"}}

\* The calls a turn has announced: those in the history since some message of
\* it, whose ids are known, and those of the batch under way.
CountedFrom(from) ==
    /\ startedCalls <= Cardinality(CallsAfter(messages, from)) + Cardinality(Announced)
    /\ \A p \in CallsAfter(messages, from) : IdOf(messages, p) \in known

WithBatch == {"stream", "afterResponse", "iterationFinished", "tools", "settling"}

\* Where that count is kept: until the end of the batch, a cancelled one is not.
Counting == BeforeTools \union {"tools", "settling"}
Counted == \E from \in 0 .. Len(messages) : CountedFrom(from)

\* While its results can still be recorded, a batch is not cancelled.
BatchRuns ==
    task \in {"tools", "settling"} =>
        \A k \in Slots : /\ tool[k] \notin {"cancelling", "interrupted"}
                         /\ tool[k] # "none" => k <= Len(batch)

BatchKnown == task \in WithBatch => \A k \in 1 .. Len(batch) : batch[k] \in known

BudgetInv ==
    /\ IsFiniteSet(known)
    /\ task \in {"new", "prepare"} => startedCalls = 0
    /\ BatchRuns
    /\ BatchKnown
    /\ task \in Counting => Counted

LEMMA AnnouncedFinite == IsFiniteSet(Announced) /\ Cardinality(Announced) \in Nat
<1>1. IsFiniteSet(Slots)
  BY TurnAssumption, FS_Interval DEF Slots
<1>2. Announced \in SUBSET Slots
  BY DEF Announced
<1> QED
  BY <1>1, <1>2, FS_Subset, FS_CardinalityType

LEMMA BudgetInit == Init => BudgetInv
BY FS_EmptySet DEF Init, BudgetInv, BatchRuns, BatchKnown, WithBatch, Counting, BeforeTools

\* A step that neither records nor announces a call keeps the count.
LEMMA CountKept ==
    ASSUME TypeInv, Counted, messages' = messages, startedCalls' = startedCalls,
           known \subseteq known', Announced' = Announced
    PROVE  Counted'
<1>1. PICK from \in 0 .. Len(messages) : CountedFrom(from)
  BY DEF Counted
<1>2. CallsAfter(messages', from) = CallsAfter(messages, from)
      /\ \A p : IdOf(messages', p) = IdOf(messages, p)
  BY Zenon
<1>3. CountedFrom(from)'
  BY <1>1, <1>2 DEF CountedFrom
<1> QED
  BY <1>3 DEF Counted

\* The end of a batch puts its calls into the history, each under a known id.
LEMMA CountRecorded ==
    ASSUME TypeInv, BudgetInv, RecordResults
    PROVE  Counted'
<1>1. task = "settling" /\ messages' = messages \o Exchange(batch, FALSE)
      /\ known' = known /\ startedCalls' = startedCalls
  BY DEF RecordResults, At, turnVars
<1>2. messages \in Seq(Message) /\ batch \in Seq(Nat) /\ Len(batch) <= MaxBatch /\ startedCalls \in Nat
      /\ turn \in Turns
  BY <1>1 DEF TypeInv, TypeOK, DataOK
<1>3. PICK from \in 0 .. Len(messages) : CountedFrom(from)
  BY <1>1 DEF BudgetInv, Counting, Counted
<1>4. /\ CallsAfter(messages', from)
           = CallsAfter(messages, from) \union ({Len(messages) + 1} \X (1 .. Len(batch)))
      /\ Cardinality(CallsAfter(messages', from)) = Cardinality(CallsAfter(messages, from)) + Len(batch)
      /\ \A p \in CallsAfter(messages, from) : IdOf(messages', p) = IdOf(messages, p)
      /\ \A k \in 1 .. Len(batch) : IdOf(messages', <<Len(messages) + 1, k>>) = batch[k]
  BY <1>1, <1>2, CallsGrow
<1>5. Cardinality(Announced) <= Len(batch)
  <2>1. Announced \subseteq 1 .. Len(batch)
    BY <1>1 DEF Announced, BudgetInv, BatchRuns, Slots
  <2>2. 1 \in Int /\ Len(batch) \in Int /\ Len(batch) \in Nat
    BY <1>2
  <2>3. IsFiniteSet(1 .. Len(batch))
        /\ Cardinality(1 .. Len(batch)) = IF 1 > Len(batch) THEN 0 ELSE Len(batch) - 1 + 1
    BY ONLY <2>2, FS_Interval
  <2>4. Cardinality(Announced) <= Cardinality(1 .. Len(batch))
    BY ONLY <2>1, <2>3, FS_Subset
  <2> QED
    BY <2>2, <2>3, <2>4
<1>6. Announced' = {}
  <2>1. task' \in {"beforeIteration", "finished"}
    BY <1>2, LoopTopType DEF RecordResults
  <2> QED
    BY <2>1 DEF Announced
<1>7. Cardinality(Announced') = 0
  BY <1>6, FS_EmptySet
<1>8. startedCalls' <= Cardinality(CallsAfter(messages', from)) + Cardinality(Announced')
  <2>1. Cardinality(CallsAfter(messages, from)) \in Nat /\ Len(batch) \in Nat /\ Cardinality(Announced) \in Nat
    BY <1>2, CallsFinite, AnnouncedFinite
  <2>2. startedCalls <= Cardinality(CallsAfter(messages, from)) + Cardinality(Announced)
    BY <1>3 DEF CountedFrom
  <2> DEFINE before == Cardinality(CallsAfter(messages, from))
             counted == Cardinality(CallsAfter(messages', from))
             announced == Cardinality(Announced)
             size == Len(batch)
  <2>3. /\ before \in Nat /\ size \in Nat /\ announced \in Nat /\ startedCalls \in Nat
        /\ counted = before + size /\ announced <= size /\ startedCalls <= before + announced
    BY <1>2, <1>4, <1>5, <2>1, <2>2
  <2> HIDE DEF before, counted, announced, size
  <2>4. startedCalls <= counted + 0
    BY <2>3
  <2> QED
    BY <1>1, <1>7, <2>4 DEF counted
<1>9. \A p \in CallsAfter(messages', from) : IdOf(messages', p) \in known'
  <2> TAKE p \in CallsAfter(messages', from)
  <2>1. CASE p \in CallsAfter(messages, from)
    BY <1>1, <1>3, <1>4, <2>1 DEF CountedFrom
  <2>2. CASE p \in {Len(messages) + 1} \X (1 .. Len(batch))
    <3>1. PICK k \in 1 .. Len(batch) : p = <<Len(messages) + 1, k>>
      BY <2>2
    <3>2. batch[k] \in known
      BY <1>1, <3>1 DEF BudgetInv, BatchKnown, WithBatch
    <3> QED
      BY <1>1, <1>4, <3>1, <3>2
  <2> QED
    BY <1>4, <2>1, <2>2
<1>10. from \in 0 .. Len(messages')
  <2> DEFINE e == Exchange(batch, FALSE)
  <2>1. e \in Seq(Message)
    BY <1>2, MessageTypes
  <2> HIDE DEF e
  <2>2. Len(messages \o e) = Len(messages) + Len(e) /\ Len(e) \in Nat /\ Len(messages) \in Nat
    BY <1>2, <2>1, ConcatIndex
  <2>3. messages' = messages \o e
    BY <1>1 DEF e
  <2> QED
    BY <2>2, <2>3
<1>11. CountedFrom(from)'
  BY <1>8, <1>9 DEF CountedFrom
<1> QED
  BY <1>10, <1>11 DEF Counted

\* A call that is announced counts as one, and was not announced before.
LEMMA CountAnnounced ==
    ASSUME TypeInv, BudgetInv, task = "tools", NEW k \in Slots, AnnounceTool(k)
    PROVE  Counted'
<1>1. /\ messages' = messages /\ task' = task /\ known' = known \union {batch[k]}
      /\ startedCalls' = startedCalls + 1 /\ tool[k] = "starting"
  BY DEF AnnounceTool, ToolFrame, loopVars
<1>2. PICK stage \in {"running", "completing"} : tool' = [tool EXCEPT ![k] = stage]
  BY DEF AnnounceTool
<1>3. k \notin Announced /\ Announced' = Announced \union {k}
  <2>1. tool \in [Slots -> ToolStages]
    BY DEF TypeInv, TypeOK, DataOK
  <2>2. k \notin Announced
    BY <1>1 DEF Announced
  <2>3. \A j \in Slots : tool'[j] = IF j = k THEN stage ELSE tool[j]
    BY <1>2, <2>1
  <2>4. \A j \in Slots : j \in Announced' <=> j \in Announced \/ j = k
    BY <1>1, <2>3 DEF Announced
  <2>5. Announced' \subseteq Slots /\ Announced \subseteq Slots
    BY DEF Announced
  <2> QED
    BY <2>2, <2>4, <2>5
<1>4. Cardinality(Announced') = Cardinality(Announced) + 1 /\ Cardinality(Announced) \in Nat
  BY <1>3, AnnouncedFinite, FS_AddElement
<1>5. PICK from \in 0 .. Len(messages) : CountedFrom(from)
  BY DEF BudgetInv, Counting, Counted
<1>6. CallsAfter(messages', from) = CallsAfter(messages, from)
      /\ \A p : IdOf(messages', p) = IdOf(messages, p)
  BY <1>1, Zenon
<1>7. messages \in Seq(Message) /\ startedCalls \in Nat
  BY DEF TypeInv, TypeOK, DataOK
<1>8. Cardinality(CallsAfter(messages, from)) \in Nat
  BY <1>7, CallsFinite
<1>9. CountedFrom(from)'
  BY <1>1, <1>4, <1>5, <1>6, <1>7, <1>8 DEF CountedFrom
<1> QED
  BY <1>1, <1>9 DEF Counted

\* The count survives every step; a turn that reads its input starts a new one.
LEMMA BudgetStep == TypeInv /\ BudgetInv /\ [Next]_vars => BudgetInv'
<1> SUFFICES ASSUME TypeInv, BudgetInv, [Next]_vars PROVE BudgetInv'
  OBVIOUS
<1> DEFINE Same == messages' = messages /\ startedCalls' = startedCalls /\ known' = known
<1>0. /\ IsFiniteSet(known) /\ tool \in [Slots -> ToolStages] /\ messages \in Seq(Message)
      /\ batch \in Seq(Nat) /\ Len(batch) <= MaxBatch
  BY DEF BudgetInv, TypeInv, TypeOK, DataOK
<1>1. ASSUME UNCHANGED vars PROVE BudgetInv'
  BY <1>1, Zenon DEF vars, loopVars, turnVars, frameVars, historyVars, BudgetInv, BatchRuns,
              BatchKnown, Counted, CountedFrom, CallsAfter, IdOf, Announced
\* A step outside the counted part of a turn.
<1>2. ASSUME task' \notin Counting, IsFiniteSet(known'), task' \in {"new", "prepare"} => startedCalls' = 0
      PROVE  BudgetInv'
  BY <1>2 DEF BudgetInv, BatchRuns, BatchKnown, Counting, WithBatch, BeforeTools
\* A step of the counted part that records and announces nothing.
<1>3. ASSUME task \in Counting, task' \in Counting, messages' = messages, startedCalls' = startedCalls,
             known \subseteq known', IsFiniteSet(known'), Announced' = Announced,
             BatchRuns', BatchKnown'
      PROVE  BudgetInv'
  <2>1. Counted'
    BY <1>3, CountKept DEF BudgetInv
  <2>2. task' \notin {"new", "prepare"}
    BY <1>3 DEF Counting, BeforeTools
  <2> QED
    BY <1>3, <2>1, <2>2 DEF BudgetInv
<1>4. ASSUME NEW input \in BOOLEAN, Start(input) PROVE BudgetInv'
  BY <1>2, <1>4, FS_EmptySet DEF Start, Counting, BeforeTools
<1>5. ASSUME CancelTurn PROVE BudgetInv'
  BY <1>5, Zenon DEF CancelTurn, loopVars, historyVars, BudgetInv, BatchRuns,
              BatchKnown, Counted, CountedFrom, CallsAfter, IdOf, Announced
<1>6. ASSUME EnterDrive \/ PrepareFails PROVE BudgetInv'
  BY <1>0, <1>2, <1>6 DEF EnterDrive, PrepareFails, Counting, BeforeTools, turnVars, historyVars, BudgetInv
<1>7. ASSUME Prepared PROVE BudgetInv'
  <2>1. CASE stopRequested
    BY <1>0, <1>2, <1>7, <2>1 DEF Prepared, EndCancelled, Counting, BeforeTools
  <2>2. CASE ~stopRequested
    <3>1. /\ task' = "runStarted" /\ startedCalls' = 0 /\ known' = known /\ messages' \in Seq(Message)
      <4>1. User \in Message
        BY DEF User, Message
      <4> QED
        BY <1>0, <1>7, <2>2, <4>1, AppendProperties DEF Prepared, BudgetInv
    <3>2. PICK from \in 0 .. Len(messages') : from = Len(messages')
      BY <3>1
    <3>3. CallsAfter(messages', from) = {}
      BY <3>1, <3>2 DEF CallsAfter
    <3>4. Announced' = {}
      BY <3>1 DEF Announced
    <3>5. Cardinality(CallsAfter(messages', from)) = 0 /\ Cardinality(Announced') = 0
      BY <3>3, <3>4, FS_EmptySet
    <3>6. CountedFrom(from)'
      BY <3>1, <3>3, <3>5 DEF CountedFrom
    <3>7. Counted'
      BY <3>2, <3>6 DEF Counted
    <3> QED
      BY <1>0, <3>1, <3>7 DEF BudgetInv, BatchRuns, BatchKnown, WithBatch
  <2> QED
    BY <2>1, <2>2
<1>8. ASSUME \/ BeginLoop \/ StartIteration \/ PrepareRequest \/ SendRequest \/ StreamEnds
             \/ FinishIteration \/ RunTools \/ GatherTools
      PROVE  BudgetInv'
  <2>1. Same /\ task \in Counting
    BY <1>8 DEF BeginLoop, StartIteration, PrepareRequest, SendRequest, StreamEnds, FinishIteration,
                RunTools, GatherTools, At, loopVars, turnVars, historyVars, Counting, BeforeTools
  <2>2. CASE BeginLoop
    <3>1. task' \in {"beforeIteration", "finished"}
      BY <2>2, LoopTopType DEF BeginLoop, At, TypeInv
    <3>2. Announced' = {} /\ Announced = {}
      BY <2>2, <3>1 DEF Announced, BeginLoop, At
    <3>3. CASE task' = "finished"
      BY <1>0, <1>2, <2>1, <3>3 DEF Counting, BeforeTools
    <3>4. CASE task' = "beforeIteration"
      <4>1. BatchRuns' /\ BatchKnown' /\ task' \in Counting
        BY <3>4 DEF BatchRuns, BatchKnown, WithBatch, Counting, BeforeTools
      <4> QED
        BY <1>0, <1>3, <2>1, <3>2, <4>1
    <3> QED
      BY <3>1, <3>3, <3>4
  <2>3. CASE StartIteration \/ PrepareRequest \/ SendRequest \/ StreamEnds \/ FinishIteration
    <3>1. task' \in {"iterationStarted", "beforeRequest", "stream", "afterResponse", "iterationFinished"}
          /\ task \notin {"tools", "settling"}
      BY <2>3 DEF StartIteration, PrepareRequest, SendRequest, StreamEnds, FinishIteration, At
    <3>2. BatchRuns' /\ Announced' = Announced /\ task' \in Counting
      BY <3>1 DEF BatchRuns, Announced, Counting, BeforeTools
    <3>3. BatchKnown'
      <4>1. CASE task' \notin WithBatch
        BY <4>1 DEF BatchKnown
      <4>2. CASE SendRequest
        BY <4>2 DEF BatchKnown, SendRequest
      <4>3. CASE task' \in WithBatch /\ (StartIteration \/ PrepareRequest)
        BY <4>3 DEF StartIteration, PrepareRequest, WithBatch
      <4>4. CASE StreamEnds \/ FinishIteration
        <5>1. task \in WithBatch /\ batch' = batch
          BY <4>4 DEF StreamEnds, FinishIteration, At, WithBatch, frameVars
        <5> QED
          BY <2>1, <5>1 DEF BudgetInv, BatchKnown
      <4> QED
        BY <2>3, <4>1, <4>2, <4>3, <4>4
    <3> QED
      BY <1>0, <1>3, <2>1, <3>2, <3>3
  <2>4. CASE RunTools
    <3>1. task = "iterationFinished" /\ task' = "tools" /\ batch' = batch
          /\ tool' = [k \in Slots |-> IF k <= Len(batch) THEN "starting" ELSE "none"]
      BY <2>4 DEF RunTools, At
    <3>2. BatchRuns' /\ task' \in Counting
      BY <3>1 DEF BatchRuns, Counting
    <3>3. Announced' = {} /\ Announced = {}
      BY <3>1 DEF Announced
    <3>4. BatchKnown'
      BY <2>1, <3>1 DEF BudgetInv, BatchKnown, WithBatch
    <3> QED
      BY <1>0, <1>3, <2>1, <3>2, <3>3, <3>4
  <2>5. CASE GatherTools
    <3>1. task = "tools" /\ task' = "settling" /\ batch' = batch /\ tool' = tool
      BY <2>5 DEF GatherTools, At, frameVars
    <3>2. BatchRuns' /\ BatchKnown' /\ Announced' = Announced /\ task' \in Counting
      BY <2>1, <3>1 DEF BudgetInv, BatchRuns, BatchKnown, WithBatch, Announced, Counting
    <3> QED
      BY <1>0, <1>3, <2>1, <3>2
  <2> QED
    BY <1>8, <2>2, <2>3, <2>4, <2>5
<1>9. ASSUME StreamCall PROVE BudgetInv'
  <2>1. /\ task = "stream" /\ task' = "stream" /\ messages' = messages /\ startedCalls' = startedCalls
    BY <1>9 DEF StreamCall, At
  <2>2. PICK id \in ProviderIds \union {callSeq'} :
          batch' = Append(batch, id) /\ known' = known \union {id}
    BY <1>9 DEF StreamCall
  <2>3. IsFiniteSet(known') /\ known \subseteq known'
    BY <1>0, <2>2, FS_AddElement
  <2>4. id \in Nat
    BY <1>9, TurnAssumption DEF StreamCall, TypeInv, TypeOK, DataOK
  <2>5. \A k \in 1 .. Len(batch') : batch'[k] \in known'
    <3> TAKE k \in 1 .. Len(batch')
    <3>1. \A i \in 1 .. Len(batch) : batch[i] \in known
      BY <2>1 DEF BudgetInv, BatchKnown, WithBatch
    <3>2. /\ Len(batch') = Len(batch) + 1 /\ batch'[Len(batch) + 1] = id
          /\ \A i \in 1 .. Len(batch) : batch'[i] = batch[i]
      BY <1>0, <2>2, <2>4, AppendProperties
    <3>3. k \in 1 .. Len(batch) \/ k = Len(batch) + 1
      BY <1>0, <3>2
    <3> QED
      BY <2>2, <3>1, <3>2, <3>3
  <2>6. BatchRuns' /\ BatchKnown' /\ Announced' = Announced /\ task \in Counting /\ task' \in Counting
    BY <2>1, <2>5 DEF BatchRuns, BatchKnown, Announced, Counting, BeforeTools
  <2> QED
    BY <1>3, <2>1, <2>3, <2>6
<1>10. ASSUME \/ ProviderFails \/ DeadlineExceeded \/ Answer \/ DriveReturns \/ DriveRaises
              \/ InterruptTurn \/ InterruptTools \/ UnwindTools \/ InterruptSettled \/ InterruptFailed
       PROVE  BudgetInv'
  <2>1. known' = known /\ task' \in {"failed", "finished", "idle", "cancelled", "unwinding"}
    BY <1>10 DEF ProviderFails, EndFailed, DeadlineExceeded, Answer, DriveReturns, DriveRaises,
                 InterruptTurn, InterruptTools, UnwindTools, InterruptSettled, InterruptFailed,
                 EndCancelled, turnVars
  <2> QED
    BY <1>0, <1>2, <2>1 DEF Counting, BeforeTools
<1>11. ASSUME RecordResults PROVE BudgetInv'
  <2>1. Counted'
    BY <1>11, CountRecorded
  <2>2. task' \in {"beforeIteration", "finished"}
    BY <1>11, LoopTopType DEF RecordResults, At, TypeInv
  <2>3. known' = known
    BY <1>11 DEF RecordResults, turnVars
  <2> QED
    BY <1>0, <2>1, <2>2, <2>3 DEF BudgetInv, BatchRuns, BatchKnown, WithBatch
<1>12. ASSUME NEW k \in Slots, AnnounceTool(k) \/ ToolReturns(k) \/ ToolRaises(k) \/ ToolFinishes(k) \/ ToolUnwinds(k)
       PROVE  BudgetInv'
  <2>1. /\ tool[k] \notin {"none", "done"} /\ k <= Len(batch) /\ task \in {"tools", "unwinding"}
        /\ task' = task /\ batch' = batch /\ messages' = messages
    BY <1>12, Zenon DEF AnnounceTool, ToolReturns, ToolRaises, ToolFinishes, ToolUnwinds, ToolFrame, TypeInv,
                 ToolsAwaited, loopVars
  <2>2. IsFiniteSet(known') /\ known \subseteq known'
    BY <1>0, <1>12, FS_AddElement DEF AnnounceTool, ToolReturns, ToolRaises, ToolFinishes, ToolUnwinds
  <2>3. CASE task = "unwinding"
    BY <1>2, <2>1, <2>2, <2>3 DEF Counting, BeforeTools
  <2>4. CASE task = "tools"
    <3>1. ~ ToolUnwinds(k)
      BY <2>4 DEF ToolUnwinds, BudgetInv, BatchRuns
    <3>2. PICK stage \in {"running", "completing", "done"} : tool' = [tool EXCEPT ![k] = stage]
      BY <1>12, <3>1 DEF AnnounceTool, ToolReturns, ToolRaises, ToolFinishes
    <3>3. \A j \in Slots : tool'[j] = IF j = k THEN stage ELSE tool[j]
      BY <1>0, <3>2
    <3>4. BatchRuns'
      BY <2>1, <2>4, <3>3 DEF BudgetInv, BatchRuns
    <3>5. BatchKnown'
      BY <2>1, <2>2, <2>4 DEF BudgetInv, BatchKnown, WithBatch
    <3>6. CASE AnnounceTool(k)
      <4>1. Counted'
        BY <2>4, <3>6, CountAnnounced
      <4> QED
        BY <2>1, <2>2, <2>4, <3>4, <3>5, <4>1 DEF BudgetInv
    <3>7. CASE ~ AnnounceTool(k)
      <4>1. startedCalls' = startedCalls /\ tool[k] \in {"running", "completing"}
        BY <1>12, <3>1, <3>7 DEF ToolReturns, ToolRaises, ToolFinishes
      <4>2. \A j \in Slots : j \in Announced' <=> j \in Announced
        BY <2>1, <2>4, <3>3, <4>1 DEF Announced
      <4>3. Announced' = Announced
        <5>1. Announced' \subseteq Slots /\ Announced \subseteq Slots
          BY DEF Announced
        <5> QED
          BY <4>2, <5>1
      <4> QED
        BY <1>3, <2>1, <2>2, <2>4, <3>4, <3>5, <4>1, <4>3 DEF Counting
    <3> QED
      BY <3>6, <3>7
  <2> QED
    BY <2>1, <2>3, <2>4
<1> QED
  BY <1>1, <1>4, <1>5, <1>6, <1>7, <1>8, <1>9, <1>10, <1>11, <1>12
     DEF Next, LoopStep, CancelStep, ProviderStep, ToolBody, ToolStep

\* Two places of calls with the same id are a reused id.
LEMMA SameIdReused ==
    ASSUME NEW h \in Seq(Message), NEW from \in 0 .. Len(h),
           NEW p \in CallsAfter(h, from), NEW q \in CallsAfter(h, from),
           p # q, IdOf(h, p) = IdOf(h, q)
    PROVE  \E i, j \in DOMAIN h : \E a \in DOMAIN h[i].ids, b \in DOMAIN h[j].ids :
               /\ h[i].role = "assistant" /\ h[j].role = "assistant"
               /\ <<i, a>> # <<j, b>> /\ h[i].ids[a] = h[j].ids[b]
<1>1. PICK i \in from + 1 .. Len(h), a \in Slots : p = <<i, a>>
  BY DEF CallsAfter
<1>2. PICK j \in from + 1 .. Len(h), b \in Slots : q = <<j, b>>
  BY DEF CallsAfter
<1>3. /\ h[i].role = "assistant" /\ a <= Len(h[i].ids)
      /\ h[j].role = "assistant" /\ b <= Len(h[j].ids)
  BY <1>1, <1>2 DEF CallsAfter
<1>4. i \in DOMAIN h /\ j \in DOMAIN h
  OBVIOUS
<1>5. a \in DOMAIN h[i].ids /\ b \in DOMAIN h[j].ids
  <2>1. h[i].ids \in Seq(Nat) /\ h[j].ids \in Seq(Nat)
    <3>1. h[i] \in Message /\ h[j] \in Message
      BY <1>4
    <3> QED
      BY <3>1 DEF Message
  <2> QED
    BY <1>3, <2>1, TurnAssumption DEF Slots
<1>6. h[i].ids[a] = h[j].ids[b] /\ <<i, a>> # <<j, b>>
  BY <1>1, <1>2 DEF IdOf
<1> QED
  BY <1>3, <1>4, <1>5, <1>6

\* An iteration begins only at the top of the loop, below every budget.
LEMMA IterationBegins ==
    ASSUME TypeInv, Next, iteration' = iteration + 1
    PROVE  /\ task' = "beforeIteration" /\ known' = known /\ startedCalls' = startedCalls
           /\ MaxIterations > 0 => iteration < MaxIterations
           /\ MaxToolCalls > 0 => ~ (Cardinality(known) >= MaxToolCalls)
<1>1. iteration \in Nat /\ iteration' # iteration /\ (iteration' # 0)
  BY DEF TypeInv, TypeOK, DataOK
<1>2. BeginLoop \/ RecordResults
  <2>1. ~ Prepared
    BY <1>1 DEF Prepared
  <2>2. \A input \in BOOLEAN : ~ Start(input)
    BY <1>1 DEF Start
  <2>3. ~ (CancelTurn \/ EnterDrive \/ PrepareFails \/ StartIteration \/ PrepareRequest \/ SendRequest
           \/ FinishIteration \/ Answer \/ RunTools \/ GatherTools \/ DriveReturns \/ DriveRaises)
    BY <1>1 DEF CancelTurn, EnterDrive, PrepareFails, StartIteration, PrepareRequest, SendRequest,
                FinishIteration, Answer, RunTools, GatherTools, DriveReturns, DriveRaises, frameVars
  <2>4. ~ (InterruptTurn \/ InterruptTools \/ UnwindTools \/ InterruptSettled \/ InterruptFailed
           \/ StreamCall \/ StreamEnds \/ ProviderFails \/ DeadlineExceeded)
    BY <1>1 DEF InterruptTurn, InterruptTools, UnwindTools, InterruptSettled, InterruptFailed,
                StreamCall, StreamEnds, ProviderFails, DeadlineExceeded, frameVars
  <2>5. \A k \in Slots : ~ (ToolBody(k) \/ ToolStep(k))
    BY <1>1 DEF ToolBody, ToolStep, ToolReturns, ToolRaises, AnnounceTool, ToolFinishes, ToolUnwinds,
                ToolFrame
  <2> QED
    BY <2>1, <2>2, <2>3, <2>4, <2>5 DEF Next, LoopStep, CancelStep, ProviderStep
<1>3. LoopTop /\ known' = known /\ startedCalls' = startedCalls
  BY <1>2 DEF BeginLoop, RecordResults, turnVars
<1>4. PICK why \in Cut :
        IF why = ""
        THEN /\ task' = "beforeIteration"
             /\ iteration' = iteration + 1
             /\ UNCHANGED <<terminals, after>>
        ELSE /\ task' = "finished"
             /\ SayTerminal("RunFinished", why)
             /\ UNCHANGED iteration
  BY <1>3 DEF LoopTop
<1>5. why = ""
  BY <1>1, <1>4
<1>6. /\ ~ (MaxIterations > 0 /\ iteration >= MaxIterations)
      /\ ~ (MaxToolCalls > 0 /\ Cardinality(known) >= MaxToolCalls)
  BY <1>5 DEF Cut
<1>7. MaxIterations > 0 => iteration < MaxIterations
  BY <1>1, <1>6, TurnAssumption
<1>8. MaxToolCalls > 0 => ~ (Cardinality(known) >= MaxToolCalls)
  BY <1>6
<1>9. task' = "beforeIteration"
  BY <1>4, <1>5
<1> QED
  BY <1>3, <1>7, <1>8, <1>9

\* No provider request is begun once a budget is spent: the iterations of a turn
\* stay within MaxIterations, and it has announced fewer calls than MaxToolCalls
\* whenever another iteration begins, unless an endpoint used an id twice.
THEOREM BudgetKept == Spec => BudgetHolds
<1>1. ASSUME TypeInv, BudgetInv, [Next]_vars, BudgetInv'
      PROVE  [iteration' = iteration + 1 =>
                /\ MaxIterations > 0 => iteration' <= MaxIterations
                /\ MaxToolCalls > 0 => startedCalls < MaxToolCalls \/ Reused']_vars
  <2> SUFFICES ASSUME Next, iteration' = iteration + 1
               PROVE  /\ MaxIterations > 0 => iteration' <= MaxIterations
                      /\ MaxToolCalls > 0 => startedCalls < MaxToolCalls \/ Reused'
    BY <1>1
  <2>1. /\ task' = "beforeIteration" /\ known' = known /\ startedCalls' = startedCalls
        /\ MaxIterations > 0 => iteration < MaxIterations
        /\ MaxToolCalls > 0 => ~ (Cardinality(known) >= MaxToolCalls)
    BY <1>1, IterationBegins
  <2>2. iteration \in Nat
    BY <1>1 DEF TypeInv, TypeOK, DataOK
  <2>3. TypeInv'
    BY <1>1, TypeStep
  <2>4. ASSUME MaxToolCalls > 0, ~ Reused' PROVE startedCalls < MaxToolCalls
    <3>1. PICK from \in 0 .. Len(messages') : CountedFrom(from)'
      BY <1>1, <2>1 DEF BudgetInv, Counting, BeforeTools, Counted
    <3>2. messages' \in Seq(Message) /\ startedCalls' \in Nat /\ startedCalls \in Nat
      BY <1>1, <2>3 DEF TypeInv, TypeOK, DataOK
    <3> DEFINE places == CallsAfter(messages', from)
    <3>3. \A p, q \in places : p # q => IdOf(messages', p) # IdOf(messages', q)
      <4>1. ASSUME NEW p \in places, NEW q \in places, p # q, IdOf(messages', p) = IdOf(messages', q)
            PROVE  FALSE
        <5>1. \E i, j \in DOMAIN messages' :
                \E a \in DOMAIN messages'[i].ids, b \in DOMAIN messages'[j].ids :
                   /\ messages'[i].role = "assistant" /\ messages'[j].role = "assistant"
                   /\ <<i, a>> # <<j, b>> /\ messages'[i].ids[a] = messages'[j].ids[b]
          BY ONLY <3>2, <4>1, SameIdReused
        <5> QED
          BY <2>4, <5>1, Zenon DEF Reused
      <4> QED
        BY <4>1
    <3>4. IsFiniteSet(known) /\ \A p \in places : IdOf(messages', p) \in known
      BY <1>1, <2>1, <3>1 DEF BudgetInv, CountedFrom
    <3>5. Cardinality(places) <= Cardinality(known)
      BY <3>2, <3>3, <3>4, CallsCounted
    <3>6. Cardinality(Announced') = 0
      <4>1. Announced' = {}
        BY <2>1 DEF Announced
      <4> QED
        BY <4>1, FS_EmptySet
    <3>7. startedCalls' <= Cardinality(places) + Cardinality(Announced')
      BY <3>1 DEF CountedFrom
    <3>8. Cardinality(places) \in Nat /\ Cardinality(known) \in Nat
      BY <3>2, <3>4, CallsFinite, FS_CardinalityType
    <3> HIDE DEF places
    <3> QED
      BY <2>1, <2>4, <3>2, <3>5, <3>6, <3>7, <3>8, TurnAssumption
  <2> QED
    BY <2>1, <2>2, <2>4, TurnAssumption
<1> QED
  BY <1>1, TypeInit, TypeStep, BudgetInit, BudgetStep, PTL DEF Spec, BudgetHolds

-----------------------------------------------------------------------------
(* The refinement                                                          *)

\* A step of the loop is a step of the contract, or invisible to it.
LEMMA ContractStep ==
    TypeInv /\ [Next]_vars => [Contract!Next]_(Contract!contractVars)
<1> SUFFICES ASSUME TypeInv, [Next]_vars PROVE [Contract!Next]_(Contract!contractVars)
  OBVIOUS
<1>1. CASE UNCHANGED vars
  BY <1>1 DEF vars, loopVars, Contract!contractVars
<1>2. CASE Next
  <2>1. HistoryGrows /\ TurnMoves
    BY <1>2, HistoryStep, TurnStep
  <2>2. messages \in Seq(Message)
    BY DEF TypeInv, TypeOK, DataOK
  <2>3. CASE task = "idle"
    <3>1. messages' = messages /\ turn' = turn + 1 /\ task' # "idle"
      BY <2>1, <2>3 DEF HistoryGrows, TurnMoves, NextTurn, GoesOn, Finishes, IsCancelled, Fails, Open, BeforeTools
    <3> QED
      BY <2>3, <3>1 DEF Contract!Next, Contract!Begin
  <2>4. CASE task # "idle" /\ messages' = messages
    <3>1. turn' = turn
      BY <2>1, <2>4 DEF TurnMoves, NextTurn, GoesOn, Finishes, IsCancelled, Fails
    <3> QED
      BY <2>4, <3>1 DEF Contract!Next, Contract!End, Contract!contractVars
  <2>5. CASE task # "idle" /\ messages' # messages
    <3>1. turn' = turn /\ task' # "idle"
      BY <2>1, <2>5 DEF TurnMoves, NextTurn, GoesOn, Finishes, IsCancelled, Fails, HistoryGrows
    <3>2. PICK b \in Seq(Message) : Piece(b) /\ messages' = messages \o b
      BY <2>1, <2>5 DEF HistoryGrows
    <3>3. Len(b) \in Nat /\ Len(b) > 0 /\ Replayable(b) /\ Len(messages) \in Nat
      BY <2>2, <3>2 DEF Piece
    <3>4. Len(messages') = Len(messages) + Len(b)
      BY <2>2, <3>2, ConcatIndex
    <3>5. SubSeq(messages', 1, Len(messages)) = messages
      <4>1. CASE messages = <<>>
        <5>1. Len(messages) = 0
          BY <4>1
        <5> QED
          BY <4>1, <5>1, SubSeqEmpty
      <4>2. CASE messages # <<>>
        <5>1. 1 \in 1 .. Len(messages) /\ Len(messages) \in 1 .. Len(messages)
          BY <2>2, <4>2
        <5>2. SubSeq(messages', 1, Len(messages)) = SubSeq(messages, 1, Len(messages))
          BY <2>2, <3>2, <5>1, SubSeqOfConcat1
        <5> QED
          BY <2>2, <5>2, SubSeqFull
      <4> QED
        BY <4>1, <4>2
    <3>6. SubSeq(messages', Len(messages) + 1, Len(messages')) = b
      BY <2>2, <3>2, <3>3, <3>4, SubSeqOfConcat2, SubSeqFull
    <3>7. Contract!Replayable(b)
      BY <3>3 DEF Replayable, CallsAnswered, AnswersCall,
                  Contract!Replayable, Contract!CallsAnswered, Contract!AnswersCall
    <3>8. Contract!Replayable(SubSeq(messages', Len(messages) + 1, Len(messages')))
      BY <3>6, <3>7
    <3>9. (task' # "idle") = (task # "idle")
      BY <2>5, <3>1
    <3>10. Len(messages') > Len(messages)
      BY <3>3, <3>4
    <3> QED
      BY <2>5, <3>1, <3>5, <3>8, <3>9, <3>10, Zenon DEF Contract!Next, Contract!Grow
  <2> QED
    BY <2>3, <2>4, <2>5
<1> QED
  BY <1>1, <1>2

\* AgentLoop keeps the promise TurnContract states, whatever the provider, the
\* tools and cancellation do.
THEOREM LoopKeepsContract == Spec => ImplementsContract
<1>1. Init => Contract!Init
  BY DEF Init, Contract!Init
<1> QED
  BY <1>1, TypeInit, TypeStep, ContractStep, PTL DEF Spec, ImplementsContract, Contract!Spec
=============================================================================
