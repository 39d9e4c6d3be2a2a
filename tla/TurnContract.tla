---------------------------- MODULE TurnContract ----------------------------
(***************************************************************************)
(* What AgentLoop promises whoever drives a conversation, with the loop,   *)
(* the provider, the tools and cancellation left out: one turn runs at a   *)
(* time; only a running turn writes to the history, and it only appends;   *)
(* whatever it appends is complete, every tool call with its answer, so    *)
(* the history can be sent to a provider at any moment and after any       *)
(* ending.  AgentTurn implements it.                                       *)
(***************************************************************************)
EXTENDS Transcript

VARIABLES
    turn,       \* turns started so far
    running,    \* AgentLoop.busy
    history     \* AgentLoop.messages

contractVars == <<turn, running, history>>

Init ==
    /\ turn = 0
    /\ running = FALSE
    /\ history = <<>>

\* AgentLoop.start: refused while a turn runs.
Begin ==
    /\ ~running
    /\ turn' = turn + 1
    /\ running' = TRUE
    /\ UNCHANGED history

\* The running turn appends one or more complete exchanges.
Grow ==
    /\ running
    /\ Len(history') > Len(history)
    /\ SubSeq(history', 1, Len(history)) = history
    /\ Replayable(SubSeq(history', Len(history) + 1, Len(history')))
    /\ UNCHANGED <<turn, running>>

\* The turn is over; the next one may begin.
End ==
    /\ running
    /\ running' = FALSE
    /\ UNCHANGED <<turn, history>>

Next == Begin \/ Grow \/ End

Spec == Init /\ [][Next]_contractVars
=============================================================================
