----------------------------- MODULE Transcript -----------------------------
(***************************************************************************)
(* core/transcript.py: the messages a history is made of, reduced to what  *)
(* makes a history acceptable to a provider: who speaks, which tool calls  *)
(* an assistant message makes, and which call a tool message answers.      *)
(* An id is a natural number; the wording of a message is not modelled,    *)
(* only whether it is one of the loop's interruption notes.                *)
(***************************************************************************)
EXTENDS Integers, Sequences

Message == [role : {"user", "assistant", "tool"}, ids : Seq(Nat), note : BOOLEAN]

\* What the person typed.
User == [role |-> "user", ids |-> <<>>, note |-> FALSE]

\* assistant_message(text, tool_calls=...), and the INTERRUPT_MSG one.
Assistant(calls) == [role |-> "assistant", ids |-> calls, note |-> FALSE]
Interrupted      == [role |-> "assistant", ids |-> <<>>, note |-> TRUE]

\* tool_result(id, content); note when the content is INTERRUPT_TOOL_MSG.
Result(id, note) == [role |-> "tool", ids |-> <<id>>, note |-> note]

\* An assistant message that calls tools, with one result per call in call order.
Exchange(calls, note) ==
    <<Assistant(calls)>> \o [k \in 1 .. Len(calls) |-> Result(calls[k], note)]

\* Message i calls tools and the messages right after it answer them in order.
CallsAnswered(h, i) ==
    \A k \in 1 .. Len(h[i].ids) :
        /\ i + k <= Len(h)
        /\ h[i + k].role = "tool"
        /\ h[i + k].ids = <<h[i].ids[k]>>

\* Message i answers a call of the assistant message its batch belongs to.
AnswersCall(h, i) ==
    \E j \in 1 .. (i - 1) :
        /\ h[j].role = "assistant"
        /\ i - j <= Len(h[j].ids)
        /\ h[i].ids = <<h[j].ids[i - j]>>

\* A history a provider accepts: every call has its answer, every answer a call.
Replayable(h) ==
    \A i \in 1 .. Len(h) :
        /\ h[i].role = "assistant" => CallsAnswered(h, i)
        /\ h[i].role = "tool" => AnswersCall(h, i)
=============================================================================
