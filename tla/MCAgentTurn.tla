---- MODULE MCAgentTurn ----
(* Values for the constants of AgentTurn. *)
EXTENDS AgentTurn

NoIds == {}

\* An endpoint that names calls per response, so that a later response may use
\* the name of an earlier call again.
ReusedIds == {101}
====
