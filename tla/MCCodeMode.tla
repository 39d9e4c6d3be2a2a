----------------------------- MODULE MCCodeMode -----------------------------
(* Small instances of CodeMode. *)
EXTENDS CodeMode

CONSTANTS s1, s2

\* A new conversation, and one whose store is over today's limit.
MCKept == {<<>>, "k1" :> 3}
=============================================================================
