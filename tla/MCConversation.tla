--------------------------- MODULE MCConversation ---------------------------
(* Small instances of Conversation. *)
EXTENDS Conversation
CONSTANTS s1, s2, c1
TwoSessions == {s1, s2}
OneCaller == {c1}
TwoVersions == {1, 2}
Symmetry == Permutations(TwoSessions)
=============================================================================
