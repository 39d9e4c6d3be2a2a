---------------------------- MODULE MCMcpSession ----------------------------
(* Two raw names that fold to one. *)
EXTENDS McpSession

MCRaws == {1, 2}
MCFold == [raw \in MCRaws |-> 1]
=============================================================================
