---------------------------- MODULE MCToolCalls ----------------------------
(* Small instances of ToolCalls. *)
EXTENDS ToolCalls

Tool(name, audience, source) ==
    [name |-> name, audience |-> audience, source |-> source, edition |-> 0]
OneTool == {Tool("exec", "both", "builtin")}
=============================================================================
