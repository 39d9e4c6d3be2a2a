----------------------------- MODULE MCFileTools -----------------------------
(* Small instances of FileTools. *)
EXTENDS FileTools

Read == [tool |-> "read"]
Write(text, append) == [tool |-> "write", text |-> text, append |-> append]
Edit(old, new, all) == [tool |-> "edit", old |-> old, new |-> new, all |-> all]
MCOps == {Read, Write(<<"b">>, FALSE), Write(<<"a", "lf", "a">>, FALSE), Write(<<"b">>, TRUE),
        Edit("a", "b", FALSE), Edit("b", "a", TRUE)}
MCPlans == {<<<<x>>, <<y, z>>>> : x, y, z \in MCOps} \union {<<<<x, y>>, <<z>>>> : x, y, z \in MCOps}
MCTokens == {"a", "b", "lf", "crlf", "nul"}
MCGiven ==
    {NoFile} \union
    {[enc |-> enc, text |-> text] :
        enc \in {"utf-8", "other"},
        text \in {<<>>, <<"a", "crlf", "b", "lf">>, <<"a", "lf", "a">>, <<"b", "nul">>}}
=============================================================================
