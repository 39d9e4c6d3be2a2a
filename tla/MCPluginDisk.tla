----------------------------- MODULE MCPluginDisk -----------------------------
(* Small instances of PluginDisk. *)
EXTENDS PluginDisk

Source(name, code, declares) == [name |-> name, code |-> code, declares |-> declares]
MCSources == {Source("a-b", "good", TRUE), Source("a-b", "empty", FALSE),
              Source("a.b", "broken", FALSE), Source("c", "raising", FALSE),
              Source("sh", "good", FALSE)}
MCProjects == [p1 |-> <<"p1", "home">>, p2 |-> <<"home">>]
MCDirectories == <<"a-b", "a.b", "c", "dev", "sh">>
MCSlug == ("a-b" :> "a_b") @@ ("a.b" :> "a_b") @@ ("c" :> "c") @@ ("sh" :> "sh")

\* Nothing, and a plugin under development in a directory with a name of its own.
MCPlaced ==
    {<<>>, <<"p1", "dev">> :> [parts |-> Parts(Source("a-b", "good", TRUE)), env |-> "none"]}
=============================================================================
