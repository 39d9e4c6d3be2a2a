------------------------------ MODULE MCShell ------------------------------
(* Small instances of Shell. *)
EXTENDS Shell
CONSTANTS c1, c2
TwoCallers == {c1, c2}
FirstJob == {1}
EvenLines == {2}
LongLines == {3}
=============================================================================
