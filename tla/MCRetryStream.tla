--------------------------- MODULE MCRetryStream ---------------------------
(* Small instances of RetryStream. *)
EXTENDS RetryStream

MCPolicies ==
    {[attempts |-> 0, base |-> 1, cap |-> 1, jitter |-> 0, honor |-> FALSE],
     [attempts |-> 3, base |-> 1, cap |-> 2, jitter |-> 1, honor |-> TRUE]}
MCBudgets == {{}, {0}, {2}}
MCHeaders == {[form |-> "date", value |-> 0], [form |-> "number", value |-> -1],
              [form |-> "number", value |-> 3]}

MCWords == {"", "a", "b", "read"}
Raw(choice, text, calls, usage) ==
    [choice |-> choice, text |-> text, calls |-> calls, usage |-> usage, finish |-> usage]
Part(index, id, name, args) == [index |-> index, id |-> id, name |-> name, args |-> args]
First(index, id) == Part(index, id, "read", <<>>)
\* A keep-alive, text, calls that start with and without an id, fragments of
\* arguments (two calls in one chunk), an id that comes late, the usage.
MCRaws ==
    {Raw(TRUE, 0, <<>>, 0), Raw(TRUE, 1, <<First(0, "a")>>, 0), Raw(TRUE, 0, <<First(1, "")>>, 0),
     Raw(TRUE, 0, <<Part(0, "", "", <<1>>), Part(1, "b", "", <<2>>)>>, 0),
     Raw(TRUE, 0, <<Part(0, "", "", <<3>>)>>, 0), Raw(FALSE, 1, <<>>, 1)}

\* No id is of two calls here, the hypothesis of a theorem about ResponseTrue.
ASSUME MCOneIdPerCall == OneIdPerCall
=============================================================================
