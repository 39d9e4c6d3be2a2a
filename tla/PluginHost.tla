----------------------------- MODULE PluginHost -----------------------------
(***************************************************************************)
(* host/plugin/host.py: the request surface of one conversation, as a value *)
(* and what each operation makes of it.  The system prompt and the frozen   *)
(* tool interface are written together and are one value here: Nothing      *)
(* before they are written, or the version of the world they were rendered  *)
(* from.  The world is what the plugins' sections and tools would say now:  *)
(* files, registrations, switches.  materialize() awaits the plugins'       *)
(* prepare() in between, so the calls of several tasks overlap.             *)
(***************************************************************************)
EXTENDS Integers

CONSTANT Versions   \* what the world can look like

Nothing == 0

ASSUME VersionsAssumption == Nothing \notin Versions

Surfaces == Versions \union {Nothing}

\* A host as assemble() and adopt_session() leave it: prompt is
\* AgentLoop.system_prompt with ToolRegistry._frozen, pending the surface of
\* _pending_session, preparing the tasks that await prepare_all().
Assembled(surface) ==
    [prompt |-> Nothing, materialized |-> FALSE, pending |-> surface, preparing |-> {}]

HostType(Tasks) ==
    [prompt: Surfaces, materialized: BOOLEAN, pending: Surfaces, preparing: SUBSET Tasks]

\* _reinstate: a record without a surface leaves everything as it is.
Reinstated(host, surface) ==
    IF surface = Nothing
    THEN host
    ELSE [host EXCEPT !.prompt = surface, !.materialized = TRUE]

\* materialize() up to its await: only the first caller does anything, and
\* the flag is set before prepare_all() is awaited.
Materialized(host, task) ==
    CASE host.materialized -> host
      [] ~host.materialized /\ host.pending # Nothing -> Reinstated(host, host.pending)
      [] OTHER -> [host EXCEPT !.materialized = TRUE, !.preparing = @ \union {task}]

\* prepare_all() is through: render and freeze what the world says now.
Prepared(host, task, world) ==
    [host EXCEPT !.prompt = world, !.preparing = @ \ {task}]

\* rebuild(): render and freeze at once.
Rebuilt(host, world) == [host EXCEPT !.prompt = world, !.materialized = TRUE]
=============================================================================
