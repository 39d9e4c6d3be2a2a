------------------------------- MODULE RunFold -------------------------------
(***************************************************************************)
(* core/state.py: RunState.apply(), the fold of a run's events.  An event is   *)
(* a record with its kind, run, sequence number (0 before the channel stamped *)
(* it), call and a payload; text is counted, not kept.                        *)
(***************************************************************************)
EXTENDS Naturals, Functions

Fresh == [run |-> 0, status |-> "idle", iteration |-> 0, content |-> 0, answer |-> 0,
          usage |-> 0, calls |-> <<>>, seq |-> 0]

\* Mutant of Folds: a replayed range is folded again.
FoldsReplays(f, e) == f.run = 0 \/ e.run = 0 \/ e.run = f.run
\* Already folded, or of another run that shares the channel: ignored.
Folds(f, e) ==
    /\ e.seq = 0 \/ e.seq > f.seq
    /\ f.run = 0 \/ e.run = 0 \/ e.run = f.run

Forming == [status |-> "forming", args |-> 0, output |-> 0]
Call(f, id, default) == IF id \in DOMAIN f.calls THEN f.calls[id] ELSE default
Put(f, id, call) ==
    [f EXCEPT !.calls = [i \in DOMAIN @ \union {id} |-> IF i = id THEN call ELSE @[i]]]
Known(f, id, call) == IF id \in DOMAIN f.calls THEN Put(f, id, call) ELSE f

Folded(f, e) ==
    CASE e.kind = "run_started" -> [f EXCEPT !.run = e.run, !.status = "running"]
      [] e.kind = "iteration_started" -> [f EXCEPT !.iteration = e.value]
      [] e.kind = "text" -> [f EXCEPT !.content = @ + 1]
      [] e.kind = "args" ->
            LET call == Call(f, e.call, Forming)
            IN  Put(f, e.call, [call EXCEPT !.args = @ + 1])
      [] e.kind = "call_started" ->
            Put(f, e.call, [Call(f, e.call, Forming) EXCEPT !.status = "running"])
      [] e.kind = "output" ->
            Known(f, e.call, [Call(f, e.call, Forming) EXCEPT !.output = @ + 1])
      [] e.kind = "call_finished" ->
            Known(f, e.call, [Call(f, e.call, Forming) EXCEPT !.status = e.value])
      [] e.kind = "iteration_finished" -> [f EXCEPT !.usage = @ + e.value]
      [] e.kind = "run_finished" ->
            [f EXCEPT !.status = IF e.value.cancelled THEN "cancelled" ELSE "done",
                      !.iteration = IF e.value.iterations = 0 THEN @ ELSE e.value.iterations,
                      !.answer = e.value.answer,
                      !.usage = e.value.usage]
      [] e.kind = "run_failed" -> [f EXCEPT !.status = "failed"]
      [] OTHER -> f

Applied(f, e) ==
    IF Folds(f, e)
    THEN Folded([f EXCEPT !.seq = IF e.seq > @ THEN e.seq ELSE @], e)
    ELSE f

=============================================================================
