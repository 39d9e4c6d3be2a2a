------------------------------- MODULE Screen -------------------------------
(***************************************************************************)
(* The terminal as cli/render.py draws a run's events on cli/display.py.  The *)
(* screen is the lines since the last freeze, of which the last "block" may   *)
(* be rewritten, how many of each line are above, the row each call believes  *)
(* it owns.  "broken" is history: the block was frozen while a call had a     *)
(* row.  The rule that ends a run starts a new screen: nothing touches the    *)
(* lines above it again.  Streamed text only freezes the block.              *)
(***************************************************************************)
EXTENDS Naturals, Sequences, Functions, FiniteSets

CONSTANT Heights     \* what terminal_height() may be
ASSUME ScreenAssumption == Heights \subseteq Nat \ {0}

NoRow == 0
Blank(height) ==
    [height |-> height, lines |-> <<>>, block |-> 0, above |-> <<>>, rows |-> <<>>, broken |-> FALSE]

Line(what, call) == [what |-> what, call |-> call]
NoCall == <<>>

\* How often a line is on the screen.
Count(s, line) ==
    (IF line \in DOMAIN s.above THEN s.above[line] ELSE 0)
    + Cardinality({n \in DOMAIN s.lines : s.lines[n] = line})

\* _invalidate(): the rows of the block are no longer ours to rewrite.
Frozen(s) ==
    [s EXCEPT !.lines = <<>>, !.block = 0,
              !.above = [line \in DOMAIN @ \union Range(s.lines) |-> Count(s, line)],
              !.broken = @ \/ DOMAIN s.rows # {}]

Emitted(s, line) == [s EXCEPT !.lines = Append(@, line)]
Printed(s, line) == Emitted(Frozen(s), line)

\* place(): a row of the block, unless the block fills the terminal.
Fits(s) == s.block < s.height - 1
Placed(s, line) == IF Fits(s) THEN [Emitted(s, line) EXCEPT !.block = @ + 1] ELSE s
\* Mutant of RowPlaced: the row above.
RowPlacedAbove(s) == IF Fits(s) THEN s.block ELSE NoRow
RowPlaced(s) == IF Fits(s) THEN s.block + 1 ELSE NoRow

\* rewrite(): up to the row, or a new line where the row is gone.
Rewritten(s, row, line) ==
    IF row = NoRow \/ row > s.block THEN Printed(s, line)
    ELSE [s EXCEPT !.lines[Len(s.lines) - s.block + row] = line]

WithRow(s, call, row) ==
    [s EXCEPT !.rows = [c \in DOMAIN @ \union {call} |-> IF c = call THEN row ELSE @[c]]]
RowOf(s, call) == IF call \in DOMAIN s.rows THEN s.rows[call] ELSE NoRow
WithoutRow(s, call) == [s EXCEPT !.rows = [c \in DOMAIN @ \ {call} |-> @[c]]]

Opened(s, call) == WithRow(Placed(s, Line("pending", call)), call, RowPlaced(s))

Drawn(s, e) ==
    CASE e.kind = "text" -> Frozen(s)
      [] e.kind = "args" /\ e.value.named /\ e.call \notin DOMAIN s.rows -> Opened(s, e.call)
      [] e.kind = "call_started" ->
            IF RowOf(s, e.call) = NoRow THEN Opened(s, e.call)
            ELSE Rewritten(s, RowOf(s, e.call), Line("pending", e.call))
      [] e.kind = "call_finished" ->
            Rewritten(WithoutRow(s, e.call), RowOf(s, e.call), Line("verdict", e.call))
      [] e.kind = "notice" -> Printed(s, Line("notice", NoCall))
      [] e.kind \in {"run_finished", "run_failed"} -> Blank(s.height)
      [] OTHER -> s

\* How many lines of a kind the screen shows for a call.
Shown(s, what, call) == Count(s, Line(what, call))

=============================================================================
