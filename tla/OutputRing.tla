----------------------------- MODULE OutputRing -----------------------------
(* builtin/shell/ring.py: the bounded buffer a background job's output waits *)
(* in, as a value.  A line is its number; the lines in Long take two units   *)
(* of the byte budget, the others one.                                       *)
EXTENDS Naturals, Sequences, FiniteSets, Picks

CONSTANTS
    MaxLines,   \* _Ring.max_lines
    MaxBytes,   \* _Ring.max_bytes, in units
    Long        \* the lines that are two units long

ASSUME RingAssumption == MaxLines \in Nat /\ MaxBytes \in Nat /\ Long \subseteq Nat

PositionsIn(lines, set) == {i \in DOMAIN lines : lines[i] \in set}

Size(line) == IF line \in Long THEN 2 ELSE 1
Bytes(lines) == Len(lines) + Cardinality(PositionsIn(lines, Long))

EmptyRing == [lines |-> <<>>, bytes |-> 0, discarded |-> 0]

Overfull(lines, bytes) == lines # <<>> /\ (Len(lines) > MaxLines \/ bytes > MaxBytes)

\* append(): one line in, the oldest out until the bounds hold again.
Appended(ring, line) ==
    LET all == Append(ring.lines, line)
        total == ring.bytes + Size(line)
        Rest(k) == SubSeq(all, k + 1, Len(all))
        Weight(k) == total - Bytes(SubSeq(all, 1, k))
        evicted == CHOOSE k \in 0..Len(all) :
                       /\ ~Overfull(Rest(k), Weight(k))
                       /\ \A i \in 0..(k - 1) : Overfull(Rest(i), Weight(i))
    IN  [lines |-> Rest(evicted), bytes |-> Weight(evicted),
         discarded |-> ring.discarded + evicted]

\* drain(), and take_matching() for the lines a filter matches.
Drained(ring) == [ring EXCEPT !.lines = <<>>, !.bytes = 0]
Taken(ring, matching) == ItemsAt(ring.lines, PositionsIn(ring.lines, matching))
Unmatched(ring, matching) ==
    ItemsAt(ring.lines, DOMAIN ring.lines \ PositionsIn(ring.lines, matching))
KeptByteless(ring, matching) == [ring EXCEPT !.lines = Unmatched(ring, matching)]
Kept(ring, matching) ==
    [ring EXCEPT !.lines = Unmatched(ring, matching), !.bytes = Bytes(Unmatched(ring, matching))]
=============================================================================
