---------------------------- MODULE MessageRing -----------------------------
(***************************************************************************)
(* The arithmetic of the message stacks of can.c: an array, an index where *)
(* the next message is read, one where the next is written, and a counter. *)
(***************************************************************************)
EXTENDS Naturals, Sequences

\* An index that ran past the array starts again at its beginning.
Wrap(i, size) == IF i >= size THEN i - size ELSE i

After(i, size) == Wrap(i + 1, size)

\* The n messages stored from index first on, oldest first.
Segment(slots, first, n, size) ==
  [i \in 1 .. n |-> slots[Wrap(first + i - 1, size)]]
=============================================================================
