------------------------- MODULE MessageRing_proofs -------------------------
(***************************************************************************)
(* Lemmas about the message stacks, for every size.  What a write and a    *)
(* read do to the indices does to the segment what Append and Tail do to a *)
(* sequence.                                                               *)
(***************************************************************************)
EXTENDS MessageRing, SequenceTheorems, TLAPS

\* An index that overran by less than one turn is brought back inside.
LEMMA WrapInside ==
  ASSUME NEW size \in Nat \ {0}, NEW i \in 0 .. 2 * size - 1
  PROVE  Wrap(i, size) \in 0 .. size - 1
  BY DEF Wrap

LEMMA AfterInside ==
  ASSUME NEW size \in Nat \ {0}, NEW i \in 0 .. size - 1
  PROVE  After(i, size) \in 0 .. size - 1
  BY DEF After, Wrap

\* The writer and the reader advance in step with the counter.
LEMMA AfterWrap ==
  ASSUME NEW size \in Nat \ {0}, NEW first \in 0 .. size - 1,
         NEW n \in 0 .. size - 1
  PROVE  /\ After(Wrap(first + n, size), size) = Wrap(first + (n + 1), size)
         /\ n # 0 => Wrap(After(first, size) + (n - 1), size) = Wrap(first + n, size)
  BY DEF After, Wrap

\* Append and Tail, element by element.
LEMMA AppendIs ==
  ASSUME NEW S, NEW q \in Seq(S), NEW m \in S
  PROVE  Append(q, m) =
           [i \in 1 .. Len(q) + 1 |-> IF i = Len(q) + 1 THEN m ELSE q[i]]
<1> DEFINE w == [i \in 1 .. Len(q) + 1 |-> IF i = Len(q) + 1 THEN m ELSE q[i]]
<1>1. Len(q) \in Nat /\ \A i \in 1 .. Len(q) : q[i] \in S
  OBVIOUS
<1>2. \A i \in 1 .. Len(q) + 1 : w[i] \in S
  BY <1>1
<1>3. w \in Seq(S) /\ Len(w) = Len(q) + 1
  BY <1>1, <1>2
<1>4. \A i \in 1 .. Len(w) : w[i] = Append(q, m)[i]
  BY <1>1, <1>3, AppendProperties
<1> HIDE DEF w
<1>5. w = Append(q, m)
  BY <1>3, <1>4, AppendProperties, SeqEqual
<1> QED
  BY <1>5 DEF w

LEMMA TailIs ==
  ASSUME NEW S, NEW q \in Seq(S), q # <<>>
  PROVE  Tail(q) = [i \in 1 .. Len(q) - 1 |-> q[i + 1]]
<1> DEFINE w == [i \in 1 .. Len(q) - 1 |-> q[i + 1]]
<1>1. Len(q) \in Nat \ {0} /\ \A i \in 1 .. Len(q) : q[i] \in S
  OBVIOUS
<1>2. \A i \in 1 .. Len(q) - 1 : w[i] \in S
  BY <1>1
<1>3. w \in Seq(S) /\ Len(w) = Len(q) - 1
  BY <1>1, <1>2
<1>4. Tail(q) \in Seq(S) /\ Len(Tail(q)) = Len(q) - 1
  BY HeadTailProperties
<1>5. \A i \in 1 .. Len(w) : w[i] = Tail(q)[i]
  BY <1>3, <1>4, HeadTailProperties
<1> HIDE DEF w
<1>6. w = Tail(q)
  BY <1>3, <1>4, <1>5, SeqEqual
<1> QED
  BY <1>6 DEF w

-----------------------------------------------------------------------------
\* slots is a stack of values of S in which n are stored from index first on.
Stack(S, slots, first, n, size) ==
  /\ size \in Nat \ {0}
  /\ slots \in [0 .. size - 1 -> S]
  /\ first \in 0 .. size - 1
  /\ n \in 0 .. size

\* A segment is a sequence of the stored values.
LEMMA SegmentSeq ==
  ASSUME NEW S, NEW slots, NEW first, NEW n, NEW size,
         Stack(S, slots, first, n, size)
  PROVE  /\ Segment(slots, first, n, size) \in Seq(S)
         /\ Len(Segment(slots, first, n, size)) = n
         /\ \A i \in 1 .. n : Segment(slots, first, n, size)[i]
                              = slots[Wrap(first + i - 1, size)]
<1>1. ASSUME NEW i \in 1 .. n
      PROVE  slots[Wrap(first + i - 1, size)] \in S
  <2>1. first + i - 1 \in 0 .. 2 * size - 1
    BY DEF Stack
  <2> QED
    BY <2>1, WrapInside DEF Stack
<1> QED
  BY <1>1 DEF Segment, Stack

LEMMA SegmentEmpty ==
  ASSUME NEW slots, NEW first, NEW size
  PROVE  Segment(slots, first, 0, size) = <<>>
  BY DEF Segment

Write(slots, i, m) == [slots EXCEPT ![i] = m]

\* Writing behind the last message of a stack that is not full appends it.
LEMMA SegmentAppend ==
  ASSUME NEW S, NEW slots, NEW first, NEW n, NEW size, NEW m \in S,
         Stack(S, slots, first, n, size), n < size
  PROVE  Segment(Write(slots, Wrap(first + n, size), m), first, n + 1, size)
         = Append(Segment(slots, first, n, size), m)
<1> DEFINE e == Wrap(first + n, size)
           new == [slots EXCEPT ![e] = m]
           old == Segment(slots, first, n, size)
<1>0. /\ old \in Seq(S) /\ Len(old) = n
      /\ \A i \in 1 .. n : old[i] = slots[Wrap(first + i - 1, size)]
  BY SegmentSeq
<1> HIDE DEF old
<1>1. \A i \in 1 .. n : Wrap(first + i - 1, size) # e
  BY DEF Wrap, Stack
<1>2. \A i \in 1 .. n + 1 : Wrap(first + i - 1, size) \in 0 .. size - 1
  BY DEF Wrap, Stack
<1>3. e = Wrap(first + (n + 1) - 1, size) /\ e \in 0 .. size - 1
  BY DEF Wrap, Stack
<1>4. \A i \in 1 .. n + 1 :
        new[Wrap(first + i - 1, size)] = IF i = n + 1 THEN m ELSE old[i]
  <2>1. new[e] = m
    BY <1>3 DEF Stack
  <2>2. \A i \in 1 .. n : new[Wrap(first + i - 1, size)] = old[i]
    <3> HIDE DEF e
    <3> TAKE i \in 1 .. n
    <3>1. i \in 1 .. n + 1
      BY DEF Stack
    <3>2. new[Wrap(first + i - 1, size)] = slots[Wrap(first + i - 1, size)]
      BY <1>1, <1>2, <3>1 DEF Stack
    <3> QED
      BY <1>0, <3>2
  <2> HIDE DEF new, e
  <2> TAKE i \in 1 .. n + 1
  <2>3. CASE i = n + 1
    BY <1>3, <2>1, <2>3
  <2>4. CASE i \in 1 .. n
    BY <2>2, <2>4 DEF Stack
  <2> QED
    BY <2>3, <2>4 DEF Stack
<1>5. Append(old, m) = [i \in 1 .. n + 1 |-> IF i = n + 1 THEN m ELSE old[i]]
  BY <1>0, AppendIs
<1> HIDE DEF e, new
<1>6. Segment(new, first, n + 1, size)
      = [i \in 1 .. n + 1 |-> new[Wrap(first + i - 1, size)]]
  BY DEF Segment
<1>7. Segment(new, first, n + 1, size) = Append(old, m)
  BY <1>4, <1>5, <1>6
<1> QED
  BY <1>7 DEF e, old, new, Write

\* ... and leaves the messages stored before where they are.
LEMMA SegmentBehind ==
  ASSUME NEW S, NEW slots, NEW first, NEW n, NEW size, NEW m \in S,
         Stack(S, slots, first, n, size), n < size
  PROVE  Segment(Write(slots, Wrap(first + n, size), m), first, n, size)
         = Segment(slots, first, n, size)
<1> DEFINE e == Wrap(first + n, size)
           new == [slots EXCEPT ![e] = m]
<1>1. \A i \in 1 .. n : Wrap(first + i - 1, size) # e
  BY DEF Wrap, Stack
<1>2. \A i \in 1 .. n : Wrap(first + i - 1, size) \in 0 .. size - 1
  BY DEF Wrap, Stack
<1> HIDE DEF e
<1>3. \A i \in 1 .. n : new[Wrap(first + i - 1, size)] = slots[Wrap(first + i - 1, size)]
  BY <1>1, <1>2 DEF Stack
<1> HIDE DEF new
<1>4. Segment(new, first, n, size) = Segment(slots, first, n, size)
  BY <1>3 DEF Segment
<1> QED
  BY <1>4 DEF new, e, Write

\* Advancing the read index removes the oldest message.
LEMMA SegmentTail ==
  ASSUME NEW S, NEW slots, NEW first, NEW n, NEW size,
         Stack(S, slots, first, n, size), n # 0
  PROVE  /\ Segment(slots, first, n, size) # <<>>
         /\ Head(Segment(slots, first, n, size)) = slots[first]
         /\ Segment(slots, After(first, size), n - 1, size)
            = Tail(Segment(slots, first, n, size))
<1> DEFINE old == Segment(slots, first, n, size)
<1>0. /\ old \in Seq(S) /\ Len(old) = n
      /\ \A i \in 1 .. n : old[i] = slots[Wrap(first + i - 1, size)]
  BY SegmentSeq
<1> HIDE DEF old
<1>1. \A i \in 1 .. n - 1 :
        Wrap(After(first, size) + i - 1, size) = Wrap(first + (i + 1) - 1, size)
  BY DEF After, Wrap, Stack
<1>2. Wrap(first + 1 - 1, size) = first /\ n \in Nat \ {0}
  BY DEF Wrap, Stack
<1>3. old \in Seq(S) /\ Len(old) = n /\ old # <<>> /\ Head(old) = slots[first]
  BY <1>0, <1>2
<1>4. Tail(old) = [i \in 1 .. n - 1 |-> old[i + 1]]
  BY <1>3, TailIs
<1>5. \A i \in 1 .. n - 1 : old[i + 1] = slots[Wrap(first + (i + 1) - 1, size)]
  BY <1>0, <1>2
<1>6. Segment(slots, After(first, size), n - 1, size) = Tail(old)
  BY <1>1, <1>4, <1>5 DEF Segment
<1> QED
  BY <1>3, <1>6 DEF old
=============================================================================
