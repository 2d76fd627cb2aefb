------------------------- MODULE Interrupts_proofs --------------------------
(***************************************************************************)
(* Proofs about what interrupts and the main program share without a lock: *)
(* the serial transmitter (UartTx) and the software timers (Timers).       *)
(*                                                                         *)
(* Sending on the serial line, for every size of the FIFO and all packets: *)
(* the first part is about the flag, the interrupt enable and the data     *)
(* register and needs nothing about the contents of the FIFO; the second   *)
(* follows the bytes.  The last part is about the tick that interrupts     *)
(* RegisterTimer and the countdown, for every number of words.             *)
(***************************************************************************)
EXTENDS UartTx, Timers, MessageRing_proofs, FiniteSetTheorems

\* The inductive invariant.  sSend0Empty and the interrupt enable agree
\* except inside StartSend0, a standing transmitter has an empty data
\* register, and when the main loop is done it has left no bytes behind.
StartInv ==
  /\ pc \in {"idle", "add", "start"} => (tie <=> ~sSend0Empty)
  /\ pc \in {"load", "mark"} => sSend0Empty /\ ~tie
  /\ pc = "enable" => ~sSend0Empty /\ ~tie
  /\ pc \in {"idle", "add", "start", "load", "mark", "enable"}
  /\ sSend0Empty /\ pc # "mark" => tdr = NoByte
  /\ pc = "idle" /\ sSend0Empty => Fifo!Empty

LEMMA Inductive == Spec => []StartInv
<1>1. Init => StartInv
  BY DEF Init, StartInv, Fifo!Empty
<1>2. StartInv /\ [Next]_vars => StartInv'
  <2> SUFFICES ASSUME StartInv, [Next]_vars PROVE StartInv'
    OBVIOUS
  <2>1. ASSUME NEW n \in LENGTHS, CreateAndSend_Pkt_UART0(n) PROVE StartInv'
    BY <2>1 DEF CreateAndSend_Pkt_UART0, StartInv, fifo
  <2>2. CASE AddDataToSend0
    BY <2>2 DEF AddDataToSend0, StartInv
  <2>3. CASE StartTest
    BY <2>3 DEF StartTest, StartInv, fifo, Fifo!Empty
  <2>4. CASE StartLoad
    BY <2>4 DEF StartLoad, PullToRegister, StartInv
  <2>5. CASE StartMark
    BY <2>5 DEF StartMark, StartInv, fifo
  <2>6. CASE StartEnable
    BY <2>6 DEF StartEnable, StartInv, fifo
  <2>7. CASE IRQ_TX0
    <3>1. CASE Fifo!Empty
      BY <2>7, <3>1 DEF IRQ_TX0, StartInv, fifo, Fifo!Empty
    <3>2. CASE ~Fifo!Empty
      BY <2>7, <3>2 DEF IRQ_TX0, StartInv, PullToRegister
    <3> QED
      BY <3>1, <3>2
  <2>8. CASE Shift
    BY <2>8 DEF Shift, StartInv, fifo, Fifo!Empty
  <2>9. CASE UNCHANGED vars
    BY <2>9 DEF vars, fifo, StartInv, Fifo!Empty
  <2> QED
    BY <2>1, <2>2, <2>3, <2>4, <2>5, <2>6, <2>7, <2>8, <2>9 DEF Next, Start
<1> QED
  BY <1>1, <1>2, PTL DEF Spec

\* Whatever the transmit interrupt does between two steps of StartSend0, the
\* bytes left in the FIFO have an interrupt that will fetch them.
THEOREM NeverStalls == Spec => []NoStall
<1>1. StartInv => NoStall
  BY DEF StartInv, NoStall
<1> QED
  BY <1>1, Inductive, PTL

\* Neither StartSend0 nor the interrupt writes a data register whose byte the
\* line has not yet taken.
THEOREM RegisterIsKept == Spec => RegisterKept
<1> DEFINE Kept == tdr' # tdr => tdr = NoByte \/ tdr' = NoByte
<1>1. StartInv /\ [Next]_vars => [Kept]_vars
  <2> SUFFICES ASSUME StartInv, Next PROVE Kept
    OBVIOUS
  <2>1. ASSUME NEW n \in LENGTHS, CreateAndSend_Pkt_UART0(n) PROVE Kept
    BY <2>1 DEF CreateAndSend_Pkt_UART0
  <2>2. CASE AddDataToSend0
    BY <2>2 DEF AddDataToSend0
  <2>3. CASE StartTest \/ StartMark \/ StartEnable
    BY <2>3 DEF StartTest, StartMark, StartEnable
  <2>4. CASE StartLoad
    BY <2>4 DEF StartLoad, StartInv
  <2>5. CASE IRQ_TX0
    BY <2>5 DEF IRQ_TX0
  <2>6. CASE Shift
    BY <2>6 DEF Shift
  <2> QED
    BY <2>1, <2>2, <2>3, <2>4, <2>5, <2>6 DEF Next, Start
<1> QED
  BY <1>1, Inductive, PTL DEF Spec, RegisterKept

-----------------------------------------------------------------------------
(* The bytes and their order.                                              *)

Register == IF tdr = NoByte THEN <<>> ELSE <<tdr>>

\* 1..n as the sequence of the bytes given to the FIFO.
Count(n) == [i \in 1 .. n |-> i]

\* The types, and StartSend0 loads the register only from a FIFO that holds a
\* byte: nobody takes that byte away while the interrupt is switched off.
LineType ==
  /\ buffer \in [Fifo!Places -> Nat]
  /\ read_index \in Fifo!Indices /\ write_index \in Fifo!Indices
  /\ overwritten \in BOOLEAN
  /\ given \in Nat /\ tdr \in Nat /\ wire \in Seq(Nat)
  /\ pc = "load" => ~Fifo!Empty

LineInv ==
  /\ LineType
  /\ ~overwritten => Fifo!Pending <= SIZE /\ LineInOrder

\* The index arithmetic of fifo.c, which runs over twice the size.
LEMMA IndexSteps ==
  ASSUME read_index \in Fifo!Indices, write_index \in Fifo!Indices
  PROVE  /\ Wrap(read_index, SIZE) \in Fifo!Places
         /\ Wrap(write_index, SIZE) \in Fifo!Places
         /\ After(read_index, 2 * SIZE) \in Fifo!Indices
         /\ After(write_index, 2 * SIZE) \in Fifo!Indices
         /\ Fifo!Pending \in Nat
         /\ Fifo!Empty <=> Fifo!Pending = 0
         /\ Wrap(After(read_index, 2 * SIZE), SIZE) = After(Wrap(read_index, SIZE), SIZE)
         /\ Fifo!Pending <= SIZE =>
              Wrap(write_index, SIZE) = Wrap(Wrap(read_index, SIZE) + Fifo!Pending, SIZE)
  BY UartAssumption
     DEF UartAssumption, Fifo!Indices, Fifo!Places, Fifo!Pending, Fifo!Empty, Wrap, After

\* What waits is a segment of the buffer.
LEMMA Contents ==
  Fifo!Waiting = Segment(buffer, Wrap(read_index, SIZE), Fifo!Pending, SIZE)
  BY DEF Fifo!Waiting, Fifo!Segment, Segment, Fifo!Wrap, Wrap

LEMMA WaitingIs ==
  ASSUME LineType, Fifo!Pending <= SIZE
  PROVE  /\ Stack(Nat, buffer, Wrap(read_index, SIZE), Fifo!Pending, SIZE)
         /\ Fifo!Waiting \in Seq(Nat) /\ Len(Fifo!Waiting) = Fifo!Pending
<1>1. Stack(Nat, buffer, Wrap(read_index, SIZE), Fifo!Pending, SIZE)
  BY IndexSteps, UartAssumption DEF UartAssumption, LineType, Fifo!Places, Stack
<1> QED
  BY <1>1, SegmentSeq, Contents

\* LineInOrder in these terms, before and after a step.
LEMMA LineIs ==
  /\ LineInOrder <=> (~overwritten => wire \o Register \o Fifo!Waiting = Count(given))
  /\ LineInOrder' <=>
       (~overwritten' => (wire \o Register \o Fifo!Waiting)' = Count(given'))
<1>1. LineInOrder <=> (~overwritten => wire \o Register \o Fifo!Waiting = Count(given))
  BY DEF LineInOrder, Register, Count
<1>2. LineInOrder' <=>
       (~overwritten' => (wire \o Register \o Fifo!Waiting)' = Count(given'))
  BY DEF LineInOrder, Register, Count
<1> QED
  BY <1>1, <1>2

\* Nothing of the line changes.
LEMMA LineUnchanged ==
  ASSUME UNCHANGED <<fifo, tdr, given, wire>>
  PROVE  /\ LineInOrder' = LineInOrder
         /\ Fifo!Pending' = Fifo!Pending
  BY Contents DEF LineInOrder, fifo, Fifo!Pending, Fifo!Waiting, Fifo!Segment, Fifo!Wrap

\* Storing the next byte behind the others.
LEMMA AddStep ==
  ASSUME LineInv, AddDataToSend0, ~overwritten'
  PROVE  (Fifo!Pending <= SIZE /\ LineInOrder)'
<1> DEFINE r == Wrap(read_index, SIZE)
           n == Fifo!Pending
<1>1. /\ ~overwritten /\ n < SIZE /\ n <= SIZE /\ n \in Nat
      /\ SIZE \in Nat \ {0} /\ wire \in Seq(Nat) /\ given \in Nat
      /\ read_index \in Fifo!Indices /\ write_index \in Fifo!Indices
      /\ tdr \in Nat
  <2>1. ~overwritten /\ ~(n >= SIZE)
    BY Zenon DEF AddDataToSend0
  <2> QED
    BY <2>1, IndexSteps, UartAssumption DEF UartAssumption, LineInv, LineType
<1>2. Fifo!Pending' = n + 1
  BY <1>1 DEF AddDataToSend0, Fifo!Pending, Fifo!Indices, After, Wrap
<1>3. /\ buffer' = Write(buffer, Wrap(r + n, SIZE), given + 1)
      /\ UNCHANGED <<read_index, tdr, wire>> /\ given' = given + 1
  BY <1>1, IndexSteps DEF AddDataToSend0, Write
<1>4. Fifo!Waiting' = Append(Fifo!Waiting, given + 1)
  <2>1. Stack(Nat, buffer, r, n, SIZE)
    BY <1>1, WaitingIs DEF LineInv
  <2>2. Segment(Write(buffer, Wrap(r + n, SIZE), given + 1), r, n + 1, SIZE)
        = Append(Segment(buffer, r, n, SIZE), given + 1)
    <3> HIDE DEF r, n
    <3> QED
      BY <1>1, <2>1, SegmentAppend
  <2>3. Fifo!Waiting' = Segment(buffer', Wrap(read_index', SIZE), Fifo!Pending', SIZE)
    BY Contents DEF Fifo!Waiting, Fifo!Segment, Segment, Fifo!Wrap, Wrap
  <2> QED
    BY <1>2, <1>3, <2>2, <2>3, Contents
<1> HIDE DEF r, n
<1>5. wire \o Register \o Fifo!Waiting = Count(given)
  BY <1>1, LineIs DEF LineInv
<1>6. (wire \o Register \o Fifo!Waiting)' = Count(given')
  <2>1. Fifo!Waiting \in Seq(Nat) /\ Register \in Seq(Nat)
    BY <1>1, WaitingIs DEF LineInv, Register, n
  <2> DEFINE b == wire \o Register
             w == Fifo!Waiting
  <2>2. b \in Seq(Nat) /\ w \in Seq(Nat)
    BY <1>1, <2>1, ConcatProperties
  <2>3. b \o Append(w, given + 1) = Append(b \o w, given + 1)
    <3> HIDE DEF b, w
    <3>1. given + 1 \in Nat /\ <<given + 1>> \in Seq(Nat)
      BY <1>1
    <3>2. Append(w, given + 1) = w \o <<given + 1>>
      BY <2>2, <3>1, AppendIsConcat
    <3>3. b \o w \in Seq(Nat)
      BY <2>2, ConcatProperties
    <3>4. Append(b \o w, given + 1) = (b \o w) \o <<given + 1>>
      BY <3>1, <3>3, AppendIsConcat
    <3> QED
      BY <2>2, <3>1, <3>2, <3>4, ConcatAssociative
  <2>4. Append(Count(given), given + 1) = Count(given + 1)
    <3>1. Count(given) \in Seq(Nat) /\ Len(Count(given)) = given
      BY <1>1 DEF Count
    <3>2. \A i \in 1 .. given : Count(given)[i] = i
      BY DEF Count
    <3>3. Append(Count(given), given + 1)
          = [i \in 1 .. given + 1 |-> IF i = given + 1 THEN given + 1 ELSE Count(given)[i]]
      BY <1>1, <3>1, AppendIs
    <3> QED
      BY <1>1, <3>2, <3>3 DEF Count
  <2>5. (wire \o Register)' = b
    BY <1>3 DEF Register
  <2> QED
    BY <1>3, <1>4, <1>5, <2>3, <2>4, <2>5
<1> QED
  BY <1>1, <1>2, <1>3, <1>6, LineIs

\* The oldest byte moves to the empty register.
LEMMA PullStep ==
  ASSUME LineInv, tdr = NoByte, ~Fifo!Empty, PullToRegister,
         UNCHANGED <<given, wire>>, ~overwritten
  PROVE  (Fifo!Pending <= SIZE /\ LineInOrder)'
<1> DEFINE r == Wrap(read_index, SIZE)
           n == Fifo!Pending
<1>1. /\ n <= SIZE /\ n \in Nat /\ n # 0
      /\ SIZE \in Nat \ {0} /\ wire \in Seq(Nat)
      /\ read_index \in Fifo!Indices /\ write_index \in Fifo!Indices
  BY IndexSteps, UartAssumption DEF UartAssumption, LineInv, LineType
<1>2. Fifo!Pending' = n - 1
  BY <1>1 DEF PullToRegister, Fifo!Pending, Fifo!Indices, After, Wrap
<1>3. /\ Fifo!Waiting \in Seq(Nat) /\ Len(Fifo!Waiting) = n
      /\ Fifo!Waiting # <<>> /\ Head(Fifo!Waiting) = buffer[r]
      /\ Fifo!Waiting' = Tail(Fifo!Waiting)
  <2>1. Stack(Nat, buffer, r, n, SIZE)
    BY <1>1, WaitingIs DEF LineInv
  <2>2. /\ Segment(buffer, r, n, SIZE) # <<>>
        /\ Head(Segment(buffer, r, n, SIZE)) = buffer[r]
        /\ Segment(buffer, After(r, SIZE), n - 1, SIZE) = Tail(Segment(buffer, r, n, SIZE))
    <3> HIDE DEF r, n
    <3> QED
      BY <1>1, <2>1, SegmentTail
  <2>3. Wrap(read_index', SIZE) = After(r, SIZE) /\ buffer' = buffer
    BY <1>1, IndexSteps DEF PullToRegister
  <2>4. Fifo!Waiting' = Segment(buffer', Wrap(read_index', SIZE), Fifo!Pending', SIZE)
    BY DEF Fifo!Waiting, Fifo!Segment, Segment, Fifo!Wrap, Wrap
  <2> QED
    BY <1>1, <1>2, <2>2, <2>3, <2>4, Contents, WaitingIs DEF LineInv
<1>4. tdr' = Head(Fifo!Waiting)
  BY <1>3 DEF PullToRegister
<1> HIDE DEF r, n
<1> DEFINE w == Fifo!Waiting
<1>5. wire \o w = Count(given)
  <2>1. wire \o Register \o w = Count(given) /\ Register = <<>>
    BY LineIs DEF LineInv, Register
  <2> QED
    BY <1>1, <2>1, ConcatEmptySeq
<1>6. w = <<Head(w)>> \o Tail(w) /\ Head(w) \in Nat /\ Tail(w) \in Seq(Nat)
  <2> HIDE DEF w
  <2>1. w \in Seq(Nat) /\ w # <<>>
    BY <1>3 DEF w
  <2>2. Head(w) \in Nat /\ Tail(w) \in Seq(Nat)
    BY <2>1, HeadTailProperties
  <2>3. Len(w) \in Nat /\ 1 \in 1 .. Len(w) /\ Len(w) \in 1 .. Len(w)
    BY <2>1, EmptySeq
  <2>4. SubSeq(w, 1, Len(w)) = <<w[1]>> \o SubSeq(w, 2, Len(w))
    BY <2>1, <2>3, SubSeqRecursiveFirst
  <2>5. SubSeq(w, 1, Len(w)) = w /\ Tail(w) = SubSeq(w, 2, Len(w))
    BY <2>1, SubSeqFull, TailIsSubSeq
  <2>6. Head(w) = w[1]
    BY <2>1
  <2> QED
    BY <2>2, <2>4, <2>5, <2>6
<1>7. Head(w) # NoByte
  <2> HIDE DEF w
  <2>1. w \in Seq(Nat) /\ w # <<>> /\ Len(w) \in Nat \ {0} /\ Head(w) = w[1]
    BY <1>3, EmptySeq DEF w
  <2>2. Len(wire) \in Nat
    BY <1>1
  <2>3. /\ Len(wire \o w) = Len(wire) + Len(w)
        /\ \A i \in 1 .. Len(wire) + Len(w) :
             (wire \o w)[i] = IF i <= Len(wire) THEN wire[i] ELSE w[i - Len(wire)]
    BY <1>1, <2>1, ConcatProperties
  <2>4. (wire \o w)[Len(wire) + 1] = w[1]
    BY <2>1, <2>2, <2>3
  <2>5. given \in Nat /\ Len(Count(given)) = given
    BY DEF LineInv, LineType, Count
  <2>6. Len(wire) + 1 \in 1 .. given
    BY <1>5, <2>1, <2>2, <2>3, <2>5
  <2>7. Count(given)[Len(wire) + 1] = Len(wire) + 1
    BY <2>6 DEF Count
  <2> QED
    BY <1>5, <2>1, <2>2, <2>4, <2>7 DEF NoByte, Fifo!NoByte
<1>8. (wire \o Register \o Fifo!Waiting)' = Count(given)
  <2>1. (wire \o Register \o Fifo!Waiting)' = wire \o <<Head(w)>> \o Tail(w)
    BY <1>3, <1>4, <1>7 DEF Register, NoByte, Fifo!NoByte
  <2>2. wire \o <<Head(w)>> \o Tail(w) = wire \o (<<Head(w)>> \o Tail(w))
    <3> HIDE DEF w
    <3>1. <<Head(w)>> \in Seq(Nat) /\ Tail(w) \in Seq(Nat)
      BY <1>6
    <3> QED
      BY <1>1, <3>1, ConcatAssociative
  <2> QED
    BY <1>5, <1>6, <2>1, <2>2
<1> QED
  <2>1. given' = given /\ Fifo!Pending' <= SIZE
    BY <1>1, <1>2
  <2> QED
    BY <1>8, <2>1, LineIs

\* The line takes the byte of the register.
LEMMA ShiftStep ==
  ASSUME LineInv, Shift, ~overwritten
  PROVE  (Fifo!Pending <= SIZE /\ LineInOrder)'
<1>1. /\ wire \in Seq(Nat) /\ tdr \in Nat /\ tdr # NoByte
      /\ wire' = Append(wire, tdr) /\ tdr' = NoByte /\ given' = given
  BY DEF LineInv, LineType, Shift
<1>2. Fifo!Waiting' = Fifo!Waiting /\ Fifo!Pending' = Fifo!Pending
  BY DEF Shift, fifo, Fifo!Waiting, Fifo!Pending, Fifo!Segment, Fifo!Wrap
<1>3. Append(wire, tdr) = wire \o <<tdr>> /\ Append(wire, tdr) \in Seq(Nat)
  BY <1>1, AppendIsConcat, AppendProperties
<1>4. Append(wire, tdr) \o <<>> = Append(wire, tdr)
  BY <1>3, ConcatEmptySeq
<1>5. (wire \o Register \o Fifo!Waiting)' = wire \o Register \o Fifo!Waiting
  BY <1>1, <1>2, <1>3, <1>4 DEF Register, NoByte, Fifo!NoByte
<1> QED
  BY <1>1, <1>2, <1>5, LineIs DEF LineInv

LEMMA LineTypeStep ==
  ASSUME LineType, StartInv, [Next]_vars
  PROVE  LineType'
<1>1. ASSUME NEW n \in LENGTHS, CreateAndSend_Pkt_UART0(n) PROVE LineType'
  BY <1>1 DEF CreateAndSend_Pkt_UART0, LineType, fifo, Fifo!Empty
<1>2. CASE AddDataToSend0
  BY <1>2, IndexSteps DEF AddDataToSend0, LineType
<1>3. CASE StartTest \/ StartMark \/ StartEnable
  BY <1>3 DEF StartTest, StartMark, StartEnable, LineType, fifo, Fifo!Empty
<1>4. ASSUME PullToRegister, pc' # "load", UNCHANGED <<given, wire>>
      PROVE  LineType'
  <2>1. buffer[Wrap(read_index, SIZE)] \in Nat
    BY IndexSteps DEF LineType
  <2> QED
    BY <1>4, <2>1, IndexSteps DEF PullToRegister, LineType
<1>5. CASE StartLoad
  BY <1>4, <1>5 DEF StartLoad
<1>6. CASE IRQ_TX0
  <2>1. pc' = pc /\ pc # "load"
    BY <1>6 DEF IRQ_TX0, StartInv
  <2>2. CASE Fifo!Empty
    BY <1>6, <2>1, <2>2 DEF IRQ_TX0, LineType, fifo
  <2>3. CASE ~Fifo!Empty
    BY <1>4, <1>6, <2>1, <2>3 DEF IRQ_TX0
  <2> QED
    BY <2>2, <2>3
<1>7. CASE Shift
  <2>1. wire' \in Seq(Nat) /\ tdr' \in Nat
    BY <1>7, AppendProperties DEF Shift, LineType, NoByte, Fifo!NoByte
  <2> QED
    BY <1>7, <2>1 DEF Shift, LineType, fifo, Fifo!Empty
<1>8. CASE UNCHANGED vars
  BY <1>8 DEF vars, fifo, LineType, Fifo!Empty
<1> QED
  BY <1>1, <1>2, <1>3, <1>5, <1>6, <1>7, <1>8 DEF Next, Start

LEMMA LineInvariant == Spec => []LineInv
<1>1. Init => LineInv
  <2> SUFFICES ASSUME Init PROVE LineInv
    OBVIOUS
  <2>1. SIZE \in Nat \ {0} /\ 0 \in Fifo!Indices /\ 0 \in Fifo!Places /\ <<>> \in Seq(Nat)
    BY UartAssumption, EmptySeq DEF UartAssumption, Fifo!Indices, Fifo!Places
  <2>2. LineType
    BY <2>1 DEF Init, LineType, NoByte, Fifo!NoByte
  <2>3. Fifo!Pending = 0
    BY <2>1 DEF Init, Fifo!Pending
  <2>4. Fifo!Waiting = <<>> /\ Register = <<>> /\ Count(given) = <<>>
    BY <2>3, SegmentEmpty, Contents DEF Init, Register, Count
  <2>5. wire \o Register \o Fifo!Waiting = Count(given)
    BY <2>1, <2>4, ConcatEmptySeq DEF Init
  <2> QED
    BY <2>1, <2>2, <2>3, <2>5, LineIs DEF LineInv
<1>2. LineInv /\ StartInv /\ [Next]_vars => LineInv'
  <2> SUFFICES ASSUME LineInv, StartInv, [Next]_vars, ~overwritten'
               PROVE  (Fifo!Pending <= SIZE /\ LineInOrder)'
    BY LineTypeStep DEF LineInv
  <2>1. ASSUME UNCHANGED <<fifo, tdr, given, wire>>
        PROVE  (Fifo!Pending <= SIZE /\ LineInOrder)'
    BY <2>1, LineUnchanged DEF LineInv, fifo
  <2>2. CASE \/ \E n \in LENGTHS : CreateAndSend_Pkt_UART0(n)
             \/ StartTest \/ StartMark \/ StartEnable \/ UNCHANGED vars
    BY <2>1, <2>2 DEF CreateAndSend_Pkt_UART0, StartTest, StartMark, StartEnable, vars
  <2>3. CASE AddDataToSend0
    BY <2>3, AddStep
  <2>4. CASE StartLoad
    BY <2>4, PullStep DEF StartLoad, StartInv, LineInv, LineType, PullToRegister
  <2>5. CASE IRQ_TX0
    <3>1. CASE Fifo!Empty
      BY <2>1, <2>5, <3>1 DEF IRQ_TX0
    <3>2. CASE ~Fifo!Empty
      BY <2>5, <3>2, PullStep DEF IRQ_TX0, PullToRegister
    <3> QED
      BY <3>1, <3>2
  <2>6. CASE Shift
    BY <2>6, ShiftStep DEF Shift, fifo
  <2> QED
    BY <2>2, <2>3, <2>4, <2>5, <2>6 DEF Next, Start
<1> QED
  BY <1>1, <1>2, Inductive, PTL DEF Spec

\* As long as the uint8_t count of the FIFO has let no byte be overwritten, the
\* line carries every byte of the packets once and in their order, at any size.
THEOREM NoByteOutOfOrder == Spec => []LineInOrder
<1>1. LineInv => LineInOrder
  BY DEF LineInv, LineInOrder
<1> QED
  BY <1>1, LineInvariant, PTL

-----------------------------------------------------------------------------
(* The software timers, for every number of timers and places and all      *)
(* values, with a table that may be full.                                  *)

TimerType ==
  /\ timers \in [Places -> TIMERS \cup {None}]
  /\ value \in [TIMERS -> Nat] /\ asked \in [TIMERS -> Nat] /\ elapsed \in [TIMERS -> Nat]
  /\ tmr \in TIMERS /\ arg \in Nat

\* No timer stands in the table twice.
EnteredOnce == \A p, q \in Places : timers[p] = timers[q] /\ timers[p] # None => p = q

\* The inductive invariant: a tick takes at most one from a word.
TimerInv == TimerType /\ EnteredOnce /\ NeverEarly

\* The tick meets the address of a timer at most once.
LEMMA CountedOnce ==
  ASSUME TimerType, EnteredOnce, NEW t \in TIMERS
  PROVE  Cardinality({p \in Places : timers[p] = t}) \in {0, 1}
<1> DEFINE placesOf(u) == {p \in Places : timers[p] = u}
<1>1. CASE placesOf(t) = {}
  BY <1>1, FS_EmptySet
<1>2. ASSUME NEW p \in placesOf(t)  PROVE Cardinality(placesOf(t)) = 1
  <2>1. t # None
    BY TimersAssumption
  <2>2. placesOf(t) = {p}
    BY <1>2, <2>1 DEF EnteredOnce
  <2> QED  BY <2>2, FS_Singleton
<1> QED  BY <1>1, <1>2

LEMMA TickStep == TimerInv /\ Tick => TimerInv'
<1> SUFFICES ASSUME TimerInv, Tick  PROVE TimerInv'
  OBVIOUS
<1> USE DEF TimerInv
<1>1. EnteredOnce'
  BY DEF Tick, table, EnteredOnce
<1>2. ASSUME NEW t \in TIMERS
      PROVE  value'[t] \in Nat /\ elapsed'[t] \in Nat /\ value'[t] + elapsed'[t] >= asked'[t]
  <2> DEFINE n == Cardinality({p \in Places : timers[p] = t})
  <2>1. n \in {0, 1}
    BY CountedOnce
  <2>2. value'[t] = IF value[t] > n THEN value[t] - n ELSE 0
    BY DEF Tick
  <2>3. /\ elapsed'[t] = IF elapsed[t] < asked[t] THEN elapsed[t] + 1 ELSE asked[t]
        /\ asked' = asked
    BY DEF Tick
  <2>4. value[t] \in Nat /\ elapsed[t] \in Nat /\ asked[t] \in Nat
    BY DEF TimerType
  <2>5. value[t] + elapsed[t] >= asked[t]
    BY DEF NeverEarly
  <2> HIDE DEF n
  <2> QED  BY <2>1, <2>2, <2>3, <2>4, <2>5
<1>3. DOMAIN value' = TIMERS /\ DOMAIN elapsed' = TIMERS
  BY DEF Tick
<1>4. value' \in [TIMERS -> Nat] /\ elapsed' \in [TIMERS -> Nat]
  <2>1. value' = [t \in TIMERS |-> value'[t]] /\ elapsed' = [t \in TIMERS |-> elapsed'[t]]
    BY DEF Tick
  <2> QED  BY <1>2, <2>1
<1>5. TimerType'
  BY <1>4 DEF Tick, TimerType, table, call
<1>6. NeverEarly'
  BY <1>2 DEF NeverEarly
<1> QED  BY <1>1, <1>5, <1>6

LEMMA EnterStep ==
  ASSUME TimerType, EnteredOnce, NEW t \in TIMERS, Enter(t)
  PROVE  timers' \in [Places -> TIMERS \cup {None}] /\ EnteredOnce'
<1>1. CASE UNCHANGED table
  BY <1>1 DEF TimerType, EnteredOnce, table
<1>2. CASE ~UNCHANGED table
  <2>1. ~Registered(t)
    BY <1>2 DEF Enter
  <2>2. PICK p \in Places : timers' = [timers EXCEPT ![p] = t]
    BY <1>2 DEF Enter
  <2> QED  BY <2>1, <2>2 DEF TimerType, EnteredOnce, Registered
<1> QED  BY <1>1, <1>2

LEMMA RemoveStep ==
  ASSUME TimerType, EnteredOnce, NEW t \in TIMERS, Remove(t)
  PROVE  timers' \in [Places -> TIMERS \cup {None}] /\ EnteredOnce'
<1>1. CASE Registered(t)
  <2>1. timers' = [p \in Places |-> IF timers[p] = t THEN None ELSE timers[p]]
    BY <1>1 DEF Remove
  <2> QED  BY <2>1 DEF TimerType, EnteredOnce
<1>2. CASE ~Registered(t)
  BY <1>2 DEF Remove, TimerType, EnteredOnce, table
<1> QED  BY <1>1, <1>2

\* A timer is set to v, and its history begins again.
LEMMA SetStep ==
  ASSUME TimerInv, NEW t \in TIMERS, NEW v \in Nat, UNCHANGED table,
         value' = [value EXCEPT ![t] = v], asked' = [asked EXCEPT ![t] = v],
         elapsed' = [elapsed EXCEPT ![t] = 0], tmr' \in TIMERS, arg' \in Nat
  PROVE  TimerInv'
<1>1. TimerType'
  BY DEF TimerInv, TimerType, table
<1>2. EnteredOnce'
  BY DEF TimerInv, EnteredOnce, table
<1>3. NeverEarly'
  BY DEF TimerInv, TimerType, NeverEarly
<1> QED  BY <1>1, <1>2, <1>3 DEF TimerInv

LEMMA TimerInvariant == TimerSpec => []TimerInv
<1>1. TimerInit => TimerInv
  BY TimersAssumption
     DEF TimersAssumption, TimerInit, TimerInv, TimerType, EnteredOnce, NeverEarly
<1>2. TimerInv /\ [TimerNext]_timerVars => TimerInv'
  <2> SUFFICES ASSUME TimerInv, [TimerNext]_timerVars  PROVE TimerInv'
    OBVIOUS
  <2>1. ASSUME UNCHANGED <<value, hist>>, tmr' \in TIMERS, arg' \in Nat,
               timers' \in [Places -> TIMERS \cup {None}], EnteredOnce'
        PROVE  TimerInv'
    BY <2>1 DEF TimerInv, TimerType, NeverEarly, hist
  <2>2. tmr \in TIMERS /\ arg \in Nat /\ timers \in [Places -> TIMERS \cup {None}]
    BY DEF TimerInv, TimerType
  <2>3. UNCHANGED table => EnteredOnce'
    BY DEF TimerInv, EnteredOnce, table
  <2>4. CASE Tick
    BY <2>4, TickStep
  <2>5. ASSUME NEW t \in TIMERS, add_timer(t)  PROVE TimerInv'
    BY <2>1, <2>2, <2>5, EnterStep DEF add_timer, call, TimerInv
  <2>6. ASSUME NEW t \in TIMERS, del_timer(t)  PROVE TimerInv'
    BY <2>1, <2>2, <2>6, RemoveStep DEF del_timer, call, TimerInv
  <2>7. ASSUME NEW t \in TIMERS, getTimer(t)  PROVE TimerInv'
    BY <2>1, <2>2, <2>3, <2>7 DEF getTimer, table
  <2>8. ASSUME NEW t \in TIMERS, NEW v \in VALUES, setTimer(t, v)  PROVE TimerInv'
    BY <2>1, <2>2, <2>3, <2>8, TimersAssumption DEF setTimer, table
  <2>9. ASSUME NEW v \in VALUES, msDelay(v)  PROVE TimerInv'
    BY <2>2, <2>9, SetStep, TimersAssumption DEF msDelay
  <2>10. CASE WriteWord
    BY <2>2, <2>10, SetStep DEF WriteWord, call
  <2>11. CASE DelayEnter
    BY <2>1, <2>2, <2>11, EnterStep, TimersAssumption DEF DelayEnter, call, TimerInv
  <2>12. CASE DelayLeave
    BY <2>1, <2>2, <2>12, RemoveStep, TimersAssumption DEF DelayLeave, call, TimerInv
  <2>13. CASE Compare \/ Read \/ Reread \/ UNCHANGED timerVars
    BY <2>1, <2>2, <2>3, <2>13 DEF Compare, Read, Reread, timerVars, table, call
  <2> QED
    BY <2>4, <2>5, <2>6, <2>7, <2>8, <2>9, <2>10, <2>11, <2>12, <2>13 DEF TimerNext, Step
<1> QED  BY <1>1, <1>2, PTL DEF TimerSpec

\* No time-out is early: whatever the tick interrupts, and however often a timer is
\* registered, a word has lost no more than the milliseconds since it was set.
THEOREM TimeoutsNeverEarly == TimerSpec => []NeverEarly
BY TimerInvariant, PTL DEF TimerInv
=============================================================================
