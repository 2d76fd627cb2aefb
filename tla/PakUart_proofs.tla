-------------------------- MODULE PakUart_proofs ---------------------------
(***************************************************************************)
(* Proofs about the byte FIFO and the reception of packets, for every size *)
(* of the FIFO. As long as no byte is overwritten the FIFO is a bounded    *)
(* queue under every interleaving of its unprotected push and pull, and a  *)
(* line that loses nothing has all its packets handled. Whether a byte can *)
(* be overwritten is a matter of the size: not if it fits in a uint8_t; a  *)
(* larger FIFO never notices that it is full.                              *)
(***************************************************************************)
EXTENDS PakUart, MessageRing_proofs

\* The places are used in the order of the indices, and a step of an index is
\* a step through the places, although the indices run over twice the size.
LEMMA IndexSteps ==
  ASSUME TypeOK, Pending <= SIZE
  PROVE  /\ Wrap(read_index, SIZE) \in Places
         /\ Wrap(write_index, SIZE) \in Places
         /\ Pending \in 0 .. SIZE
         /\ Wrap(write_index, SIZE) = Wrap(Wrap(read_index, SIZE) + Pending, SIZE)
         /\ Wrap(After(read_index, 2 * SIZE), SIZE) = After(Wrap(read_index, SIZE), SIZE)
         /\ After(read_index, 2 * SIZE) \in Indices
         /\ After(write_index, 2 * SIZE) \in Indices
         /\ Empty <=> Pending = 0
  BY FifoAssumption
     DEF FifoAssumption, TypeOK, Indices, Places, Pending, Wrap, After, Empty

\* The contents are a segment of the buffer.
LEMMA IsStack ==
  ASSUME TypeOK, Pending <= SIZE
  PROVE  Stack(Byte \cup {NoByte}, buffer, Wrap(read_index, SIZE), Pending, SIZE)
  BY IndexSteps, FifoAssumption DEF FifoAssumption, TypeOK, Places, Stack

-----------------------------------------------------------------------------
(* Facts that hold for every size.                                         *)

\* A byte that is being pushed is one of the bytes.
TypeInv == TypeOK /\ (producer # "idle" => item \in Byte)

LEMMA TypeInvariant == Spec => []TypeInv
<1>1. Init => TypeInv
  <2>1. 0 \in Indices /\ 1 \in 1 .. BYTES + 1
    BY FifoAssumption DEF FifoAssumption, Indices
  <2> QED
    BY <2>1 DEF Init, TypeInv, TypeOK
<1>2. TypeInv /\ [Next]_vars => TypeInv'
  <2> SUFFICES ASSUME TypeInv, [Next]_vars PROVE TypeInv'
    OBVIOUS
  <2>0. /\ Wrap(read_index, SIZE) \in Places /\ Wrap(write_index, SIZE) \in Places
        /\ After(read_index, 2 * SIZE) \in Indices
        /\ After(write_index, 2 * SIZE) \in Indices
    BY FifoAssumption DEF FifoAssumption, TypeInv, TypeOK, Indices, Places, Wrap, After
  <2>1. CASE PushTest
    BY <2>1, FifoAssumption DEF FifoAssumption, PushTest, TypeInv, TypeOK, Byte, pull
  <2>2. CASE PushStore
    BY <2>0, <2>2 DEF PushStore, TypeInv, TypeOK, pull
  <2>3. CASE PushPublish
    BY <2>0, <2>3, FifoAssumption
       DEF FifoAssumption, PushPublish, TypeInv, TypeOK, Byte, pull
  <2>4. CASE PullTest
    BY <2>4 DEF PullTest, TypeInv, TypeOK, push
  <2>5. CASE PullLoad
    BY <2>0, <2>5 DEF PullLoad, TypeInv, TypeOK, push
  <2>6. CASE PullPublish
    BY <2>0, <2>6 DEF PullPublish, TypeInv, TypeOK, push
  <2>7. CASE UNCHANGED vars
    BY <2>7 DEF vars, push, pull, TypeInv, TypeOK
  <2> QED
    BY <2>1, <2>2, <2>3, <2>4, <2>5, <2>6, <2>7 DEF Next, Push, Pull
<1> QED
  BY <1>1, <1>2, PTL DEF Spec

\* The index arithmetic of fifo.c never leaves the buffer, whatever its size.
THEOREM TypeCorrect == Spec => []TypeOK
<1>1. TypeInv => TypeOK
  BY DEF TypeInv
<1> QED
  BY <1>1, TypeInvariant, PTL

\* fifo_is_full never answers true for a FIFO with as many places as a
\* uint8_t has values, or more: PakUart.c has one of 256 and one of 512.
THEOREM NeverSeenFull ==
  ASSUME SIZE >= UINT8
  PROVE  Spec => []~Full
<1>1. TypeInv => ~Full
  <2> SUFFICES ASSUME TypeInv PROVE ~Full
    OBVIOUS
  <2>1. Pending \in Nat
    BY FifoAssumption DEF FifoAssumption, TypeInv, TypeOK, Indices, Pending
  <2> HIDE DEF Pending
  <2>2. Pending % UINT8 \in 0 .. UINT8 - 1
    BY <2>1, FifoAssumption DEF FifoAssumption
  <2> QED
    BY <2>2, FifoAssumption DEF FifoAssumption, Full
<1> QED
  BY <1>1, TypeInvariant, PTL

-----------------------------------------------------------------------------
(* As long as no byte is overwritten.                                      *)

\* What each side knows between its test and the step that publishes its index, which the
\* other side cannot take away.
FifoInv ==
  /\ TypeInv
  /\ Pending <= SIZE
  /\ producer = "publish" => Pending < SIZE /\ buffer[Wrap(write_index, SIZE)] = item
  /\ consumer # "idle" => Pending # 0
  /\ ~overwritten

LEMMA FifoInit == Init /\ TypeInv => FifoInv
<1>1. Init => Pending = 0
  BY DEF Init, Pending
<1> QED
  BY <1>1, FifoAssumption DEF FifoAssumption, Init, FifoInv

LEMMA FifoPreserved ==
  ASSUME FifoInv, TypeInv', [Next]_vars, ~overwritten'
  PROVE  FifoInv'
<1>0. /\ SIZE \in Nat \ {0} /\ UINT8 \in Nat \ {0}
      /\ read_index \in Indices /\ write_index \in Indices
      /\ Pending \in 0 .. SIZE
  BY IndexSteps, FifoAssumption DEF FifoAssumption, FifoInv, TypeInv, TypeOK
<1>1. CASE PushTest
  <2>1. Pending' = Pending
    BY <1>1 DEF PushTest, Pending
  <2>2. UNCHANGED <<buffer, write_index, consumer>>
    BY <1>1 DEF PushTest, pull
  <2>3. producer' # "publish"
    BY <1>1 DEF PushTest
  <2> QED
    BY <2>1, <2>2, <2>3 DEF FifoInv
<1>2. CASE PushStore
  <2>1. buffer' = [buffer EXCEPT ![Wrap(write_index, SIZE)] = item]
    BY <1>2 DEF PushStore
  <2>2. Wrap(write_index, SIZE) \in Places
    BY IndexSteps DEF FifoInv, TypeInv
  <2>3. buffer'[Wrap(write_index, SIZE)] = item
    BY <2>1, <2>2 DEF FifoInv, TypeInv, TypeOK
  <2>4. Pending' = Pending
    BY <1>2 DEF PushStore, Pending
  <2>5. ~(Pending >= SIZE)
    BY <1>2 DEF PushStore
  <2>6. Pending < SIZE
    BY <1>0, <2>5
  <2>7. UNCHANGED <<write_index, item, consumer>>
    BY <1>2 DEF PushStore, pull
  <2> QED
    BY <2>3, <2>4, <2>6, <2>7 DEF FifoInv
<1>3. CASE PushPublish
  <2>1. Pending' = Pending + 1
    BY <1>0, <1>3 DEF PushPublish, FifoInv, Pending, After, Wrap, Indices
  <2> QED
    BY <1>0, <1>3, <2>1 DEF PushPublish, FifoInv, pull
<1>4. CASE PullTest
  BY <1>0, <1>4 DEF PullTest, FifoInv, Pending, Empty, push, Indices
<1>5. CASE PullLoad
  BY <1>5 DEF PullLoad, FifoInv, Pending, push
<1>6. CASE PullPublish
  <2>1. Pending' = Pending - 1
    BY <1>0, <1>6 DEF PullPublish, FifoInv, Pending, After, Wrap, Indices
  <2> QED
    BY <1>0, <1>6, <2>1 DEF PullPublish, FifoInv, push
<1>7. CASE UNCHANGED vars
  BY <1>7 DEF vars, push, pull, FifoInv, Pending
<1> QED
  BY <1>1, <1>2, <1>3, <1>4, <1>5, <1>6, <1>7 DEF Next, Push, Pull

LEMMA StaysOverwritten == [Next]_vars /\ overwritten => overwritten'
BY DEF Next, Push, Pull, PushTest, PushStore, PushPublish, PullTest, PullLoad, PullPublish, vars

LEMMA Inductive == Spec => [](~overwritten => FifoInv)
<1>1. TypeInv' /\ [Next]_vars /\ (~overwritten => FifoInv) => (~overwritten' => FifoInv')
  BY FifoPreserved, StaysOverwritten
<1>2. Init /\ TypeInv => (~overwritten => FifoInv)
  BY FifoInit
<1> QED
  BY <1>1, <1>2, TypeInvariant, PTL DEF Spec

\* What each step does to the bytes that wait.
LEMMA WaitingSteps ==
  ASSUME FifoInv, FifoInv'
  PROVE  /\ Waiting \in Seq(Byte \cup {NoByte}) /\ Len(Waiting) = Pending /\ Pending \in 0 .. SIZE
         /\ PushTest \/ PushStore \/ PullTest \/ PullLoad \/ UNCHANGED vars =>
              Waiting' = Waiting /\ Pending' = Pending
         /\ PushPublish =>
              /\ Waiting' = Append(Waiting, item) /\ Pending' = Pending + 1
              /\ Pending < SIZE /\ item \in Byte
         /\ PullLoad => Waiting # <<>> /\ out' = Head(Waiting)
         /\ PullPublish => Pending # 0 /\ Waiting' = Tail(Waiting) /\ Pending' = Pending - 1
<1> DEFINE S == Byte \cup {NoByte}
           r == Wrap(read_index, SIZE)
           w == Wrap(write_index, SIZE)
<1>1. /\ SIZE \in Nat \ {0}
      /\ read_index \in Indices /\ write_index \in Indices
      /\ Pending \in 0 .. SIZE
      /\ w = Wrap(r + Pending, SIZE)
      /\ Stack(S, buffer, r, Pending, SIZE)
  BY IndexSteps, IsStack, FifoAssumption DEF FifoAssumption, FifoInv, TypeInv, TypeOK
<1>2. Waiting \in Seq(S) /\ Len(Waiting) = Pending
  BY <1>1, SegmentSeq DEF Waiting
<1>3. ASSUME UNCHANGED <<buffer, read_index, write_index>>
      PROVE  Waiting' = Waiting /\ Pending' = Pending
  BY <1>3 DEF Waiting, Pending
<1>4. PushTest \/ PullTest \/ PullLoad \/ UNCHANGED vars =>
        UNCHANGED <<buffer, read_index, write_index>>
  BY DEF PushTest, PullTest, PullLoad, vars
<1>5. ASSUME PushStore  PROVE Waiting' = Waiting /\ Pending' = Pending
  <2>1. /\ buffer' = Write(buffer, Wrap(r + Pending, SIZE), item)
        /\ read_index' = read_index /\ Pending' = Pending
    BY <1>1, <1>5 DEF PushStore, Write, Pending
  <2>2. item \in S /\ Pending < SIZE
    <3>1. item \in S /\ ~(Pending >= SIZE)
      BY <1>5 DEF PushStore, FifoInv, TypeInv
    <3> QED  BY <1>1, <3>1
  <2> QED  BY <1>1, <2>1, <2>2, SegmentBehind DEF Waiting
<1>6. ASSUME PushPublish
      PROVE  /\ Waiting' = Append(Waiting, item) /\ Pending' = Pending + 1
             /\ Pending < SIZE /\ item \in Byte
  <2>1. /\ Pending' = Pending + 1 /\ Pending < SIZE
        /\ buffer' = buffer /\ read_index' = read_index
    BY <1>1, <1>6 DEF PushPublish, FifoInv, Pending, After, Wrap, Indices
  <2>2. item \in Byte /\ buffer[w] = item
    BY <1>6 DEF PushPublish, FifoInv, TypeInv
  <2>3. Write(buffer, Wrap(r + Pending, SIZE), item) = buffer
    BY <1>1, <2>2 DEF Write, Stack
  <2>4. Segment(Write(buffer, Wrap(r + Pending, SIZE), item), r, Pending + 1, SIZE)
        = Append(Segment(buffer, r, Pending, SIZE), item)
    BY <1>1, <2>1, <2>2, SegmentAppend
  <2> QED  BY <2>1, <2>2, <2>3, <2>4 DEF Waiting
<1>7. ASSUME PullLoad  PROVE Waiting # <<>> /\ out' = Head(Waiting)
  <2>1. Pending # 0 /\ out' = buffer[r]
    BY <1>7 DEF PullLoad, FifoInv
  <2> QED  BY <1>1, <2>1, SegmentTail DEF Waiting
<1>8. ASSUME PullPublish
      PROVE  Pending # 0 /\ Waiting' = Tail(Waiting) /\ Pending' = Pending - 1
  <2>1. /\ Pending' = Pending - 1 /\ Pending # 0
        /\ buffer' = buffer /\ Wrap(read_index', SIZE) = After(r, SIZE)
    BY <1>1, <1>8 DEF PullPublish, FifoInv, Pending, After, Wrap, Indices
  <2>2. Segment(buffer, After(r, SIZE), Pending - 1, SIZE)
        = Tail(Segment(buffer, r, Pending, SIZE))
    <3>1. Stack(S, buffer, r, Pending, SIZE) /\ Pending # 0
      BY <1>1, <2>1
    <3> HIDE DEF S, r
    <3> QED  BY <3>1, SegmentTail
  <2>3. Waiting' = Segment(buffer', Wrap(read_index', SIZE), Pending', SIZE)
    BY DEF Waiting
  <2> QED  BY <2>1, <2>2, <2>3 DEF Waiting
<1> HIDE DEF S, r, w
<1>9. PushTest \/ PushStore \/ PullTest \/ PullLoad \/ UNCHANGED vars =>
        Waiting' = Waiting /\ Pending' = Pending
  BY <1>3, <1>4, <1>5, Zenon
<1> QED  BY <1>1, <1>2, <1>6, <1>7, <1>8, <1>9 DEF S

-----------------------------------------------------------------------------
(* A size that fits in a uint8_t.                                          *)

\* The producer that found the FIFO not full still has a place for its byte.
PlaceLeft == FifoInv /\ (producer = "store" => Pending < SIZE)

\* A FIFO of at most 255 places refuses a byte rather than overwrite one
\* nobody has read, under every interleaving.
THEOREM NoByteOverwritten ==
  ASSUME SIZE < UINT8
  PROVE  Spec => []NeverOverwritten
<1>1. Init /\ TypeInv => PlaceLeft
  BY FifoInit DEF PlaceLeft, Init
<1>2. TypeInv' /\ [Next]_vars /\ PlaceLeft => PlaceLeft'
  <2> SUFFICES ASSUME PlaceLeft, TypeInv', [Next]_vars PROVE PlaceLeft'
    OBVIOUS
  <2>0. Pending \in 0 .. SIZE /\ SIZE \in Nat \ {0} /\ UINT8 \in Nat \ {0}
    BY IndexSteps, FifoAssumption DEF FifoAssumption, PlaceLeft, FifoInv, TypeInv
  <2>1. ~overwritten'
    <3>1. producer = "store" => ~(Pending >= SIZE)
      BY <2>0 DEF PlaceLeft
    <3>2. ~overwritten
      BY DEF PlaceLeft, FifoInv
    <3> QED
      BY <3>1, <3>2
         DEF Next, Push, Pull, PushTest, PushStore, PushPublish, PullTest, PullLoad,
             PullPublish, vars
  <2>2. FifoInv'
    BY <2>1, FifoPreserved DEF PlaceLeft
  <2>3. ASSUME producer' = "store"  PROVE Pending' < SIZE
    <3>1. CASE PushTest
      <4>1. ~Full
        BY <2>3, <3>1 DEF PushTest
      <4>2. Pending' = Pending
        BY <3>1 DEF PushTest, Pending
      <4> HIDE DEF Pending
      <4>3. Pending % UINT8 = Pending
        BY <2>0
      <4> QED
        BY <2>0, <4>1, <4>2, <4>3 DEF Full
    <3>2. ~PushStore /\ ~PushPublish
      BY <2>3 DEF PushStore, PushPublish
    <3>3. CASE Pull \/ UNCHANGED vars
      <4>1. producer = "store"
        BY <2>3, <3>3 DEF Pull, PullTest, PullLoad, PullPublish, push, vars
      <4>2. Pending < SIZE
        BY <4>1 DEF PlaceLeft
      <4>3. Pending' = Pending \/ Pending' = Pending - 1
        <5>1. PullPublish => Pending' = Pending - 1
          BY <2>2, WaitingSteps DEF PlaceLeft
        <5>2. PullTest \/ PullLoad \/ UNCHANGED vars => Pending' = Pending
          BY DEF PullTest, PullLoad, vars, Pending
        <5> QED  BY <3>3, <5>1, <5>2 DEF Pull
      <4> QED  BY <2>0, <4>2, <4>3
    <3> QED  BY <3>1, <3>2, <3>3 DEF Next, Push
  <2> QED
    BY <2>2, <2>3 DEF PlaceLeft
<1>3. PlaceLeft => NeverOverwritten
  BY DEF PlaceLeft, FifoInv, NeverOverwritten
<1> QED
  BY <1>1, <1>2, <1>3, TypeInvariant, PTL DEF Spec

-----------------------------------------------------------------------------
(* Refinement.                                                             *)

\* As long as no byte is overwritten push and pull implement a bounded queue of SIZE
\* bytes, whatever the size: a byte counts as stored when its index is published, as
\* taken when it is loaded.
THEOREM RefinesUnlessOverwritten == Spec /\ []NeverOverwritten => ImplementsFifo
<1> DEFINE S == Byte \cup {NoByte}
<1>1. Init => Abstract!Init
  <2> SUFFICES ASSUME Init PROVE Abstract!Init
    OBVIOUS
  <2>1. Pending = 0 /\ Unread = Waiting
    BY DEF Init, Pending, Unread
  <2>2. Waiting = <<>>
    BY <2>1, SegmentEmpty DEF Waiting
  <2> QED
    BY <2>1, <2>2 DEF Init, Abstract!Init
<1>2. FifoInv /\ FifoInv' /\ [Next]_vars => [Abstract!Next]_(Abstract!vars)
  <2> SUFFICES ASSUME FifoInv, FifoInv', [Next]_vars
               PROVE  [Abstract!Next]_(Abstract!vars)
    OBVIOUS
  <2>1. /\ Waiting \in Seq(S) /\ Len(Waiting) = Pending /\ Pending \in 0 .. SIZE
        /\ SIZE \in Nat \ {0}
    BY WaitingSteps, FifoAssumption
  <2>2. CASE PushTest \/ PushStore \/ PullTest \/ UNCHANGED vars
    <3>1. Waiting' = Waiting /\ out' = out
      BY <2>2, WaitingSteps DEF PushTest, PushStore, PullTest, pull, vars
    <3>2. consumer = "publish" <=> consumer' = "publish"
      BY <2>2 DEF PushTest, PushStore, PullTest, pull, vars
    <3> QED  BY <3>1, <3>2 DEF Unread, Abstract!vars
  <2>3. CASE PushPublish
    <3>1. /\ Waiting' = Append(Waiting, item) /\ Pending < SIZE /\ item \in Byte
          /\ consumer' = consumer /\ out' = out
      BY <2>3, WaitingSteps DEF PushPublish, pull
    <3>2. CASE consumer = "publish"
      <4>1. Waiting # <<>>
        BY <2>1, <3>2 DEF FifoInv
      <4>2. /\ Tail(Append(Waiting, item)) = Append(Tail(Waiting), item)
            /\ Len(Tail(Waiting)) < SIZE
        BY <2>1, <3>1, <4>1
      <4> QED  BY <3>1, <3>2, <4>2 DEF Unread, Abstract!Next, Abstract!Accept
    <3>3. CASE consumer # "publish"
      BY <2>1, <3>1, <3>3 DEF Unread, Abstract!Next, Abstract!Accept
    <3> QED  BY <3>2, <3>3
  <2>4. CASE PullLoad
    <3>1. Waiting' = Waiting /\ Waiting # <<>> /\ out' = Head(Waiting)
      BY <2>4, WaitingSteps
    <3>2. Unread = Waiting /\ Unread' = Tail(Waiting)
      BY <2>4, <3>1 DEF PullLoad, Unread
    <3> QED  BY <3>1, <3>2 DEF Abstract!Next, Abstract!Take
  <2>5. CASE PullPublish
    <3>1. Waiting' = Tail(Waiting) /\ out' = out
      BY <2>5, WaitingSteps DEF PullPublish
    <3>2. Unread = Tail(Waiting) /\ Unread' = Waiting'
      BY <2>5 DEF PullPublish, Unread
    <3> QED  BY <3>1, <3>2 DEF Abstract!vars
  <2> QED
    BY <2>2, <2>3, <2>4, <2>5 DEF Next, Push, Pull
<1> QED
  BY <1>1, <1>2, Inductive, PTL DEF Spec, NeverOverwritten, ImplementsFifo, Abstract!Spec

\* Push and pull of a FIFO that fits in a uint8_t implement a bounded queue.
THEOREM RefinesFifo ==
  ASSUME SIZE < UINT8
  PROVE  Spec => ImplementsFifo
BY NoByteOverwritten, RefinesUnlessOverwritten, PTL

-----------------------------------------------------------------------------
(* The packets: the board and the line use the FIFO and nothing else of it. *)

LEMMA FifoStep == [NextAll]_all => [Next]_vars
<1> SUFFICES ASSUME [NextAll]_all  PROVE [Next]_vars
  OBVIOUS
<1>1. CASE UNCHANGED all
  BY <1>1 DEF all
<1>2. ASSUME NEW n \in DATA, SendPacket(n)  PROVE UNCHANGED vars
  BY <1>2 DEF SendPacket
<1>3. CASE Carry \/ Lose
  BY <1>3 DEF Carry, Lose
<1>4. ASSUME NEW byte \in NOISE, Garble(byte) \/ Noise(byte)  PROVE UNCHANGED vars
  BY <1>4 DEF Garble, Noise
<1>5. CASE IRQ_RX0
  BY <1>5, Zenon DEF IRQ_RX0, Next
<1>6. CASE PullTest \/ PullLoad
  BY <1>6, Zenon DEF Next, Pull
<1>7. CASE Receive
  BY <1>7, Zenon DEF Receive, Next, Pull
<1>8. CASE Pass \/ SearchOn
  BY <1>8, Zenon DEF Pass, SearchOn
<1> QED  BY <1>1, <1>2, <1>3, <1>4, <1>5, <1>6, <1>7, <1>8, Zenon DEF NextAll

LEMMA FifoSpec == SpecAll => Spec
<1>1. InitAll => Init
  BY DEF InitAll
<1> QED  BY <1>1, FifoStep, PTL DEF SpecAll, Spec

\* The receive interrupt and the main loop of a board that looks for packets use the FIFO
\* as a bounded queue, whatever comes over the line, unless a byte is overwritten, and a
\* FIFO that fits in a uint8_t in any case.
THEOREM ReceptionIsFifo ==
  /\ SpecAll /\ []NeverOverwritten => ImplementsFifo
  /\ SIZE < UINT8 => (SpecAll => ImplementsFifo)
<1>1. SpecAll /\ []NeverOverwritten => ImplementsFifo
  BY FifoSpec, RefinesUnlessOverwritten, PTL
<1>2. ASSUME SIZE < UINT8  PROVE SpecAll => ImplementsFifo
  <2>1. Spec => ImplementsFifo
    BY <1>2, RefinesFifo
  <2> QED  BY <2>1, FifoSpec, PTL
<1> QED  BY <1>1, <1>2

-----------------------------------------------------------------------------
(* What a packet looks like.                                               *)

\* The values bytes have.
Value ==
  Nat \cup UNION {{s % UINT8, s \div UINT8} : s \in {Sum(Body(p, n)) : p, n \in Nat}}

Size(n) == n + 1 + OVERHEAD

LEMMA DataLength == \A n \in DATA : n \in Nat /\ Size(n) = n + 10 /\ Size(n) < MAX_IN_PAK
BY PakAssumption DEF Size, OVERHEAD

\* The p-th packet, with n bytes of data.
Layout(packet, body, p, n) ==
  /\ packet \in Seq(Value) /\ Len(packet) = Size(n)
  /\ body = [j \in 1 .. n + 5 |-> body[j]]
  /\ packet[1] = START
  /\ \A j \in 1 .. n + 5 : packet[j + 1] = body[j]
  /\ packet[4] = (n + 1) % UINT8 /\ packet[5] = (n + 1) \div UINT8 /\ packet[6] = p
  /\ Word(Sum(body)) = <<packet[n + 7], packet[n + 8]>>
  /\ packet[n + 9] = START /\ packet[n + 10] = 0

LEMMA PacketIs ==
  ASSUME NEW p \in 1 .. PACKETS, NEW n \in DATA, NEW packet, packet = Packet(p, n),
         NEW body, body = Body(p, n)
  PROVE  Layout(packet, body, p, n)
<1> DEFINE data == Data(n)
           low == (n + 1) % UINT8
           high == (n + 1) \div UINT8
<1>0. n \in Nat /\ p \in Nat /\ Size(n) = n + 10
  BY DataLength, PakAssumption
<1>1. /\ START \in Nat /\ UINT8 \in Nat \ {0} /\ low \in Nat /\ high \in Nat
      /\ data \in Seq(Nat) /\ Len(data) = n
  BY <1>0, FifoAssumption, PakAssumption DEF Data
<1>2. body = <<1, 2>> \o <<low, high>> \o <<p>> \o data
  BY DEF Body, Word
<1> HIDE DEF data, low, high
<1>3. /\ body \in Seq(Nat) /\ Len(body) = n + 5
      /\ body[3] = low /\ body[4] = high /\ body[5] = p
  BY <1>0, <1>1, <1>2
<1>4. PICK sum : sum = Sum(body)
  OBVIOUS
<1> DEFINE first == sum % UINT8
           second == sum \div UINT8
<1>5. first \in Value /\ second \in Value /\ Nat \subseteq Value
  <2>1. sum \in {Sum(Body(q, m)) : q, m \in Nat}
    BY <1>0, <1>4
  <2> QED  BY <2>1 DEF Value
<1>6. packet = <<START>> \o body \o <<first, second>> \o <<START, 0>>
  <2>1. Crc(p, n) = sum
    BY <1>4, CrcAssumption
  <2> QED  BY <2>1 DEF Packet, Word
<1> HIDE DEF first, second
<1>7. body \in Seq(Value)
  BY <1>3, <1>5
<1>8. /\ packet \in Seq(Value) /\ Len(packet) = n + 10
      /\ packet[1] = START
      /\ \A j \in 1 .. n + 5 : packet[j + 1] = body[j]
      /\ packet[n + 7] = first /\ packet[n + 8] = second
      /\ packet[n + 9] = START /\ packet[n + 10] = 0
  <2>1. START \in Value /\ 0 \in Value
    BY <1>1, <1>5
  <2> QED  BY <1>0, <1>3, <1>5, <1>6, <1>7, <2>1
<1>9. Word(sum) = <<first, second>>
  BY DEF Word, first, second
<1>10. body = [j \in 1 .. n + 5 |-> body[j]]
  BY <1>0, <1>3
<1>11. packet[4] = low /\ packet[5] = high /\ packet[6] = p
  <2>1. 3 \in 1 .. n + 5 /\ 4 \in 1 .. n + 5 /\ 5 \in 1 .. n + 5
    BY <1>0
  <2> QED  BY <1>3, <1>8, <2>1
<1> QED  BY <1>0, <1>4, <1>8, <1>9, <1>10, <1>11 DEF Layout, low, high

-----------------------------------------------------------------------------
(* The board looks for the packet whose first bytes it has.                *)

\* Two bytes are the number they were made of.
LEMMA WordBack ==
  ASSUME NEW x \in Nat, NEW u \in Nat \ {0}
  PROVE  (x % u) + (x \div u) * u = x
OBVIOUS

Cells == 0 .. BUFFER_LEN_UART - 1

\* b starts with the first n bytes of the packet.
Starts(b, n, packet) ==
  /\ b = [k \in Cells |-> b[k]]
  /\ \A k \in 0 .. n - 1 : b[k] = packet[k + 1]

\* The length the board reads is the packet's.
LEMMA LengthRead ==
  ASSUME NEW d \in DATA, NEW b, b[3] = (d + 1) % UINT8, b[4] = (d + 1) \div UINT8
  PROVE  Length(b) = Size(d)
<1>1. d \in Nat /\ UINT8 \in Nat \ {0} /\ d + 10 < MAX_IN_PAK
  BY FifoAssumption, DataLength
<1>2. UINT16 \in Nat \ {0} /\ MAX_IN_PAK <= UINT16 /\ MAX_IN_PAK \in Nat
  BY <1>1, PakAssumption DEF UINT16
<1>3. b[3] + b[4] * UINT8 = d + 1
  BY <1>1, WordBack
<1>4. PICK m : m = UINT16
  OBVIOUS
<1>5. (d + 1 + 9) % m = d + 10
  BY <1>1, <1>2, <1>4
<1> QED  BY <1>1, <1>3, <1>4, <1>5 DEF Length, Size, OVERHEAD

\* With the first bytes of a packet the board waits; with all of them it handles it.
LEMMA GetPakPrefix ==
  ASSUME NEW p \in 1 .. PACKETS, NEW d \in DATA, NEW n \in 1 .. Size(d), NEW b,
         Starts(b, n, Packet(p, d)), GetPak_Uart(b, n)
  PROVE  /\ n < Size(d) => pData' = b /\ CountByte' = n /\ ~searching' /\ UNCHANGED handled
         /\ n = Size(d) => /\ pData' = [k \in Cells |-> pData'[k]] /\ CountByte' = 0
                           /\ handled' = Append(handled, p)
         /\ UNCHANGED wild
<1>1. /\ d \in Nat /\ UINT8 \in Nat \ {0} /\ BUFFER_LEN_UART \in Nat /\ MAX_IN_PAK \in Nat
      /\ Size(d) = d + 10 /\ Size(d) < MAX_IN_PAK /\ MAX_IN_PAK < BUFFER_LEN_UART
  BY FifoAssumption, PakAssumption, DataLength
<1>2. CASE n <= 4
  <2>1. Keep(b, n)
    BY <1>1, <1>2 DEF GetPak_Uart
  <2> QED  BY <1>1, <1>2, <2>1 DEF Keep
<1>3. CASE n > 4
  <2>0. PICK packet : packet = Packet(p, d)
    OBVIOUS
  <2>10. PICK body : body = Body(p, d)
    OBVIOUS
  <2>1. /\ body = [j \in 1 .. d + 5 |-> body[j]]
        /\ packet[1] = START
        /\ \A j \in 1 .. d + 5 : packet[j + 1] = body[j]
        /\ packet[4] = (d + 1) % UINT8 /\ packet[5] = (d + 1) \div UINT8 /\ packet[6] = p
        /\ Word(Sum(body)) = <<packet[d + 7], packet[d + 8]>>
        /\ packet[d + 9] = START /\ packet[d + 10] = 0
    <3>1. Layout(packet, body, p, d)
      BY <2>0, <2>10, PacketIs
    <3> QED  BY <3>1 DEF Layout
  <2>2. /\ b = [k \in Cells |-> b[k]]
        /\ \A k \in 0 .. n - 1 : b[k] = packet[k + 1]
    BY <2>0 DEF Starts
  <2>4. Moved(b, 0, n - 0) = b
    BY <2>2 DEF Moved, Cells
  <2>5. /\ n >= 5 /\ n \in Nat
        /\ b[0] = START /\ b[3] = (d + 1) % UINT8 /\ b[4] = (d + 1) \div UINT8
    <3>1. n \in Nat /\ n >= 5 /\ 0 + 1 = 1 /\ 3 + 1 = 4 /\ 4 + 1 = 5
          /\ 0 \in 0 .. n - 1 /\ 3 \in 0 .. n - 1 /\ 4 \in 0 .. n - 1
      BY <1>1, <1>3
    <3>2. b[0] = packet[0 + 1] /\ b[3] = packet[3 + 1] /\ b[4] = packet[4 + 1]
      BY <2>2, <3>1
    <3> QED  BY <2>1, <3>1, <3>2
  <2>6. Length(b) = Size(d)
    BY <2>5, LengthRead
  <2>7. Found(b, n)
    <3>1. Search(0, b, n)
      BY <1>1, <1>3 DEF GetPak_Uart
    <3>2. PICK marks : marks = {k \in 0 .. n : b[k] = START}
      OBVIOUS
    <3>3. 0 \in marks /\ \A m \in marks : m \in Nat
      BY <2>5, <3>2
    <3>4. \A m \in marks : (\A j \in marks : m <= j) => m = 0
      BY <3>3
    <3>5. PICK k \in marks : (\A j \in marks : k <= j) /\ Found(Moved(b, k, n - k), n - k)
      BY <3>1, <3>2, <3>3, Zenon DEF Search
    <3>6. k = 0
      BY <3>4, <3>5
    <3>7. n - 0 = n
      BY <2>5
    <3> QED  BY <2>4, <3>5, <3>6, <3>7
  <2>8. CASE n < Size(d)
    <3>1. /\ ~(Size(d) <= n) /\ ~(n >= HEAD /\ Size(d) >= MAX_IN_PAK)
      BY <1>1, <2>5, <2>8
    <3>2. Keep(b, n)
      BY <2>6, <2>7, <3>1, Zenon DEF Found
    <3> QED  BY <1>1, <2>8, <3>2 DEF Keep
  <2>9. CASE n = Size(d)
    <3>1. b[Size(d) - 2] = START /\ b[Size(d) - 1] = 0 /\ b[5] = p
      <4>1. /\ d + 8 \in 0 .. n - 1 /\ d + 9 \in 0 .. n - 1 /\ 5 \in 0 .. n - 1
            /\ Size(d) - 2 = d + 8 /\ Size(d) - 1 = d + 9
            /\ (d + 8) + 1 = d + 9 /\ (d + 9) + 1 = d + 10 /\ 5 + 1 = 6
        BY <1>1, <2>9
      <4> QED  BY <2>1, <2>2, <4>1
    <3>2. ChecksumFits(b)
      <4>0. /\ Size(d) - 5 = d + 5 /\ Size(d) - 4 = d + 6 /\ Size(d) - 3 = d + 7
            /\ d + 6 \in 0 .. n - 1 /\ d + 7 \in 0 .. n - 1
            /\ (d + 6) + 1 = d + 7 /\ (d + 7) + 1 = d + 8
            /\ \A k \in 1 .. d + 5 : k \in 0 .. n - 1
        BY <1>1, <2>9
      <4>1. [k \in 1 .. Size(d) - 5 |-> b[k]] = body
        <5>1. \A k \in 1 .. d + 5 : b[k] = body[k]
          BY <2>1, <2>2, <4>0
        <5> QED  BY <2>1, <4>0, <5>1
      <4>2. b[Size(d) - 4] = packet[d + 7] /\ b[Size(d) - 3] = packet[d + 8]
        BY <2>2, <4>0
      <4> QED  BY <2>1, <2>6, <4>1, <4>2, Zenon DEF ChecksumFits
    <3>3. /\ pData' = Moved(b, Size(d), BUFFER_LEN_UART - Size(d)) /\ CountByte' = n - Size(d)
          /\ handled' = Append(handled, b[5]) /\ searching' = TRUE
          /\ UNCHANGED wild
      BY <1>1, <2>5, <2>6, <2>7, <2>9, <3>1, <3>2 DEF Found, HEAD
    <3>4. pData' = [k \in Cells |-> pData'[k]]
      BY <2>2, <3>3 DEF Moved
    <3> QED  BY <1>1, <2>9, <3>1, <3>3, <3>4
  <2> QED  BY <1>1, <2>8, <2>9
<1> QED  BY <1>1, <1>2, <1>3

-----------------------------------------------------------------------------
(* A healthy line.                                                         *)

\* Bytes handed to the board.
Given == IF consumer = "publish" THEN out - 1 ELSE out

\* The bytes wait in their order behind those handed to the board, and the interrupt is
\* not ahead of the line.
Order ==
  /\ Given \in Nat
  /\ \A j \in 1 .. Pending : Waiting[j] = Given + j
  /\ item = Given + Pending + 1 /\ item <= Len(wire) + 1
  /\ wire \in Seq(Value) /\ rest \in Seq(Value)
  /\ sent \in 0 .. PACKETS

\* A step of the FIFO without an overflow.
LEMMA OrderOfFifo ==
  ASSUME FifoInv, FifoInv', Order, [Next]_vars, ~(producer = "idle" /\ item' # item),
         Push => item <= Len(wire), UNCHANGED <<wire, rest, sent>>
  PROVE  /\ Order'
         /\ PullPublish => Given' = Given + 1 /\ Given' = out /\ Given' <= Len(wire)
         /\ ~PullPublish => Given' = Given
<1>1. /\ Waiting \in Seq(Byte \cup {NoByte}) /\ Len(Waiting) = Pending /\ Pending \in Nat
      /\ Given \in Nat /\ out \in Nat /\ item \in Nat /\ Len(wire) \in Nat
  BY WaitingSteps, FifoAssumption
     DEF Order, FifoInv, TypeInv, TypeOK, Byte, NoByte
<1>2. CASE PushTest \/ PushStore \/ PullTest \/ UNCHANGED vars
  <2>1. Waiting' = Waiting /\ Pending' = Pending /\ Given' = Given
    BY <1>2, WaitingSteps DEF Given, PushTest, PushStore, PullTest, pull, vars
  <2>2. item' = item
    BY <1>2 DEF PushTest, PushStore, PullTest, push, vars
  <2>3. ~PullPublish
    BY <1>2 DEF PushTest, PushStore, PullTest, PullPublish, pull, vars
  <2> QED  BY <2>1, <2>2, <2>3 DEF Order
<1>3. CASE PushPublish
  <2>1. Waiting' = Append(Waiting, item) /\ Pending' = Pending + 1
    BY <1>3, WaitingSteps
  <2>2. Given' = Given /\ item' = item + 1
    BY <1>3 DEF Given, PushPublish, pull
  <2>3. ~PullPublish /\ Push
    BY <1>3 DEF PushPublish, PullPublish, pull, Push
  <2>4. \A j \in 1 .. Pending + 1 : Append(Waiting, item)[j] = Given + j
    BY <1>1 DEF Order
  <2> QED  BY <1>1, <2>1, <2>2, <2>3, <2>4 DEF Order
<1>4. CASE PullLoad
  <2>1. Waiting' = Waiting /\ Pending' = Pending /\ Waiting # <<>> /\ out' = Head(Waiting)
    BY <1>4, WaitingSteps
  <2>2. out' = Given + 1
    BY <1>1, <2>1 DEF Order
  <2>3. Given' = Given /\ item' = item
    BY <1>1, <1>4, <2>2 DEF Given, PullLoad, push
  <2>4. ~PullPublish
    BY <1>4 DEF PullLoad, PullPublish
  <2> QED  BY <2>1, <2>3, <2>4 DEF Order
<1>5. CASE PullPublish
  <2>1. Waiting' = Tail(Waiting) /\ Pending' = Pending - 1 /\ Pending # 0
    BY <1>5, WaitingSteps
  <2>2. Given' = Given + 1 /\ item' = item /\ Given' = out
    BY <1>1, <1>5 DEF Given, PullPublish, push
  <2>3. \A j \in 1 .. Pending - 1 : Tail(Waiting)[j] = Given + 1 + j
    BY <1>1, <2>1 DEF Order
  <2>4. Given + 1 <= Len(wire)
    BY <1>1, <2>1 DEF Order
  <2> QED  BY <1>1, <1>5, <2>1, <2>2, <2>3, <2>4 DEF Order
<1> QED  BY <1>2, <1>3, <1>4, <1>5 DEF Next, Push, Pull

\* The packets of the host are the bytes on the line and those to come: the p-th has the
\* bytes from start[p] + 1 on and the data length n[p].
Stream == wire \o rest

Hosts(start, n) ==
  /\ start \in [Nat -> Nat] /\ n \in [Nat -> Nat]
  /\ start[1] = 0
  /\ \A p \in 1 .. sent : n[p] \in DATA /\ start[p + 1] = start[p] + Size(n[p])
  /\ \A p \in 1 .. sent : \A q \in p + 1 .. sent + 1 : start[p + 1] <= start[q]
  /\ \A p \in 1 .. sent : \A j \in 1 .. Size(n[p]) : Stream[start[p] + j] = Packet(p, n[p])[j]
  /\ Len(Stream) = start[sent + 1]

\* The board has handled the first packets, all of them, and has the first bytes of the
\* next in its buffer.
Heard(start, n) ==
  LET h == Len(handled)
  IN  /\ h \in 0 .. sent /\ handled = [i \in 1 .. h |-> i]
      /\ CountByte \in Nat /\ Given = start[h + 1] + CountByte
      /\ CountByte # 0 => h < sent /\ CountByte < Size(n[h + 1])
      /\ pData = [k \in Cells |-> pData[k]]
      /\ \A k \in 0 .. CountByte - 1 : pData[k] = wire[start[h + 1] + k + 1]
      /\ searching => CountByte = 0
      /\ ~wild

Healthy == Order /\ \E start, n : Hosts(start, n) /\ Heard(start, n)

\* A byte the board takes belongs to the packet it waits for.
LEMMA NextByte ==
  ASSUME NEW start, NEW n, Order, Hosts(start, n), Heard(start, n), NEW h, h = Len(handled)
  PROVE  /\ h \in 0 .. sent /\ start[h + 1] \in Nat
         /\ Given < Len(Stream) => h < sent
         /\ h < sent => n[h + 1] \in DATA /\ Size(n[h + 1]) \in Nat /\ CountByte < Size(n[h + 1])
                        /\ start[h + 2] = start[h + 1] + Size(n[h + 1])
                        /\ start[h + 2] <= Len(Stream)
         /\ Given = Len(Stream) => h = sent
<1>1. /\ h \in 0 .. sent /\ sent \in Nat /\ start \in [Nat -> Nat]
      /\ CountByte \in Nat /\ Given = start[h + 1] + CountByte
      /\ CountByte # 0 => h < sent /\ CountByte < Size(n[h + 1])
      /\ Len(Stream) = start[sent + 1]
  <2>1. sent \in Nat
    BY PakAssumption DEF Order
  <2>2. start \in [Nat -> Nat] /\ Len(Stream) = start[sent + 1]
    BY DEF Hosts
  <2> QED  BY <2>1, <2>2 DEF Heard
<1>2. start[h + 1] \in Nat
  BY <1>1
<1>3. ASSUME h < sent
      PROVE  /\ n[h + 1] \in DATA /\ start[h + 2] = start[h + 1] + Size(n[h + 1])
             /\ start[h + 2] <= Len(Stream)
             /\ Size(n[h + 1]) \in Nat /\ CountByte < Size(n[h + 1])
             /\ start[h + 2] \in Nat
  <2>0. h \in Nat /\ sent \in Nat /\ h <= sent
    BY <1>1
  <2> HIDE DEF Given, Stream
  <2>1. h + 1 \in 1 .. sent /\ (h + 1) + 1 = h + 2 /\ sent + 1 \in (h + 1) + 1 .. sent + 1
        /\ h + 2 \in Nat
    BY <2>0, <1>3
  <2>2. /\ n[h + 1] \in DATA /\ start[(h + 1) + 1] = start[h + 1] + Size(n[h + 1])
        /\ start[(h + 1) + 1] <= start[sent + 1]
    BY <2>1 DEF Hosts
  <2>3. Size(n[h + 1]) \in Nat /\ 0 < Size(n[h + 1])
    BY <2>2, DataLength
  <2> QED  BY <1>1, <2>1, <2>2, <2>3
<1>4. Given < Len(Stream) => h < sent
  <2> SUFFICES ASSUME h = sent, Given < Len(Stream)  PROVE FALSE
    BY <1>1
  <2> QED  BY <1>1, <1>2
<1>5. Given = Len(Stream) => h = sent
  <2>0. h \in Nat /\ sent \in Nat /\ h <= sent
    BY <1>1
  <2> SUFFICES ASSUME h < sent, Given = Len(Stream)  PROVE FALSE
    BY <2>0
  <2> QED  BY <1>1, <1>2, <1>3
<1> QED  BY <1>1, <1>2, <1>3, <1>4, <1>5

\* Bytes that move along the line change nothing, neither does what the board does not see.
LEMMA SameStream ==
  ASSUME NEW start, NEW n, Hosts(start, n), Stream' = Stream, sent' = sent
  PROVE  Hosts(start, n)'
BY DEF Hosts

LEMMA SameBoard ==
  ASSUME NEW start, NEW n, Order, Hosts(start, n), Heard(start, n),
         Given' = Given, UNCHANGED board, sent' = sent, wire' \in Seq(Value),
         Len(wire) <= Len(wire'),
         \A k \in 1 .. Len(wire) : wire'[k] = wire[k], Given <= Len(wire)
  PROVE  Heard(start, n)'
<1>1. PICK h : h = Len(handled)
  OBVIOUS
<1>2. start[h + 1] \in Nat
  BY <1>1, NextByte
<1>3. /\ handled' = handled /\ CountByte' = CountByte /\ pData' = pData
      /\ searching' = searching /\ wild' = wild
  BY DEF board
<1>4. \A k \in 0 .. CountByte - 1 : start[h + 1] + k + 1 \in 1 .. Len(wire)
  BY <1>1, <1>2 DEF Heard, Order
<1> QED  BY <1>1, <1>3, <1>4 DEF Heard

\* A byte put into the buffer.
LEMMA PutByte ==
  ASSUME NEW f, f = [k \in Cells |-> f[k]], NEW i \in Cells, NEW x,
         NEW g, g = [f EXCEPT ![i] = x]
  PROVE  g = [k \in Cells |-> g[k]] /\ g[i] = x /\ \A k \in Cells : k # i => g[k] = f[k]
<1>1. g = [k \in Cells |-> IF k = i THEN x ELSE f[k]]
  BY Zenon
<1> QED  BY <1>1

\* The board takes a byte.
LEMMA ReceiveStep ==
  ASSUME NEW start, NEW n, Order, Hosts(start, n), Heard(start, n), Receive,
         Given' = Given + 1, Given' = out, Given' <= Len(wire)
  PROVE  Heard(start, n)'
<1> DEFINE h == Len(handled)
<1>1. PICK d, c : d = n[h + 1] /\ c = CountByte + 1
  OBVIOUS
<1>2. PICK b : b = [pData EXCEPT ![CountByte] = wire[out]]
  OBVIOUS
<1>3. PICK s : s = start[h + 1]
  OBVIOUS
<1>4. PICK packet : packet = Packet(h + 1, d)
  OBVIOUS
<1>5. /\ wire \in Seq(Value) /\ rest \in Seq(Value) /\ sent \in 0 .. PACKETS /\ PACKETS \in Nat
      /\ Len(Stream) = Len(wire) + Len(rest)
      /\ \A i \in 1 .. Len(wire) : Stream[i] = wire[i]
  BY PakAssumption DEF Order, Stream
<1>6. /\ CountByte \in Nat /\ Given = s + CountByte
      /\ pData = [k \in Cells |-> pData[k]]
      /\ \A k \in 0 .. CountByte - 1 : pData[k] = wire[s + k + 1]
      /\ ~wild /\ handled = [i \in 1 .. h |-> i]
  BY <1>3 DEF Heard
<1>7. h \in 0 .. sent /\ s \in Nat
  BY <1>3, NextByte
<1> HIDE DEF h
<1>8. Given < Len(Stream)
  BY <1>5, <1>6, <1>7
<1>9. /\ h < sent /\ d \in DATA /\ Size(d) \in Nat /\ CountByte < Size(d)
      /\ start[h + 2] = s + Size(d)
  BY <1>1, <1>3, <1>8, NextByte DEF h
<1>10. /\ Size(d) < MAX_IN_PAK /\ MAX_IN_PAK \in Nat /\ BUFFER_LEN_UART \in Nat
       /\ MAX_IN_PAK < BUFFER_LEN_UART
  BY <1>9, DataLength, PakAssumption
<1>11. h + 1 \in 1 .. PACKETS /\ c \in 1 .. Size(d) /\ CountByte \in Cells
       /\ CountByte < BUFFER_LEN_UART - 1
  BY <1>1, <1>5, <1>6, <1>7, <1>9, <1>10 DEF Cells
<1>12. \A j \in 1 .. Size(d) : Stream[s + j] = packet[j]
  <2>1. h + 1 \in 1 .. sent
    BY <1>5, <1>7, <1>9
  <2> QED  BY <1>1, <1>3, <1>4, <2>1, Zenon DEF Hosts
<1>13. Starts(b, c, packet) /\ \A k \in 0 .. c - 1 : b[k] = wire[s + k + 1]
  <2>1. b = [k \in Cells |-> b[k]] /\ b[CountByte] = wire[out]
        /\ \A k \in 0 .. CountByte - 1 : b[k] = pData[k]
    <3>1. /\ b = [k \in Cells |-> b[k]] /\ b[CountByte] = wire[out]
          /\ \A k \in Cells : k # CountByte => b[k] = pData[k]
      BY <1>2, <1>6, <1>11, PutByte
    <3>2. \A k \in 0 .. CountByte - 1 : k \in Cells /\ k # CountByte
      BY <1>6, <1>10, <1>11 DEF Cells
    <3> QED  BY <3>1, <3>2
  <2>2. out = s + c /\ s + c <= Len(wire)
    BY <1>1, <1>6, <1>7
  <2>3. \A k \in 0 .. c - 1 : b[k] = wire[s + (k + 1)]
    <3>1. \A k \in 0 .. c - 1 : /\ k \in 0 .. CountByte - 1 \/ k = CountByte
                                /\ s + k + 1 = s + (k + 1)
      BY <1>1, <1>6, <1>7
    <3>2. out = s + (CountByte + 1)
      BY <1>1, <2>2
    <3> QED  BY <1>6, <2>1, <3>1, <3>2
  <2>4. \A k \in 0 .. c - 1 : s + (k + 1) \in 1 .. Len(wire) /\ k + 1 \in 1 .. Size(d)
    <3>1. c \in Nat /\ c <= Size(d) /\ Size(d) \in Nat /\ Len(wire) \in Nat /\ s \in Nat
      BY <1>5, <1>7, <1>9, <1>11
    <3> QED  BY <2>2, <3>1
  <2>5. \A k \in 0 .. c - 1 : b[k] = packet[k + 1]
    BY <1>5, <1>12, <2>3, <2>4
  <2>6. \A k \in 0 .. c - 1 : s + k + 1 = s + (k + 1)
    BY <1>1, <1>6, <1>7
  <2> QED  BY <2>1, <2>3, <2>5, <2>6 DEF Starts
<1>14. GetPak_Uart(b, c) /\ wire' = wire /\ sent' = sent
  BY <1>1, <1>2, <1>11 DEF Receive, line
<1>15. /\ c < Size(d) => pData' = b /\ CountByte' = c /\ ~searching' /\ handled' = handled
       /\ c = Size(d) => /\ pData' = [k \in Cells |-> pData'[k]] /\ CountByte' = 0
                         /\ handled' = Append(handled, h + 1)
       /\ wild' = wild
  <2>1. Starts(b, c, Packet(h + 1, d))
    BY <1>4, <1>13
  <2> QED  BY <1>9, <1>11, <1>14, <2>1, GetPakPrefix
<1>16. Given' = s + c
  BY <1>1, <1>6, <1>7
<1>17. CASE c < Size(d)
  <2>1. b = [k \in Cells |-> b[k]]
    BY <1>13 DEF Starts
  <2>2. Len(handled') = h
    BY <1>15, <1>17 DEF h
  <2>3. /\ Len(handled)' = h /\ CountByte' = c /\ handled' = handled /\ pData' = b
        /\ wild' = wild /\ ~searching'
    BY <1>15, <1>17, <2>2
  <2>4. c \in Nat /\ c # 0
    BY <1>1, <1>6
  <2> HIDE DEF Given
  <2>5. Given' = start[h + 1] + c /\ (c # 0 => h < sent' /\ c < Size(n[h + 1]))
    BY <1>1, <1>3, <1>9, <1>14, <1>16, <1>17
  <2>6. h \in 0 .. sent' /\ handled' = [i \in 1 .. h |-> i] /\ ~wild'
    BY <1>6, <1>7, <1>14, <2>3
  <2>7. \A k \in 0 .. c - 1 : b[k] = wire'[start[h + 1] + k + 1]
    BY <1>3, <1>13, <1>14
  <2> QED  BY <2>1, <2>3, <2>4, <2>5, <2>6, <2>7 DEF Heard
<1>18. CASE c = Size(d)
  <2>1. Len(handled') = h + 1 /\ handled' = [i \in 1 .. h + 1 |-> i]
    <3>1. handled' = Append(handled, h + 1)
      BY <1>15, <1>18
    <3>2. handled \in Seq(Nat) /\ h = Len(handled)
      <4>1. handled = [i \in 1 .. h |-> i] /\ h \in Nat
        BY <1>5, <1>6, <1>7
      <4> QED  BY <4>1 DEF h
    <3>3. \A i \in 1 .. h : handled[i] = i
      BY <1>6
    <3> QED  BY <3>1, <3>2, <3>3
  <2>2. h + 1 \in 0 .. sent' /\ (h + 1) + 1 = h + 2 /\ 0 - 1 = -1
    BY <1>5, <1>7, <1>9, <1>14
  <2> HIDE DEF Given
  <2>3. Given' = start[(h + 1) + 1] + 0
    BY <1>7, <1>9, <1>16, <1>18, <2>2
  <2>4. CountByte' = 0 /\ pData' = [k \in Cells |-> pData'[k]] /\ ~wild'
    BY <1>6, <1>15, <1>18
  <2> QED  BY <2>1, <2>2, <2>3, <2>4 DEF Heard
<1> QED  BY <1>9, <1>11, <1>17, <1>18

\* The board looks again at what it has.
LEMMA LookAgain ==
  ASSUME NEW start, NEW n, FifoInv, Order, Hosts(start, n), Heard(start, n), Pass \/ SearchOn
  PROVE  Heard(start, n)' /\ ~searching' /\ UNCHANGED <<vars, line>>
<1>1. PICK h, d : h = Len(handled) /\ d = n[h + 1]
  OBVIOUS
<1>2. /\ h \in 0 .. sent /\ CountByte \in Nat /\ PACKETS \in Nat /\ sent \in 0 .. PACKETS
      /\ CountByte # 0 => h < sent /\ CountByte < Size(d)
      /\ pData = [k \in Cells |-> pData[k]]
      /\ \A k \in 0 .. CountByte - 1 : pData[k] = wire[start[h + 1] + k + 1]
      /\ ~wild
  BY <1>1, PakAssumption DEF Heard, Order
<1>3. UNCHANGED <<vars, line>>
  BY DEF Pass, SearchOn
<1>4. pData' = pData /\ CountByte' = CountByte /\ ~searching' /\ handled' = handled /\ wild' = wild
  <2>1. CASE CountByte = 0
    <3>1. Keep(pData, 0)
      <4>1. CASE Pass
        BY <2>1, <4>1 DEF Pass, GetPak_Uart
      <4>2. CASE SearchOn
        <5>1. PICK marks : marks = {k \in 1 .. 0 : pData[k] = START}
          OBVIOUS
        <5>2. marks = {}
          BY <5>1
        <5>3. Keep(pData, IF 0 >= BUFFER_LEN_UART - 2 THEN 0 ELSE 0)
          BY <2>1, <4>2, <5>1, <5>2, Zenon DEF SearchOn, Search
        <5> QED  BY <5>3
      <4> QED  BY <4>1, <4>2
    <3> QED  BY <2>1, <3>1 DEF Keep
  <2>2. CASE CountByte # 0
    <3>1. ~SearchOn
      BY <2>2 DEF SearchOn, Heard
    <3>2. GetPak_Uart(pData, CountByte)
      BY <3>1 DEF Pass
    <3>3. /\ h < sent /\ d \in DATA /\ Size(d) \in Nat /\ CountByte < Size(d)
          /\ start[h + 1] \in Nat
      BY <1>1, <1>2, <2>2, NextByte
    <3>4. h + 1 \in 1 .. PACKETS /\ h + 1 \in 1 .. sent /\ CountByte \in 1 .. Size(d)
      BY <1>2, <2>2, <3>3
    <3>5. \A j \in 1 .. Size(d) : Stream[start[h + 1] + j] = Packet(h + 1, d)[j]
      BY <1>1, <3>4, Zenon DEF Hosts
    <3>6. \A k \in 0 .. CountByte - 1 : pData[k] = Packet(h + 1, d)[k + 1]
      <4>0. PICK packet, s : packet = Packet(h + 1, d) /\ s = start[h + 1]
        OBVIOUS
      <4>1. Given = s + CountByte /\ Given <= Len(wire) /\ Len(wire) \in Nat /\ s \in Nat
        <5>1. item = Given + Pending + 1 /\ item <= Len(wire) + 1 /\ Given \in Nat
              /\ Len(wire) \in Nat
          BY DEF Order
        <5>2. Pending \in Nat
          BY FifoAssumption DEF FifoAssumption, FifoInv, TypeInv, TypeOK, Indices, Pending
        <5> QED  BY <1>1, <3>3, <4>0, <5>1, <5>2 DEF Heard
      <4>2. \A k \in 0 .. CountByte - 1 :
              /\ s + k + 1 = s + (k + 1) /\ s + (k + 1) \in 1 .. Len(wire)
              /\ k + 1 \in 1 .. Size(d)
        BY <1>2, <3>3, <4>1
      <4>3. \A i \in 1 .. Len(wire) : Stream[i] = wire[i]
        BY DEF Order, Stream
      <4> QED  BY <1>2, <3>5, <4>0, <4>2, <4>3
    <3>7. Starts(pData, CountByte, Packet(h + 1, d))
      BY <1>2, <3>6 DEF Starts
    <3> QED  BY <3>2, <3>3, <3>4, <3>7, GetPakPrefix
  <2> QED  BY <2>1, <2>2
<1>5. Given' = Given /\ wire' = wire /\ sent' = sent
  BY <1>3 DEF vars, pull, line, Given
<1> HIDE DEF Given
<1> QED  BY <1>3, <1>4, <1>5 DEF Heard

\* The host sends another packet.
LEMMA SendStep ==
  ASSUME NEW start, NEW n, NEW m \in DATA, Order, Hosts(start, n), Heard(start, n), SendPacket(m)
  PROVE  rest' \in Seq(Value) /\ \E s2, n2 : Hosts(s2, n2)' /\ Heard(s2, n2)'
<1>1. PICK z : z = sent
  OBVIOUS
<1>2. PICK packet : packet = Packet(z + 1, m)
  OBVIOUS
<1>3. PICK s2 : s2 = [start EXCEPT ![z + 2] = start[z + 1] + Size(m)]
  OBVIOUS
<1>4. PICK n2 : n2 = [n EXCEPT ![z + 1] = m]
  OBVIOUS
<1>5. /\ z \in 0 .. PACKETS /\ z < PACKETS /\ PACKETS \in Nat
      /\ wire \in Seq(Value) /\ rest = <<>> /\ sent' = z + 1 /\ rest' = packet
      /\ wire' = wire /\ UNCHANGED <<vars, board>>
  BY <1>1, <1>2, PakAssumption DEF Order, SendPacket
<1>6. /\ start \in [Nat -> Nat] /\ n \in [Nat -> Nat] /\ start[1] = 0
      /\ m \in Nat /\ Size(m) \in Nat
  <2>1. m \in Nat /\ Size(m) \in Nat
    BY DataLength
  <2> QED  BY <2>1 DEF Hosts
<1>7. packet \in Seq(Value) /\ Len(packet) = Size(m)
  <2>1. PICK body : body = Body(z + 1, m)
    OBVIOUS
  <2>2. z + 1 \in 1 .. PACKETS
    BY <1>5
  <2>3. Layout(packet, body, z + 1, m)
    BY <1>2, <2>1, <2>2, PacketIs
  <2> QED  BY <2>3 DEF Layout
<1>8. /\ Stream = wire /\ Stream' = wire \o packet /\ Len(wire) = start[z + 1]
      /\ Len(Stream') = Len(wire) + Size(m)
      /\ \A i \in 1 .. Len(wire) : Stream'[i] = wire[i]
      /\ \A j \in 1 .. Size(m) : Stream'[Len(wire) + j] = packet[j]
  <2>1. Stream = wire /\ Stream' = wire \o packet
    BY <1>5 DEF Stream
  <2>2. Len(Stream) = start[z + 1]
    BY <1>1 DEF Hosts
  <2> QED  BY <1>5, <1>7, <2>1, <2>2
<1>9. /\ s2 \in [Nat -> Nat] /\ n2 \in [Nat -> Nat]
      /\ \A p \in 1 .. z + 1 : s2[p] = start[p]
      /\ s2[z + 2] = start[z + 1] + Size(m)
      /\ \A p \in 1 .. z : n2[p] = n[p]
      /\ n2[z + 1] = m
  <2>1. z \in Nat /\ start[z + 1] \in Nat
    <3>1. z \in Nat /\ z + 1 \in Nat
      BY <1>5
    <3> QED  BY <1>6, <3>1
  <2>2. PICK x : x = start[z + 1] + Size(m)
    OBVIOUS
  <2>3. x \in Nat /\ z + 1 \in Nat /\ z + 2 \in Nat
    BY <1>6, <2>1, <2>2
  <2>4. /\ s2 \in [Nat -> Nat] /\ s2[z + 2] = x
        /\ \A p \in Nat : p # z + 2 => s2[p] = start[p]
    BY <1>3, <1>6, <2>2, <2>3
  <2>5. /\ n2 \in [Nat -> Nat] /\ n2[z + 1] = m
        /\ \A p \in Nat : p # z + 1 => n2[p] = n[p]
    BY <1>4, <1>6, <2>3
  <2>6. /\ \A p \in 1 .. z + 1 : p \in Nat /\ p # z + 2
        /\ \A p \in 1 .. z : p \in Nat /\ p # z + 1
    BY <2>1
  <2> QED  BY <2>2, <2>4, <2>5, <2>6
<1>10. /\ \A p \in 1 .. z : n[p] \in DATA /\ start[p + 1] = start[p] + Size(n[p])
       /\ \A p \in 1 .. z : \A q \in p + 1 .. z + 1 : start[p + 1] <= start[q]
       /\ \A p \in 1 .. z : \A j \in 1 .. Size(n[p]) : wire[start[p] + j] = Packet(p, n[p])[j]
  BY <1>1, <1>8 DEF Hosts
<1> HIDE DEF Stream
<1>11. Hosts(s2, n2)'
  <2>1. \A p \in 1 .. z + 1 : n2[p] \in DATA /\ s2[p + 1] = s2[p] + Size(n2[p])
    <3> SUFFICES ASSUME NEW p \in 1 .. z + 1
                 PROVE  n2[p] \in DATA /\ s2[p + 1] = s2[p] + Size(n2[p])
      OBVIOUS
    <3>1. CASE p = z + 1
      <4>1. s2[p] = start[z + 1] /\ p + 1 = z + 2 /\ n2[p] = m
        BY <1>5, <1>9, <3>1
      <4> QED  BY <1>9, <4>1
    <3>2. CASE p \in 1 .. z
      <4>1. p + 1 \in 1 .. z + 1
        BY <1>5, <3>2
      <4> QED  BY <1>9, <1>10, <3>2, <4>1
    <3> QED  BY <1>5, <3>1, <3>2
  <2>2. \A p \in 1 .. z + 1 : \A q \in p + 1 .. (z + 1) + 1 : s2[p + 1] <= s2[q]
    <3> SUFFICES ASSUME NEW p \in 1 .. z + 1, NEW q \in p + 1 .. z + 2
                 PROVE  s2[p + 1] <= s2[q]
      BY <1>5
    <3>1. CASE p = z + 1
      BY <1>5, <1>6, <1>9, <3>1
    <3>2. CASE p \in 1 .. z
      <4>1. p + 1 \in 1 .. z + 1 /\ z + 1 \in p + 1 .. z + 1
        BY <1>5, <3>2
      <4>2. s2[p + 1] = start[p + 1] /\ start[p + 1] <= start[z + 1]
            /\ start[p + 1] \in Nat /\ start[z + 1] \in Nat
        <5>1. p + 1 \in Nat /\ z + 1 \in Nat
          BY <1>5, <3>2
        <5>2. start[p + 1] <= start[z + 1]
          BY <1>10, <3>2, <4>1
        <5> QED  BY <1>6, <1>9, <4>1, <5>1, <5>2
      <4>3. CASE q = z + 2
        BY <1>6, <1>9, <4>2, <4>3
      <4>4. CASE q \in p + 1 .. z + 1
        <5>1. q \in 1 .. z + 1
          BY <3>2, <4>4
        <5> QED  BY <1>9, <1>10, <3>2, <4>2, <4>4, <5>1
      <4> QED  BY <1>5, <4>3, <4>4
    <3> QED  BY <1>5, <3>1, <3>2
  <2>3. \A p \in 1 .. z + 1 : \A j \in 1 .. Size(n2[p]) :
          Stream'[s2[p] + j] = Packet(p, n2[p])[j]
    <3> SUFFICES ASSUME NEW p \in 1 .. z + 1, NEW j \in 1 .. Size(n2[p])
                 PROVE  Stream'[s2[p] + j] = Packet(p, n2[p])[j]
      OBVIOUS
    <3>1. CASE p = z + 1
      BY <1>2, <1>5, <1>8, <1>9, <3>1
    <3>2. CASE p \in 1 .. z
      <4>1. PICK s, d : s = start[p] /\ d = n[p]
        OBVIOUS
      <4>2. s2[p] = s /\ n2[p] = d /\ d \in DATA
        BY <1>9, <1>10, <3>2, <4>1
      <4>3. s \in Nat /\ Size(d) \in Nat /\ s + Size(d) <= Len(wire) /\ Len(wire) \in Nat
        <5>1. z + 1 \in p + 1 .. z + 1
          BY <1>5, <3>2
        <5>2. start[p + 1] <= start[z + 1] /\ start[p + 1] = s + Size(d)
          BY <1>10, <3>2, <4>1, <5>1
        <5>3. Size(d) \in Nat
          BY <4>2, DataLength
        <5>4. p \in Nat /\ z + 1 \in Nat
          BY <1>5, <3>2
        <5>5. s \in Nat /\ Len(wire) \in Nat
          BY <1>6, <1>8, <4>1, <5>4
        <5> QED  BY <1>8, <5>2, <5>3, <5>5
      <4>4. s + j \in 1 .. Len(wire) /\ j \in 1 .. Size(d)
        BY <4>2, <4>3
      <4>5. wire[s + j] = Packet(p, d)[j]
        BY <1>10, <3>2, <4>1, <4>4
      <4> QED  BY <1>8, <4>2, <4>4, <4>5
    <3> QED  BY <1>5, <3>1, <3>2
  <2>4. Len(Stream') = s2[(z + 1) + 1]
    BY <1>5, <1>8, <1>9
  <2>5. s2[1] = 0
    BY <1>5, <1>6, <1>9
  <2> QED  BY <1>5, <1>9, <2>1, <2>2, <2>3, <2>4, <2>5 DEF Hosts
<1>12. Heard(s2, n2)'
  <2>1. PICK h : h = Len(handled)
    OBVIOUS
  <2>2. h \in 0 .. z /\ (CountByte # 0 => h < z)
    BY <1>1, <2>1 DEF Heard
  <2>3. /\ s2[h + 1] = start[h + 1] /\ h \in 0 .. z + 1
        /\ CountByte # 0 => n2[h + 1] = n[h + 1] /\ h < z + 1
    <3>1. h + 1 \in 1 .. z + 1 /\ h \in 0 .. z + 1 /\ (h < z => h + 1 \in 1 .. z /\ h < z + 1)
      BY <1>5, <2>2
    <3> QED  BY <1>9, <2>2, <3>1
  <2>4. /\ handled' = handled /\ CountByte' = CountByte /\ pData' = pData
        /\ searching' = searching /\ wild' = wild /\ Given' = Given
    BY <1>5 DEF board, vars, pull, Given
  <2> HIDE DEF Given
  <2> QED  BY <1>5, <2>1, <2>3, <2>4 DEF Heard
<1> QED  BY <1>5, <1>7, <1>11, <1>12

\* What holds as long as nothing was lost, garbled or added.
HealthyInv == upsets \in Nat /\ (upsets = 0 /\ ~overwritten => Healthy)

LEMMA HealthyInit == InitAll => HealthyInv
<1> SUFFICES ASSUME InitAll  PROVE HealthyInv
  OBVIOUS
<1>1. /\ rest = <<>> /\ wire = <<>> /\ sent = 0 /\ upsets = 0 /\ handled = <<>> /\ CountByte = 0
      /\ item = 1 /\ consumer = "idle" /\ out = 0 /\ ~searching /\ ~wild
      /\ pData = [k \in Cells |-> 0] /\ Pending = 0
  BY DEF InitAll, Init, Pending, NoByte, Cells
<1>2. Order
  BY <1>1, PakAssumption DEF Order, Given
<1>3. PICK f : f = [p \in Nat |-> 0]
  OBVIOUS
<1>4. Hosts(f, f)
  <2>1. Stream = <<>>
    BY <1>1 DEF Stream
  <2> QED  BY <1>1, <1>3, <2>1 DEF Hosts
<1>5. Heard(f, f)
  <2>1. handled = [i \in 1 .. 0 |-> i] /\ Len(handled) = 0
    BY <1>1
  <2>2. Given = f[0 + 1] + CountByte
    BY <1>1, <1>3 DEF Given
  <2>3. pData = [k \in Cells |-> pData[k]]
    BY <1>1
  <2> HIDE DEF Given
  <2> QED  BY <1>1, <2>1, <2>2, <2>3 DEF Heard
<1> QED  BY <1>1, <1>2, <1>4, <1>5 DEF HealthyInv, Healthy

LEMMA HealthyStep ==
  ASSUME HealthyInv, ~overwritten => FifoInv, ~overwritten' => FifoInv', [NextAll]_all
  PROVE  HealthyInv'
<1>1. upsets \in Nat /\ upsets' \in {upsets, upsets + 1}
  <2>1. [NextAll]_all => upsets' \in {upsets, upsets + 1}
    <3>1. UNCHANGED all => upsets' = upsets
      BY DEF all, line
    <3>2. IRQ_RX0 => upsets' \in {upsets, upsets + 1}
      BY DEF IRQ_RX0, Upset
    <3>3. Carry \/ Lose \/ Receive \/ Pass \/ SearchOn => upsets' \in {upsets, upsets + 1}
      BY DEF Carry, Lose, Upset, Receive, Pass, SearchOn, line
    <3>4. \A m \in DATA : SendPacket(m) => upsets' = upsets
      BY DEF SendPacket
    <3>5. \A byte \in NOISE : Garble(byte) \/ Noise(byte) => upsets' = upsets + 1
      BY DEF Garble, Noise, Upset
    <3>6. UNCHANGED <<line, board>> => upsets' = upsets
      BY DEF line
    <3> QED  BY <3>1, <3>2, <3>3, <3>4, <3>5, <3>6 DEF NextAll
  <2> QED  BY <2>1 DEF HealthyInv
<1> SUFFICES ASSUME upsets' = 0, ~overwritten'  PROVE Healthy'
  BY <1>1 DEF HealthyInv
<1>2. upsets = 0 /\ FifoInv /\ FifoInv' /\ Healthy
  <2>1. ~overwritten
    BY FifoStep, StaysOverwritten
  <2> QED  BY <1>1, <2>1 DEF HealthyInv
<1>3. PICK start, n : Hosts(start, n) /\ Heard(start, n)
  BY <1>2 DEF Healthy
<1>4. Order
  BY <1>2 DEF Healthy
<1>5. Given \in Nat /\ Len(wire) \in Nat /\ Given <= Len(wire)
  <2>1. Pending \in Nat
    BY <1>2, FifoAssumption DEF FifoAssumption, FifoInv, TypeInv, TypeOK, Indices, Pending
  <2>2. item = Given + Pending + 1 /\ item <= Len(wire) + 1 /\ Given \in Nat /\ Len(wire) \in Nat
    BY <1>4 DEF Order
  <2> QED  BY <2>1, <2>2
<1>6. item \in Nat /\ item' \in Nat
  BY <1>2, FifoAssumption DEF FifoInv, TypeInv, TypeOK
<1>7. Push => item' # item \/ producer' # producer
  BY <1>6 DEF Push, PushTest, PushStore, PushPublish
<1>8. PullPublish => consumer' # consumer /\ consumer' = "idle"
  BY DEF PullPublish
<1>9. ASSUME Stream' = Stream, sent' = sent, UNCHANGED board, Given' = Given, Order',
             Len(wire) <= Len(wire'), \A k \in 1 .. Len(wire) : wire'[k] = wire[k]
      PROVE  Healthy'
  <2>1. wire' \in Seq(Value)
    BY <1>9 DEF Order
  <2>2. Hosts(start, n)'
    BY <1>3, <1>9, SameStream
  <2>3. Heard(start, n)'
    BY <1>3, <1>4, <1>5, <1>9, <2>1, SameBoard
  <2> QED  BY <1>9, <2>2, <2>3 DEF Healthy
<1>10. ASSUME UNCHANGED <<wire, rest, sent, board>>, [Next]_vars,
             ~(producer = "idle" /\ item' # item), Push => item <= Len(wire), ~PullPublish
      PROVE  Healthy'
  <2>1. Order' /\ Given' = Given
    BY <1>2, <1>4, <1>10, OrderOfFifo
  <2> QED  BY <1>5, <1>9, <1>10, <2>1 DEF Stream
<1>11. CASE UNCHANGED all
  <2>1. /\ UNCHANGED vars /\ UNCHANGED <<wire, rest, sent, board>> /\ item' = item
        /\ ~PullPublish /\ ~Push
    BY <1>11, <1>7, <1>8 DEF all, vars, line, push, pull
  <2> QED  BY <1>10, <2>1
<1>12. ASSUME NEW m \in DATA, SendPacket(m)  PROVE Healthy'
  <2>1. rest' \in Seq(Value) /\ \E s2, n2 : Hosts(s2, n2)' /\ Heard(s2, n2)'
    BY <1>3, <1>4, <1>12, SendStep
  <2>2. UNCHANGED vars /\ wire' = wire /\ sent' = sent + 1 /\ sent < PACKETS
    BY <1>12 DEF SendPacket
  <2>3. Given' = Given /\ Pending' = Pending /\ Waiting' = Waiting /\ item' = item
    BY <2>2 DEF vars, push, pull, Given, Pending, Waiting
  <2>4. Order'
    BY <1>4, <2>1, <2>2, <2>3, PakAssumption DEF Order
  <2> QED  BY <2>1, <2>4 DEF Healthy
<1>13. CASE Carry
  <2>1. /\ wire' = Append(wire, Head(rest)) /\ rest' = Tail(rest) /\ rest # <<>>
        /\ UNCHANGED vars /\ sent' = sent /\ UNCHANGED board
    BY <1>13 DEF Carry, OnLine
  <2>2. wire \in Seq(Value) /\ rest \in Seq(Value)
    BY <1>4 DEF Order
  <2>3. /\ wire' \in Seq(Value) /\ rest' \in Seq(Value) /\ Len(wire') = Len(wire) + 1
        /\ \A k \in 1 .. Len(wire) : wire'[k] = wire[k]
        /\ wire' \o rest' = wire \o rest
    BY <2>1, <2>2
  <2>4. Given' = Given /\ Pending' = Pending /\ Waiting' = Waiting /\ item' = item
    BY <2>1 DEF vars, push, pull, Given, Pending, Waiting
  <2>5. Order'
    <3>1. item' <= Len(wire') + 1
      <4>1. item \in Nat /\ item <= Len(wire) + 1
        BY <1>2, <1>4 DEF Order, FifoInv, TypeInv, TypeOK
      <4> QED  BY <1>5, <2>3, <2>4, <4>1
    <3> QED  BY <1>4, <2>1, <2>3, <2>4, <3>1 DEF Order
  <2> QED  BY <1>5, <1>9, <2>1, <2>3, <2>4, <2>5 DEF Stream
<1>14. ~Lose /\ ~(\E byte \in NOISE : Garble(byte) \/ Noise(byte))
  BY <1>2 DEF Lose, Garble, Noise, Upset
<1>15. CASE IRQ_RX0
  <2>1. /\ item <= Len(wire) /\ Push /\ UNCHANGED <<sent, rest, wire, board>>
        /\ ~(producer = "idle" /\ Full)
    BY <1>2, <1>15 DEF IRQ_RX0, Upset
  <2>2. ~(producer = "idle" /\ item' # item)
    BY <2>1 DEF Push, PushTest, PushStore, PushPublish
  <2>3. ~PullPublish
    BY <2>1 DEF Push, PushTest, PushStore, PushPublish, PullPublish, pull, push
  <2>4. [Next]_vars
    BY <2>1, Zenon DEF Next
  <2> QED  BY <1>10, <2>1, <2>2, <2>3, <2>4
<1>16. CASE (PullTest \/ PullLoad) /\ UNCHANGED <<line, board>>
  <2>1. /\ UNCHANGED <<wire, rest, sent, board>> /\ item' = item /\ ~PullPublish /\ ~Push
    BY <1>16, <1>7, <1>8 DEF line, PullTest, PullLoad, push
  <2>2. [Next]_vars
    BY <1>16, Zenon DEF Next, Pull
  <2> QED  BY <1>10, <2>1, <2>2
<1>17. CASE Receive
  <2>1. PullPublish /\ UNCHANGED <<wire, rest, sent>> /\ item' = item
    BY <1>17 DEF Receive, line, PullPublish, push
  <2>2. ~Push
    BY <2>1 DEF PullPublish, Push, PushTest, PushStore, PushPublish, push, pull
  <2>3. [Next]_vars
    BY <2>1, Zenon DEF Next, Pull
  <2>4. Order' /\ Given' = Given + 1 /\ Given' = out /\ Given' <= Len(wire)
    BY <1>2, <1>4, <2>1, <2>2, <2>3, OrderOfFifo
  <2>5. Hosts(start, n)'
    BY <1>3, <2>1, SameStream DEF Stream
  <2>6. Heard(start, n)'
    BY <1>3, <1>4, <1>17, <2>4, ReceiveStep
  <2> QED  BY <2>4, <2>5, <2>6 DEF Healthy
<1>18. CASE Pass \/ SearchOn
  <2>1. Heard(start, n)' /\ UNCHANGED <<vars, line>>
    BY <1>2, <1>3, <1>4, <1>18, LookAgain
  <2>2. UNCHANGED <<wire, rest, sent>> /\ UNCHANGED vars
    BY <2>1 DEF line
  <2>3. Given' = Given /\ Pending' = Pending /\ Waiting' = Waiting /\ item' = item
    BY <2>2 DEF vars, push, pull, Given, Pending, Waiting
  <2>4. Order'
    BY <1>4, <2>2, <2>3 DEF Order
  <2>5. Hosts(start, n)'
    BY <1>3, <2>2, SameStream DEF Stream
  <2> QED  BY <2>1, <2>4, <2>5 DEF Healthy
<1> QED
  BY <1>11, <1>12, <1>13, <1>14, <1>15, <1>16, <1>17, <1>18, Zenon DEF NextAll

\* As long as the line and the FIFO lose nothing every packet is handled as soon as its
\* last byte is pulled, in the order of the host, and the memmove of PakUart.c:250 is not
\* reached: for every number and length of packets the board's buffer can hold, although
\* their data look like the start of a packet, and every interleaving of the interrupt and
\* the main loop. A FIFO that fits in a uint8_t loses nothing it took.
THEOREM HealthyPackets ==
  /\ SpecAll => [](~overwritten => HealthyLine)
  /\ SIZE < UINT8 => (SpecAll => []HealthyLine)
<1>1. HealthyInv /\ ~overwritten => HealthyLine
  <2> SUFFICES ASSUME HealthyInv, ~overwritten, upsets = 0
               PROVE  /\ ~wild
                      /\ rest = <<>> /\ consumer = "idle" /\ out = Len(wire)
                           => handled = [i \in 1 .. sent |-> i]
    BY DEF HealthyLine
  <2>1. PICK start, n : Order /\ Hosts(start, n) /\ Heard(start, n)
    BY DEF HealthyInv, Healthy
  <2>2. PICK h : h = Len(handled)
    OBVIOUS
  <2>3. ~wild /\ handled = [i \in 1 .. h |-> i]
    BY <2>1, <2>2 DEF Heard
  <2>4. ASSUME rest = <<>>, consumer = "idle", out = Len(wire)  PROVE h = sent
    <3>1. Given = Len(Stream)
      BY <2>1, <2>4 DEF Order, Given, Stream
    <3> QED  BY <2>1, <2>2, <3>1, NextByte
  <2> QED  BY <2>3, <2>4
<1>2. SpecAll => [](~overwritten => HealthyLine)
  <2>1. SpecAll => [](~overwritten => FifoInv)
    BY FifoSpec, Inductive, PTL
  <2>2. HealthyInv /\ (~overwritten => FifoInv) /\ (~overwritten => FifoInv)' /\ [NextAll]_all
          => HealthyInv'
    BY HealthyStep
  <2> QED  BY <1>1, <2>1, <2>2, HealthyInit, PTL DEF SpecAll
<1>3. ASSUME SIZE < UINT8  PROVE SpecAll => []HealthyLine
  <2>1. Spec => []NeverOverwritten
    BY <1>3, NoByteOverwritten
  <2>2. NeverOverwritten => ~overwritten
    BY DEF NeverOverwritten
  <2> QED  BY <1>2, <2>1, <2>2, FifoSpec, PTL
<1> QED  BY <1>2, <1>3
=============================================================================
