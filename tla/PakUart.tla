------------------------------ MODULE PakUart --------------------------------
(***************************************************************************)
(* Receiving packets over the serial line (src/PakUart.c): the receive     *)
(* interrupt pushes every byte into the FIFO, the main loop of a board     *)
(* pulls at most one in a pass, adds it to its buffer and looks for a      *)
(* packet (GetPak_Uart, whose loop goes on behind each packet it handles). *)
(* The host sends packets; bytes are lost, garbled or added on the line,   *)
(* and lost when the FIFO is full.                                         *)
(*                                                                         *)
(* The bytes of ByteFifo are numbers, wire says what they are.  Push and   *)
(* pull are the steps of ByteFifo.  A byte has UINT8 values; what a packet *)
(* makes the board do is left out.                                         *)
(***************************************************************************)
EXTENDS ByteFifo

LOCAL INSTANCE Functions

CONSTANTS
  START,             \* the first and the last but one byte of a packet, 0x81
  BUFFER_LEN_UART,   \* 300
  MAX_IN_PAK,        \* 290
  DATA,              \* lengths of the data in the packets
  NOISE,             \* what a garbled or added byte looks like
  PACKETS, UPSETS    \* bounds: packets sent, bytes lost, garbled or added

UINT16   == UINT8 * UINT8
HEAD     == 5     \* bytes that tell the length
OVERHEAD == 9     \* length of a packet less its code and data

\* The host sends packets the board's buffer can hold.
ASSUME PakAssumption ==
  /\ START \in 0 .. UINT8 - 1 /\ NOISE \subseteq 0 .. UINT8 - 1
  /\ MAX_IN_PAK \in Nat /\ BUFFER_LEN_UART \in Nat /\ MAX_IN_PAK < BUFFER_LEN_UART
  /\ MAX_IN_PAK <= UINT16
  /\ DATA \subseteq Nat /\ \A n \in DATA : n + 1 + OVERHEAD < MAX_IN_PAK
  /\ PACKETS \in Nat /\ UPSETS \in Nat

VARIABLES
  sent, rest,     \* the host: packets sent, bytes of the last one still to come
  wire,           \* what the bytes on the line were
  upsets,         \* bytes lost, garbled or added so far
  pData, CountByte,  \* BuffUart and CountDataUart of the board
  searching,      \* GetPak_Uart has handled a packet and looks behind it
  handled,        \* codes of the packets handled
  wild            \* the program has overwritten its own memory

line  == <<sent, rest, wire, upsets>>
board == <<pData, CountByte, searching, handled, wild>>
all   == <<vars, line, board>>

InitAll ==
  /\ Init
  /\ sent = 0 /\ rest = <<>> /\ wire = <<>> /\ upsets = 0
  /\ pData = [k \in 0 .. BUFFER_LEN_UART - 1 |-> 0] /\ CountByte = 0
  /\ searching = FALSE /\ handled = <<>> /\ wild = FALSE

-----------------------------------------------------------------------------
(* The host and the line.  The n-th packet has the code n; a board answers *)
(* before the host sends the next one, or the host sends it all the same.  *)

\* CRC
Sum(f) == FoldFunction(LAMBDA x, y : (x + y) % UINT16, 0, f)

Word(n) == <<n % UINT8, n \div UINT8>>

\* The data look like the start of a packet.
Data(n) == [i \in 1 .. n |-> START]

\* From the receiver 1 and the sender 2 to the data.
Body(code, n) == <<1, 2>> \o Word(n + 1) \o <<code>> \o Data(n)

\* The sum CreateAndSend_Pkt_UART0 keeps: n and one more instead of n + 1.
Crc(code, n) == Sum(<<1>> \o Word(n) \o <<code, 2, 1>> \o Data(n))

\* CreateAndSend_Pkt_UART0 of the host
Packet(code, n) == <<START>> \o Body(code, n) \o Word(Crc(code, n)) \o <<START, 0>>

\* The host sends no length whose low byte carries (255 bytes): its checksum would be wrong.
ASSUME CrcAssumption ==
  \A code \in 1 .. PACKETS, n \in DATA : Crc(code, n) = Sum(Body(code, n))

SendPacket(n) ==
  /\ rest = <<>> /\ sent < PACKETS
  /\ sent' = sent + 1 /\ rest' = Packet(sent', n)
  /\ UNCHANGED <<vars, wire, upsets, board>>

\* A byte on the line raises the receive interrupt.
OnLine(byte) ==
  /\ Len(wire) < BYTES /\ Len(wire) < item
  /\ wire' = Append(wire, byte)

Carry ==
  /\ rest # <<>> /\ OnLine(Head(rest))
  /\ rest' = Tail(rest)
  /\ UNCHANGED <<vars, sent, upsets, board>>

Upset == upsets < UPSETS /\ upsets' = upsets + 1

Lose ==
  /\ rest # <<>> /\ Upset /\ rest' = Tail(rest)
  /\ UNCHANGED <<vars, sent, wire, board>>

Garble(byte) ==
  /\ rest # <<>> /\ OnLine(byte) /\ Upset /\ rest' = Tail(rest)
  /\ UNCHANGED <<vars, sent, board>>

Noise(byte) ==
  /\ OnLine(byte) /\ Upset
  /\ UNCHANGED <<vars, sent, rest, board>>

\* IRQ_RX0.  The board is fast enough, except for UPSETS bytes.
IRQ_RX0 ==
  /\ item <= Len(wire) /\ Push
  /\ IF producer = "idle" /\ Full THEN Upset ELSE UNCHANGED upsets
  /\ UNCHANGED <<sent, rest, wire, board>>

-----------------------------------------------------------------------------
(* GetPak_Uart.                                                            *)

\* memmove(pData, pData + from, n)
Moved(b, from, n) == [k \in DOMAIN b |-> IF k < n THEN b[k + from] ELSE b[k]]

\* Mistake: the end of the packet is taken one byte too early.
Bug_Length(b) == (b[3] + b[4] * UINT8 + OVERHEAD - 1) % UINT16

Length(b) == (b[3] + b[4] * UINT8 + OVERHEAD) % UINT16

\* Mistake: the checksum is not compared.
Bug_ChecksumFits(b) == TRUE

\* Calc puts the two bytes together.
ChecksumFits(b) ==
  LET len == Length(b)
  IN  Word(Sum([k \in 1 .. len - 5 |-> b[k]])) = <<b[len - 4], b[len - 3]>>

Keep(b, n) == pData' = b /\ CountByte' = n /\ searching' = FALSE /\ UNCHANGED <<handled, wild>>

\* c starts with the first byte of a packet, m bytes are behind it.
Found(c, m) ==
  LET len == Length(c)
      complete == m >= HEAD /\ len < MAX_IN_PAK /\ len <= m
      ends == c[len - 2] = START /\ c[len - 1] = 0
      drop == Keep(Moved(c, 1, m), m - 1)
      outside == wild' = TRUE /\ UNCHANGED <<pData, CountByte, searching, handled>>
  IN  \/ (m < HEAD \/ (len < MAX_IN_PAK /\ len > m)) /\ Keep(c, m)
      \/ m >= HEAD /\ len >= MAX_IN_PAK /\ drop
      \* The end and the checksum are looked for outside the packet.
      \/ complete /\ len < HEAD /\ (drop \/ outside)
      \/ complete /\ len >= HEAD /\ ~ends /\ drop
      \/ complete /\ len >= HEAD /\ ends /\ ~ChecksumFits(c) /\ outside
      \/ /\ complete /\ len >= HEAD /\ ends /\ ChecksumFits(c)
         /\ pData' = Moved(c, len, BUFFER_LEN_UART - len) /\ CountByte' = m - len
         /\ handled' = Append(handled, c[5]) /\ searching' = TRUE
         /\ UNCHANGED wild

\* The loop from i on, up to a packet or to its end; the byte behind the last one is looked
\* at too. What starts with the first byte of a packet is moved to the beginning.
Search(i, b, n) ==
  LET marks == {k \in i .. n : b[k] = START}
  IN  \/ marks = {} /\ Keep(b, IF n >= BUFFER_LEN_UART - 2 THEN 0 ELSE n)
      \/ \E k \in marks : (\A j \in marks : k <= j) /\ Found(Moved(b, k, n - k), n - k)

GetPak_Uart(b, n) == IF n > 4 THEN Search(0, b, n) ELSE Keep(b, n)

\* The passes of the main loop: with a byte in the FIFO, and without.
Receive ==
  /\ ~wild /\ ~searching /\ PullPublish
  /\ GetPak_Uart([pData EXCEPT ![CountByte] = wire[out]],
                 IF CountByte < BUFFER_LEN_UART - 1 THEN CountByte + 1 ELSE CountByte)
  /\ UNCHANGED line

Pass ==
  /\ ~wild /\ ~searching /\ consumer = "idle" /\ Empty
  /\ GetPak_Uart(pData, CountByte)
  /\ <<pData, CountByte, wild>>' # <<pData, CountByte, wild>>
  /\ UNCHANGED <<vars, line>>

\* The loop goes on behind a packet.
SearchOn ==
  /\ ~wild /\ searching /\ Search(1, pData, CountByte)
  /\ UNCHANGED <<vars, line>>

NextAll ==
  \/ \E n \in DATA : SendPacket(n)
  \/ Carry \/ Lose \/ \E byte \in NOISE : Garble(byte) \/ Noise(byte)
  \/ IRQ_RX0
  \/ ~searching /\ (PullTest \/ PullLoad) /\ UNCHANGED <<line, board>>
  \/ Receive \/ Pass \/ SearchOn

SpecAll == InitAll /\ [][NextAll]_all

-----------------------------------------------------------------------------
(* Properties.                                                             *)

\* Only what the host sent is handled, each packet at most once and in the order of the
\* host, whatever the line lost, garbled or added and whatever the FIFO dropped
\* (GetPak_Uart: packets are found by their first byte, length, end and checksum).
OnlySent ==
  /\ \A i \in DOMAIN handled : handled[i] \in 1 .. sent
  /\ \A i, j \in DOMAIN handled : i < j => handled[i] < handled[j]

\* As long as the line and the FIFO lose nothing every packet is handled as soon as its
\* last byte is pulled, although its data look like the start of a packet, and the
\* program does not reach the memmove with an address for its length (PakUart.c:250).
HealthyLine ==
  upsets = 0 =>
    /\ ~wild
    /\ rest = <<>> /\ consumer = "idle" /\ out = Len(wire)
         => handled = [i \in 1 .. sent |-> i]
=============================================================================
