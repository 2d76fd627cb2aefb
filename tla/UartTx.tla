------------------------------- MODULE UartTx -------------------------------
(***************************************************************************)
(* Sending packets over the serial line (src/PakUart.c).  The main loop    *)
(* puts a packet into the transmit FIFO byte by byte and starts the        *)
(* transmitter when it stands still; the transmit interrupt takes the      *)
(* bytes out and switches itself off when the FIFO is empty.               *)
(* The FIFO's steps are atomic here: a push is made with interrupts off,   *)
(* a pull by the interrupt or while it is switched off (see ByteFifo).     *)
(***************************************************************************)
EXTENDS MessageRing

CONSTANTS
  SIZE, UINT8,  \* as in ByteFifo
  BYTES,        \* bound: bytes sent in a behaviour
  LENGTHS       \* lengths of the packets

ASSUME UartAssumption ==
  /\ SIZE \in Nat \ {0} /\ UINT8 \in Nat \ {0} /\ BYTES \in Nat
  /\ LENGTHS \subseteq Nat \ {0}

VARIABLES
  buffer, read_index, write_index,  \* fifo_tx_desk
  sSend0Empty,  \* the transmitter stands still
  tie, tdr,     \* transmit interrupt enable; the data register, if not empty
  pc, todo,     \* main loop: what it does next, bytes left of its packet
  given, wire,  \* history: bytes given to the FIFO, bytes sent on the line
  overwritten   \* history: a byte nobody had read was overwritten

fifo == <<buffer, read_index, write_index, overwritten>>
vars == <<fifo, sSend0Empty, tie, tdr, pc, todo, given, wire>>

Fifo == INSTANCE ByteFifo WITH
  producer <- "idle", item <- given + 1, consumer <- "idle", out <- 0

NoByte == Fifo!NoByte

Init ==
  /\ buffer = [p \in Fifo!Places |-> NoByte]
  /\ read_index = 0 /\ write_index = 0 /\ overwritten = FALSE
  /\ sSend0Empty = TRUE /\ tie = FALSE /\ tdr = NoByte
  /\ pc = "idle" /\ todo = 0 /\ given = 0 /\ wire = <<>>

\* Mistake: the index forgets that it runs over twice the size.
Bug_PullToRegister ==
  /\ tdr' = buffer[Wrap(read_index, SIZE)]
  /\ read_index' = After(read_index, SIZE)
  /\ UNCHANGED <<buffer, write_index, overwritten>>

\* fifo_pull_uint8 into TDR0.
PullToRegister ==
  /\ tdr' = buffer[Wrap(read_index, SIZE)]
  /\ read_index' = After(read_index, 2 * SIZE)
  /\ UNCHANGED <<buffer, write_index, overwritten>>

-----------------------------------------------------------------------------
(* The main loop: CreateAndSend_Pkt_UART0, AddDataToSend0, StartSend0.     *)

CreateAndSend_Pkt_UART0(n) ==
  /\ pc = "idle" /\ given + n <= BYTES
  /\ pc' = "add" /\ todo' = n
  /\ UNCHANGED <<fifo, sSend0Empty, tie, tdr, given, wire>>

\* One turn of the loop of AddDataToSend0, repeated while the FIFO is full.
AddDataToSend0 ==
  /\ pc = "add" /\ ~Fifo!Full
  /\ buffer' = [buffer EXCEPT ![Wrap(write_index, SIZE)] = given + 1]
  /\ write_index' = After(write_index, 2 * SIZE)
  /\ overwritten' = (overwritten \/ Fifo!Pending >= SIZE)
  /\ given' = given + 1 /\ todo' = todo - 1
  /\ pc' = IF todo = 1 THEN "start" ELSE "add"
  /\ UNCHANGED <<read_index, sSend0Empty, tie, tdr, wire>>

\* Mistake: the transmitter is started although it is running.
Bug_StartTest ==
  /\ pc = "start"
  /\ pc' = IF ~Fifo!Empty THEN "load" ELSE "idle"
  /\ UNCHANGED <<fifo, sSend0Empty, tie, tdr, todo, given, wire>>

StartTest ==
  /\ pc = "start"
  /\ pc' = IF sSend0Empty /\ ~Fifo!Empty THEN "load" ELSE "idle"
  /\ UNCHANGED <<fifo, sSend0Empty, tie, tdr, todo, given, wire>>

StartLoad ==
  /\ pc = "load"
  /\ PullToRegister
  /\ pc' = "mark"
  /\ UNCHANGED <<sSend0Empty, tie, todo, given, wire>>

StartMark ==
  /\ pc = "mark"
  /\ sSend0Empty' = FALSE
  /\ pc' = "enable"
  /\ UNCHANGED <<fifo, tie, tdr, todo, given, wire>>

\* Mistake: the interrupt is not enabled when the register is already empty.
Bug_StartEnable ==
  /\ pc = "enable"
  /\ tie' = (tdr # NoByte)
  /\ pc' = "idle"
  /\ UNCHANGED <<fifo, sSend0Empty, tdr, todo, given, wire>>

StartEnable ==
  /\ pc = "enable"
  /\ tie' = TRUE
  /\ pc' = "idle"
  /\ UNCHANGED <<fifo, sSend0Empty, tdr, todo, given, wire>>

-----------------------------------------------------------------------------
(* The transmit interrupt is raised while the data register is empty.      *)

\* Mistake: the transmitter is not marked as standing still.
Bug_IRQ_TX0 ==
  /\ tie /\ tdr = NoByte
  /\ IF Fifo!Empty
     THEN /\ tie' = FALSE
          /\ UNCHANGED <<fifo, tdr, sSend0Empty>>
     ELSE PullToRegister /\ UNCHANGED <<sSend0Empty, tie>>
  /\ UNCHANGED <<pc, todo, given, wire>>

IRQ_TX0 ==
  /\ tie /\ tdr = NoByte
  /\ IF Fifo!Empty
     THEN /\ sSend0Empty' = TRUE /\ tie' = FALSE
          /\ UNCHANGED <<fifo, tdr>>
     ELSE PullToRegister /\ UNCHANGED <<sSend0Empty, tie>>
  /\ UNCHANGED <<pc, todo, given, wire>>

\* The line takes the byte from the data register.
Shift ==
  /\ tdr # NoByte
  /\ wire' = Append(wire, tdr)
  /\ tdr' = NoByte
  /\ UNCHANGED <<fifo, sSend0Empty, tie, pc, todo, given>>

Start == StartTest \/ StartLoad \/ StartMark \/ StartEnable

Next ==
  \/ \E n \in LENGTHS : CreateAndSend_Pkt_UART0(n)
  \/ AddDataToSend0 \/ Start
  \/ IRQ_TX0 \/ Shift

Spec == Init /\ [][Next]_vars

\* The main loop goes on, the interrupt is served and the line works.
FairSpec ==
  Spec /\ WF_vars(AddDataToSend0) /\ WF_vars(Start) /\ WF_vars(IRQ_TX0) /\ WF_vars(Shift)

-----------------------------------------------------------------------------
(* Properties.                                                             *)

\* The flag, the interrupt enable and the FIFO are changed by two contexts
\* without a lock.  When the main loop leaves StartSend0, bytes in the FIFO
\* always have an interrupt that will fetch them.
NoStall == pc = "idle" /\ ~Fifo!Empty => tie /\ ~sSend0Empty

\* A byte in the data register is never replaced before the line took it.
RegisterKept == [][tdr' # tdr => tdr = NoByte \/ tdr' = NoByte]_vars

\* What was sent, what is in the register and what waits are together the
\* bytes of the packets in their order, until a byte is overwritten.
LineInOrder ==
  ~overwritten =>
    wire \o (IF tdr = NoByte THEN <<>> ELSE <<tdr>>) \o Fifo!Waiting
      = [i \in 1 .. given |-> i]

\* CreateAndSend_Pkt_UART0 returns, also for a packet larger than the FIFO:
\* the transmitter is started only after the last byte was put in.
SendReturns == pc = "add" ~> pc = "idle"

\* Everything in the FIFO is sent.
AllSent == ~Fifo!Empty ~> Fifo!Empty /\ tdr = NoByte
=============================================================================
