------------------------------ MODULE ByteFifo ------------------------------
(***************************************************************************)
(* The byte FIFO between the serial interrupts and the main loop           *)
(* (src/fifo.c), one producer and one consumer without interrupt           *)
(* protection.  The indices run over twice the size, so that a full FIFO   *)
(* and an empty one differ; the number of used places is a uint8_t.        *)
(***************************************************************************)
EXTENDS MessageRing

CONSTANTS
  SIZE,     \* places; TEST_UART_FIFO_RX_SIZE is 256, TEST_UART_FIFO_TX_SIZE 512
  UINT8,    \* how many values a uint8_t has
  BYTES     \* bound: bytes offered to the FIFO, numbered in their order

ASSUME FifoAssumption ==
  /\ SIZE \in Nat \ {0} /\ UINT8 \in Nat \ {0} /\ BYTES \in Nat

Byte    == 1 .. BYTES
NoByte  == 0             \* what the static arrays hold at the start
Indices == 0 .. 2 * SIZE - 1
Places  == 0 .. SIZE - 1

VARIABLES
  buffer, read_index, write_index,  \* the descriptor
  producer, item,   \* fifo_push_uint8: what it does next, and its byte
  consumer, out,    \* fifo_pull_uint8: what it does next, and the byte handed out
  overwritten       \* history: a byte nobody had read was overwritten

push == <<producer, item>>
pull == <<consumer, out>>
vars == <<buffer, read_index, write_index, push, pull, overwritten>>

Init ==
  /\ buffer = [p \in Places |-> NoByte]
  /\ read_index = 0 /\ write_index = 0
  /\ producer = "idle" /\ item = 1
  /\ consumer = "idle" /\ out = NoByte
  /\ overwritten = FALSE

\* Bytes written and not yet read.
Pending ==
  IF write_index >= read_index THEN write_index - read_index
                               ELSE write_index - read_index + 2 * SIZE

\* Mistake: the FIFO is full one place too late.
Bug_Full == Pending % UINT8 = SIZE + 1

\* Mistake for UartTx: the used places are not cut to a uint8_t, but the
\* transmitter is still started only after the whole packet was stored.
Bug_FullExact == Pending = SIZE

\* fifo_is_full compares the number of used places, cut to a uint8_t.
Full == Pending % UINT8 = SIZE

Empty == write_index = read_index

\* fifo_push_uint8 tests, stores, and publishes the index last.
PushTest ==
  /\ producer = "idle" /\ item \in Byte
  /\ IF Full
     THEN /\ item' = item + 1      \* FIFO_ERROR_OVERFLOW: the byte is lost
          /\ UNCHANGED producer
     ELSE /\ producer' = "store"
          /\ UNCHANGED item
  /\ UNCHANGED <<buffer, read_index, write_index, pull, overwritten>>

PushStore ==
  /\ producer = "store"
  /\ producer' = "publish"
  /\ buffer' = [buffer EXCEPT ![Wrap(write_index, SIZE)] = item]
  /\ overwritten' = (overwritten \/ Pending >= SIZE)
  /\ UNCHANGED <<read_index, write_index, item, pull>>

PushPublish ==
  /\ producer = "publish"
  /\ producer' = "idle" /\ item' = item + 1
  /\ write_index' = After(write_index, 2 * SIZE)
  /\ UNCHANGED <<buffer, read_index, pull, overwritten>>

\* fifo_pull_uint8 tests, loads, and publishes the index last.
PullTest ==
  /\ consumer = "idle" /\ ~Empty
  /\ consumer' = "load"
  /\ UNCHANGED <<buffer, read_index, write_index, push, out, overwritten>>

PullLoad ==
  /\ consumer = "load"
  /\ consumer' = "publish"
  /\ out' = buffer[Wrap(read_index, SIZE)]
  /\ UNCHANGED <<buffer, read_index, write_index, push, overwritten>>

\* Mistake: the index forgets that it runs over twice the size.
Bug_PullPublish ==
  /\ consumer = "publish"
  /\ consumer' = "idle"
  /\ read_index' = After(read_index, SIZE)
  /\ UNCHANGED <<buffer, write_index, push, out, overwritten>>

PullPublish ==
  /\ consumer = "publish"
  /\ consumer' = "idle"
  /\ read_index' = After(read_index, 2 * SIZE)
  /\ UNCHANGED <<buffer, write_index, push, out, overwritten>>

Push == PushTest \/ PushStore \/ PushPublish
Pull == PullTest \/ PullLoad \/ PullPublish

Next == Push \/ Pull

Spec == Init /\ [][Next]_vars

-----------------------------------------------------------------------------
(* Properties.                                                             *)

\* Both indices stay inside twice the size, the places inside the buffer
\* (fifo.c masks each index once per step).
TypeOK ==
  /\ buffer \in [Places -> Byte \cup {NoByte}]
  /\ read_index \in Indices /\ write_index \in Indices
  /\ producer \in {"idle", "store", "publish"}
  /\ consumer \in {"idle", "load", "publish"}
  /\ item \in 1 .. BYTES + 1
  /\ out \in Byte \cup {NoByte}
  /\ overwritten \in BOOLEAN

\* The bytes the consumer has still to read.
Waiting == Segment(buffer, Wrap(read_index, SIZE), Pending, SIZE)

\* What the consumer's caller has been given: the byte handed out and the
\* place it came from, which is still counted until the index is published.
Unread == IF consumer = "publish" THEN Tail(Waiting) ELSE Waiting

\* A push into a full FIFO is refused (fifo.h: FIFO_ERROR_OVERFLOW, "attempt
\* to push something in a FIFO that is full"): no unread byte is overwritten.
NeverOverwritten == ~overwritten

Abstract == INSTANCE LossyFifo WITH
  Msg <- Byte, Capacity <- SIZE, None <- NoByte, queue <- Unread, taken <- out

\* A FIFO whose size fits in a uint8_t implements a bounded queue.
ImplementsFifo == Abstract!Spec
=============================================================================
