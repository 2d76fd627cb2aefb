------------------------------ MODULE LossyFifo ------------------------------
(***************************************************************************)
(* What every software queue of the firmware promises: a bounded FIFO.     *)
(* A message offered to a full queue is lost, a message taken is the       *)
(* oldest one, and the whole content may be discarded (re-initialisation). *)
(* The ring buffers of can.c and fifo.c are shown to implement it.         *)
(***************************************************************************)
EXTENDS Naturals, Sequences

CONSTANTS
  Msg,       \* the messages a queue can hold
  Capacity,  \* how many of them it holds at most
  None       \* "nothing taken yet"

VARIABLES
  queue,     \* the messages waiting, oldest first
  taken      \* the message handed out last

vars == <<queue, taken>>

Init ==
  /\ queue = <<>>
  /\ taken = None

\* A producer's message is stored behind all the others.
Accept ==
  /\ Len(queue) < Capacity
  /\ \E m \in Msg : queue' = Append(queue, m)
  /\ UNCHANGED taken

\* A producer's message meets a free consumer and never waits.
PassThrough ==
  /\ queue = <<>>
  /\ taken' \in Msg
  /\ UNCHANGED queue

\* The consumer receives the oldest message.
Take ==
  /\ queue # <<>>
  /\ taken' = Head(queue)
  /\ queue' = Tail(queue)

\* Everything that waits is thrown away.
Discard ==
  /\ queue' = <<>>
  /\ UNCHANGED taken

Next == Accept \/ PassThrough \/ Take \/ Discard

Spec == Init /\ [][Next]_vars
=============================================================================
