-------------------------------- MODULE CanTx --------------------------------
(***************************************************************************)
(* The transmit side of one CAN line (src/can.c): CAN_SendMessage of the   *)
(* main loop, mailbox 32 of the controller, the transmit branch of         *)
(* CAN_x_IRQ with SendFifoCanMsg, and the re-initialisation by SetupCAN.   *)
(*                                                                         *)
(* A message goes straight to the mailbox when the stack is empty and the  *)
(* mailbox is free; otherwise it waits in the stack, which only the        *)
(* transmit interrupt empties.  Main loop and handler share one set of     *)
(* interface registers, IF1.                                               *)
(***************************************************************************)
EXTENDS MessageRing

CONSTANTS
  MAX_STACK_MSG_TX,  \* slots of stackMsgSend
  MSGS,              \* bound: messages the main loop sends, numbered in order
  LAST_BOX,          \* receive boxes set up by CAN_ConfigMsgBox
  SETUPS,            \* bound: SetupCAN calls on the live line
  NoMsg

ASSUME TxAssumption ==
  /\ MAX_STACK_MSG_TX \in Nat /\ MAX_STACK_MSG_TX >= 3
  /\ MSGS \in Nat /\ LAST_BOX \in Nat \ {0}
  /\ SETUPS \in Nat

Slots == 0 .. MAX_STACK_MSG_TX - 1
Boxes == 1 .. LAST_BOX
Msg   == 1 .. MSGS
Frame == 0 .. MSGS   \* 0: a slot never written, all zero after start-up

ASSUME NoMsgAssumption == NoMsg \notin Frame

VARIABLES
  stack,          \* stackMsgSend
  st, end, count, \* ptrMsgSend
  mailbox,        \* box 32: the message TREQ stands for, NoMsg when clear
  intpnd,         \* INTPND of box 32
  busOff,         \* the controller left the bus (INIT set by hardware)
  if1,            \* who filled the IF1 registers last
  boxes,          \* per receive box: configured for reception
  pc,             \* where the main loop is
  arg,            \* message CAN_SendMessage was called with
  cfgBox,         \* box CAN_ConfigMsgBox sets up
  next,           \* number of the next message to send
  setups,         \* SetupCAN calls on the live line so far
  loaded,         \* history: message put into the mailbox last before that
  wire,           \* history: message sent on the bus last
  lost            \* history: messages dropped or discarded

\* SetupCAN has run on the live line.
Renewed == setups > 0

ring == <<stack, st, end, count>>
box32 == <<mailbox, intpnd>>
cfg  == <<boxes, cfgBox, setups>>
vars == <<ring, box32, busOff, if1, cfg, pc, arg, next, loaded, wire, lost>>

Waiting == Segment(stack, st, count, MAX_STACK_MSG_TX)
InStack  == {Waiting[i] : i \in 1 .. count}

\* DisInterrupt..EnInterrupt keeps the handler out of CAN_SendMessage.
Locked == pc = "enqueue"

Init ==
  /\ stack = [s \in Slots |-> 0]
  /\ st = 0 /\ end = 0 /\ count = 0
  /\ mailbox = NoMsg /\ intpnd = FALSE /\ busOff = FALSE
  /\ if1 = "box"
  /\ boxes = [b \in Boxes |-> TRUE] /\ cfgBox = 1 /\ setups = 0
  /\ pc = "idle" /\ arg = NoMsg /\ next = 1
  /\ loaded = NoMsg /\ wire = NoMsg /\ lost = {}

-----------------------------------------------------------------------------
(* CANx_SendMessage: refused while TREQ of box 32 is set; loading the box  *)
(* goes through IF1 and writes its control word, INTPND included.          *)

Load(m) ==
  /\ mailbox = NoMsg
  /\ mailbox' = m
  /\ intpnd' = FALSE
  /\ if1' = "tx"
  /\ loaded' = IF Renewed THEN loaded ELSE m

-----------------------------------------------------------------------------
(* CAN_SendMessage.                                                        *)

MainRuns(from, to) == pc = from /\ pc' = to

\* Mistake: the mailbox is tried whatever waits.
Bug_SendDirect ==
  /\ MainRuns("idle", "idle")
  /\ next <= MSGS
  /\ Load(next)
  /\ next' = next + 1
  /\ UNCHANGED <<ring, busOff, cfg, arg, wire, lost>>

\* Interrupts are locked.  An empty stack and a free box: sent directly.
SendDirect ==
  /\ MainRuns("idle", "idle")
  /\ next <= MSGS
  /\ count = 0
  /\ Load(next)
  /\ next' = next + 1
  /\ UNCHANGED <<ring, busOff, cfg, arg, wire, lost>>

\* The direct attempt is skipped or refused.
SendRefused ==
  /\ MainRuns("idle", "enqueue")
  /\ next <= MSGS
  /\ count # 0 \/ mailbox # NoMsg
  /\ arg' = next
  /\ next' = next + 1
  /\ UNCHANGED <<ring, box32, busOff, if1, cfg, loaded, wire, lost>>

\* The message is stored, or dropped when the stack is full; unlock.
Enqueue ==
  /\ MainRuns("enqueue", "idle")
  /\ IF count = MAX_STACK_MSG_TX - 2
     THEN /\ lost' = lost \cup {arg}
          /\ UNCHANGED ring
     ELSE /\ stack' = [stack EXCEPT ![end] = arg]
          /\ end' = After(end, MAX_STACK_MSG_TX)
          /\ count' = count + 1
          /\ UNCHANGED <<st, lost>>
  /\ arg' = NoMsg
  /\ UNCHANGED <<box32, busOff, if1, cfg, next, loaded, wire>>

-----------------------------------------------------------------------------
(* CAN_x_IRQ: the transmit branch and the status branch.                   *)

\* Mistake: off by one, the last message stays.
Bug_SendFifoCanMsg ==
  IF count > 1 /\ mailbox = NoMsg
  THEN /\ Load(stack[st])
       /\ st' = After(st, MAX_STACK_MSG_TX)
       /\ count' = count - 1
  ELSE /\ intpnd' = FALSE
       /\ if1' = "tx"
       /\ UNCHANGED <<st, count, mailbox, loaded>>

\* SendFifoCanMsg when something waits: the oldest message goes out.
SendFifoCanMsg ==
  IF count # 0 /\ mailbox = NoMsg
  THEN /\ Load(stack[st])
       /\ st' = After(st, MAX_STACK_MSG_TX)
       /\ count' = count - 1
  ELSE /\ intpnd' = FALSE
       /\ if1' = "tx"
       /\ UNCHANGED <<st, count, mailbox, loaded>>

\* Transmission done: INTPND is cleared through IF1, the stack is tried.
IsrTransmit ==
  /\ intpnd /\ ~Locked
  /\ mailbox = NoMsg
  /\ SendFifoCanMsg
  /\ UNCHANGED <<stack, end, busOff, cfg, pc, arg, next, wire, lost>>

\* Status interrupt on bus-off: ResetCan clears INIT.
IsrStatus ==
  /\ busOff /\ ~Locked
  /\ busOff' = FALSE
  /\ UNCHANGED <<ring, box32, if1, cfg, pc, arg, next, loaded, wire, lost>>

-----------------------------------------------------------------------------
(* The controller (external).                                              *)

TransmissionDone ==
  /\ mailbox # NoMsg /\ ~busOff
  /\ wire' = mailbox
  /\ mailbox' = NoMsg
  /\ intpnd' = TRUE
  /\ UNCHANGED <<ring, busOff, if1, cfg, pc, arg, next, loaded, lost>>

BusOff ==
  /\ ~busOff /\ mailbox # NoMsg
  /\ busOff' = TRUE
  /\ UNCHANGED <<ring, box32, if1, cfg, pc, arg, next, loaded, wire, lost>>
-----------------------------------------------------------------------------
(* ClearTX_BUFF, and SetupCAN with interrupts enabled: InitCanFifoBuf, the *)
(* restart of the controller by CAN_init, CAN_ConfigMsgBox.                *)

ClearTX_BUFF ==
  /\ MainRuns("idle", "idle")
  /\ count # 0
  /\ st' = 0 /\ end' = 0 /\ count' = 0
  /\ lost' = lost \cup InStack
  /\ UNCHANGED <<stack, box32, busOff, if1, cfg, arg, next, loaded, wire>>

SetupStart ==
  /\ MainRuns("idle", "setup_end")
  /\ setups < SETUPS /\ setups' = setups + 1
  /\ st' = 0
  /\ lost' = lost \cup InStack
  /\ UNCHANGED <<stack, end, count, box32, busOff, if1, boxes, cfgBox, arg, next,
                 loaded, wire>>

SetupEnd ==
  /\ MainRuns("setup_end", "setup_count")
  /\ end' = 0
  /\ UNCHANGED <<stack, st, count, box32, busOff, if1, cfg, arg, next, loaded,
                 wire, lost>>

SetupCount ==
  /\ MainRuns("setup_count", "restart")
  /\ count' = 0
  /\ UNCHANGED <<stack, st, end, box32, busOff, if1, cfg, arg, next, loaded,
                 wire, lost>>

\* INIT is set and cleared again; a pending transmission survives.
CAN_init ==
  /\ MainRuns("restart", "fill")
  /\ busOff' = FALSE
  /\ cfgBox' = 1
  /\ UNCHANGED <<ring, box32, if1, boxes, setups, arg, next, loaded, wire, lost>>

\* CAN_buffer fills the IF1 registers ...
BoxFill ==
  /\ MainRuns("fill", "commit")
  /\ if1' = "box"
  /\ UNCHANGED <<ring, box32, busOff, cfg, arg, next, loaded, wire, lost>>

\* ... and transfers them to the box.
BoxCommit ==
  /\ MainRuns("commit", IF cfgBox = LAST_BOX THEN "idle" ELSE "fill")
  /\ boxes' = [boxes EXCEPT ![cfgBox] = (if1 = "box")]
  /\ cfgBox' = IF cfgBox = LAST_BOX THEN 1 ELSE cfgBox + 1
  /\ UNCHANGED <<ring, box32, busOff, if1, setups, arg, next, loaded, wire, lost>>

Send  == SendDirect \/ SendRefused \/ Enqueue
Isr   == IsrTransmit \/ IsrStatus
Bus   == TransmissionDone \/ BusOff
Setup == SetupStart \/ SetupEnd \/ SetupCount \/ CAN_init \/ BoxFill \/ BoxCommit

Next == Send \/ Isr \/ Bus \/ ClearTX_BUFF \/ Setup

Spec == Init /\ [][Next]_vars

\* Interrupts are served, the main loop finishes what it began, and a
\* controller that is again and again on the bus gets its message out.
FairSpec ==
  /\ Spec
  /\ WF_vars(Enqueue)
  /\ WF_vars(SetupEnd \/ SetupCount \/ CAN_init \/ BoxFill \/ BoxCommit)
  /\ SF_vars(IsrTransmit)
  /\ SF_vars(IsrStatus)
  /\ SF_vars(TransmissionDone)

-----------------------------------------------------------------------------
(* Properties.                                                             *)

RingType ==
  /\ stack \in [Slots -> Frame]
  /\ st \in Slots /\ end \in Slots
  /\ count \in 0 .. MAX_STACK_MSG_TX - 2

HardwareType ==
  /\ mailbox \in Frame \cup {NoMsg}
  /\ intpnd \in BOOLEAN /\ busOff \in BOOLEAN
  /\ if1 \in {"box", "tx"}
  /\ boxes \in [Boxes -> BOOLEAN]

LoopType ==
  /\ pc \in {"idle", "enqueue", "setup_end", "setup_count", "restart", "fill", "commit"}
  /\ cfgBox \in Boxes
  /\ arg \in Msg \cup {NoMsg}
  /\ next \in 1 .. MSGS + 1 /\ setups \in 0 .. SETUPS
  /\ loaded \in Frame \cup {NoMsg} /\ wire \in Frame \cup {NoMsg}
  /\ lost \subseteq Frame

\* The indices and the counter stay inside the stack whatever interrupts
\* what; the counter stops two below the array's size (can.c CAN_SendMessage).
TypeOK == RingType /\ HardwareType /\ LoopType

\* The index of the writer, the index of the reader and the counter, which
\* are three variables written by two contexts, describe one ring segment.
InStep == end = Wrap(st + count, MAX_STACK_MSG_TX)

\* ... until SetupCAN runs on the live line: InitCanFifoBuf has no lock.
RingConsistent == ~Renewed => InStep

\* Only the transmit interrupt takes messages out of the stack, and
\* CAN_SendMessage no longer tries the mailbox itself once something waits:
\* while a message waits, a transmission or its interrupt must be pending.
NoStall == count # 0 \/ Locked => mailbox # NoMsg \/ intpnd

\* A message CAN_SendMessage accepted is sent on the bus sooner or later
\* (or thrown away by a clear or a re-initialisation).
AcceptedIsSent ==
  \A m \in Msg :
    m \in InStack \/ m = mailbox ~> wire = m \/ m \in lost \/ Renewed

\* SetupCAN discards everything; what comes after it is no longer a FIFO.
Abstract == INSTANCE LossyFifo WITH
  Capacity <- MAX_STACK_MSG_TX - 2, None <- NoMsg,
  queue <- IF Renewed THEN <<>> ELSE Waiting, taken <- loaded

\* Until then the stack and the direct path implement a bounded FIFO in front of the
\* mailbox.
ImplementsFifo == Abstract!Spec
=============================================================================
