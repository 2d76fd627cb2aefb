-------------------------------- MODULE CanRx --------------------------------
(***************************************************************************)
(* The receive side of one CAN line (src/can.c): the message boxes of the  *)
(* controller, the interrupt handler CAN_x_IRQ that empties them into the  *)
(* software stack stackMsgRcv/ptrMsgRcv, and the main loop that takes the  *)
(* messages with CAN_ReceiveMessage or re-initialises the stacks with      *)
(* SetupCAN.  The three lines run the same code on copies of this state.   *)
(*                                                                         *)
(* The processor is single: the handler runs to its end before the main    *)
(* loop continues, and never inside DisInterrupt..EnInterrupt.  Only the   *)
(* controller works while the handler runs.                                *)
(***************************************************************************)
EXTENDS MessageRing, FiniteSets

CONSTANTS
  MAX_STACK_MSG_RX,  \* slots of stackMsgRcv
  SINGLE_BOXES,      \* boxes with EOB set that stand alone: NMT and SYNC
  LAST_BOX,          \* last receive box; SINGLE_BOXES+1..LAST_BOX chain up
  TIME_OUT_CAN,      \* ticks of silence after which a line counts as dead
  FRAMES,            \* bound: frames of each group the bus carries
  SINGLE_FRAMES,     \* ... and, when that is less, of a single box
  BURST,             \* bound: frames that fit into one turn of the handler
  SETUPS,            \* bound: SetupCAN calls on the live line
  NoMsg

ASSUME RxAssumption ==
  /\ MAX_STACK_MSG_RX \in Nat /\ MAX_STACK_MSG_RX >= 3
  /\ SINGLE_BOXES \in Nat /\ LAST_BOX \in Nat /\ SINGLE_BOXES < LAST_BOX
  /\ TIME_OUT_CAN \in Nat \ {0}
  /\ FRAMES \in Nat /\ SINGLE_FRAMES \in Nat /\ BURST \in Nat /\ SETUPS \in Nat

Slots  == 0 .. MAX_STACK_MSG_RX - 1
Boxes  == 1 .. LAST_BOX
\* Boxes 1..SINGLE_BOXES receive one identifier each; the others share the
\* node filter.  A group is the set of frames that compete for the same boxes.
Groups == 1 .. SINGLE_BOXES + 1
Msg    == [grp : Groups, ser : 1 .. FRAMES]

ASSUME NoMsgAssumption == NoMsg \notin Msg

VARIABLES
  sent,      \* per group, how many frames the bus has carried
  box,       \* message boxes: content (NoMsg: NEWDAT clear) and MSGLST
  isr,       \* box the handler looks at, 0 when it does not run
  burst,     \* frames that arrived since the handler's last step
  stack,     \* stackMsgRcv
  st, end, count,  \* ptrMsgRcv
  canTimer,  \* TimerCanX
  pc,        \* where the main loop is
  reg,       \* the caller's message: header and data are copied apart
  cfgBox,    \* box CAN_ConfigMsgBox sets up next
  setups,    \* SetupCAN calls on the live line so far
  got,       \* history: last message CAN_ReceiveMessage returned before that
  delivered, \* history: all the messages it returned
  gone,      \* history: lost by overrun, full stack or discarded
  resent     \* history: messages read while their box reported MSGLST

\* SetupCAN has run on the live line.
Renewed == setups > 0

hw   == <<sent, box, burst>>
ring == <<stack, st, end, count>>
cfg  == <<cfgBox, setups>>
hist == <<got, delivered, gone, resent>>
vars == <<hw, isr, ring, canTimer, pc, reg, cfg, hist>>

GroupOf(b)   == IF b <= SINGLE_BOXES THEN b ELSE SINGLE_BOXES + 1
BoxesOf(g)   == {b \in Boxes : GroupOf(b) = g}
EndOfBuffer(b) == b <= SINGLE_BOXES \/ b = LAST_BOX
Pending(b)   == box[b].msg # NoMsg

\* The messages waiting in the stack, oldest first.
Waiting == Segment(stack, st, count, MAX_STACK_MSG_RX)
InStack  == {Waiting[i] : i \in 1 .. count}
InBoxes  == {box[b].msg : b \in Boxes} \ {NoMsg}
OnBus    == {m \in Msg : m.ser <= sent[m.grp]}

Init ==
  /\ sent = [g \in Groups |-> 0]
  /\ box = [b \in Boxes |-> [msg |-> NoMsg, lost |-> FALSE]]
  /\ isr = 0 /\ burst = 0
  /\ stack = [s \in Slots |-> NoMsg]
  /\ st = 0 /\ end = 0 /\ count = 0
  /\ canTimer = 0
  /\ pc = "idle" /\ reg = [hd |-> NoMsg, dt |-> NoMsg] /\ cfgBox = 1 /\ setups = 0
  /\ got = NoMsg /\ delivered = {} /\ gone = {} /\ resent = {}

-----------------------------------------------------------------------------
(* The controller (external).  A frame goes to the first free box of its   *)
(* group; when none is free it overwrites the last one and sets MSGLST.    *)

AcceptedBy(g, b) ==
  IF \E c \in BoxesOf(g) : ~Pending(c)
  THEN ~Pending(b) /\ \A c \in BoxesOf(g) : ~Pending(c) => b <= c
  ELSE EndOfBuffer(b)

FrameArrives(g) ==
  /\ sent[g] < FRAMES
  /\ g <= SINGLE_BOXES => sent[g] < SINGLE_FRAMES
  /\ isr # 0 => burst < BURST
  /\ sent' = [sent EXCEPT ![g] = @ + 1]
  /\ \E b \in BoxesOf(g) :
       /\ AcceptedBy(g, b)
       /\ box' = [box EXCEPT ![b] = [msg |-> [grp |-> g, ser |-> sent[g] + 1],
                                     lost |-> Pending(b)]]
       /\ gone' = IF Pending(b) THEN gone \cup {box[b].msg} ELSE gone
  /\ burst' = IF isr = 0 THEN 0 ELSE burst + 1
  /\ UNCHANGED <<isr, ring, canTimer, pc, reg, cfg, got, delivered, resent>>

-----------------------------------------------------------------------------
(* CAN_x_IRQ, receive branch.                                              *)

\* INTRx names the lowest box with a pending interrupt.
IsrEnter ==
  /\ isr = 0
  /\ \E b \in Boxes :
       /\ Pending(b) /\ \A c \in Boxes : Pending(c) => b <= c
       /\ isr' = b
  /\ burst' = 0
  /\ UNCHANGED <<sent, box, ring, canTimer, pc, reg, cfg, hist>>

\* Mistake: the limit is not tested.
Bug_StoreNoLimit(m) ==
  /\ stack' = [stack EXCEPT ![end] = m]
  /\ end' = After(end, MAX_STACK_MSG_RX)
  /\ count' = count + 1
  /\ gone' = gone

\* Mistake: the counter is forgotten.
Bug_StoreNoCount(m) ==
  /\ stack' = [stack EXCEPT ![end] = m]
  /\ end' = After(end, MAX_STACK_MSG_RX)
  /\ UNCHANGED <<count, gone>>

\* The message goes to the stack unless that is full.
Store(m) ==
  IF count < MAX_STACK_MSG_RX - 2
  THEN /\ stack' = [stack EXCEPT ![end] = m]
       /\ end' = After(end, MAX_STACK_MSG_RX)
       /\ count' = count + 1
       /\ gone' = gone
  ELSE /\ gone' = gone \cup {m}
       /\ UNCHANGED <<stack, end, count>>

\* One turn of the while loop: the box is read, which clears NEWDAT and
\* INTPND; when it reports MSGLST its control word is written back, which may
\* raise NEWDAT once more.
IsrRead ==
  /\ isr # 0
  /\ Pending(isr)
  /\ \E again \in BOOLEAN :
       box' = [box EXCEPT ![isr] =
                 IF @.lost /\ again THEN [@ EXCEPT !.lost = FALSE]
                 ELSE [msg |-> NoMsg, lost |-> FALSE]]
  /\ resent' = IF box[isr].lost THEN resent \cup {box[isr].msg} ELSE resent
  /\ Store(box[isr].msg)
  /\ canTimer' = TIME_OUT_CAN
  /\ isr' = IF EndOfBuffer(isr) THEN 0 ELSE isr + 1
  /\ burst' = 0
  /\ UNCHANGED <<sent, st, pc, reg, cfg, got, delivered>>

\* The next box of the chain holds nothing new: the handler returns.
IsrLeave ==
  /\ isr # 0
  /\ ~Pending(isr)
  /\ isr' = 0
  /\ burst' = 0
  /\ UNCHANGED <<sent, box, ring, canTimer, pc, reg, cfg, hist>>
-----------------------------------------------------------------------------
(* The main loop.  It moves only while the handler does not run.           *)

MainRuns(from, to) ==
  /\ isr = 0
  /\ pc = from
  /\ pc' = to

\* Mistake: off by one, a single message is not seen.
Bug_ReceiveTest ==
  /\ MainRuns("idle", "header")
  /\ count > 1
  /\ UNCHANGED <<hw, isr, ring, canTimer, reg, cfg, hist>>

\* CAN_ReceiveMessage: the test of count, without the interrupt lock.
ReceiveTest ==
  /\ MainRuns("idle", "header")
  /\ count # 0
  /\ UNCHANGED <<hw, isr, ring, canTimer, reg, cfg, hist>>

\* Identifier, length and RTR are copied, then the data, still unlocked.
CopyHeader ==
  /\ MainRuns("header", "data")
  /\ reg' = [reg EXCEPT !.hd = stack[st]]
  /\ UNCHANGED <<hw, isr, ring, canTimer, cfg, hist>>

CopyData ==
  /\ MainRuns("data", "pop")
  /\ reg' = [reg EXCEPT !.dt = stack[st]]
  /\ UNCHANGED <<hw, isr, ring, canTimer, cfg, hist>>

\* Mistake: the counter goes down, the read index stays.
Bug_Pop ==
  /\ MainRuns("pop", "idle")
  /\ count' = count - 1
  /\ got' = IF Renewed THEN got ELSE reg.dt
  /\ delivered' = delivered \cup {reg.dt}
  /\ reg' = [hd |-> NoMsg, dt |-> NoMsg]
  /\ UNCHANGED <<hw, isr, stack, st, end, canTimer, cfg, gone, resent>>

\* The slot is released under the lock and the message is returned.
Pop ==
  /\ MainRuns("pop", "idle")
  /\ st' = After(st, MAX_STACK_MSG_RX)
  /\ count' = count - 1
  /\ got' = IF Renewed THEN got ELSE reg.dt
  /\ delivered' = delivered \cup {reg.dt}
  /\ reg' = [hd |-> NoMsg, dt |-> NoMsg]
  /\ UNCHANGED <<hw, isr, stack, end, canTimer, cfg, gone, resent>>

\* Mistake: end is not reset.
Bug_ClearRX_BUFF ==
  /\ MainRuns("idle", "idle")
  /\ count # 0
  /\ st' = 0 /\ count' = 0
  /\ gone' = gone \cup InStack
  /\ UNCHANGED <<hw, isr, stack, end, canTimer, reg, cfg, got, delivered, resent>>

\* ClearRX_BUFF: the three indices are reset under the lock.
ClearRX_BUFF ==
  /\ MainRuns("idle", "idle")
  /\ count # 0
  /\ st' = 0 /\ end' = 0 /\ count' = 0
  /\ gone' = gone \cup InStack
  /\ UNCHANGED <<hw, isr, stack, canTimer, reg, cfg, got, delivered, resent>>

\* InitCanFifoBuf resets the same indices one by one without the lock.
SetupStart ==
  /\ MainRuns("idle", "setup_end")
  /\ setups < SETUPS /\ setups' = setups + 1
  /\ st' = 0
  /\ gone' = gone \cup InStack
  /\ UNCHANGED <<hw, isr, stack, end, count, canTimer, reg, cfgBox,
                 got, delivered, resent>>

SetupEnd ==
  /\ MainRuns("setup_end", "setup_count")
  /\ end' = 0
  /\ UNCHANGED <<hw, isr, stack, st, count, canTimer, reg, cfg, hist>>

SetupCount ==
  /\ MainRuns("setup_count", "config")
  /\ count' = 0
  /\ cfgBox' = 1
  /\ UNCHANGED <<hw, isr, stack, st, end, canTimer, reg, setups, hist>>

\* CAN_ConfigMsgBox writes every box with NEWDAT and MSGLST clear.
ConfigMsgBox ==
  /\ MainRuns("config", IF cfgBox = LAST_BOX THEN "idle" ELSE "config")
  /\ box' = [box EXCEPT ![cfgBox] = [msg |-> NoMsg, lost |-> FALSE]]
  /\ gone' = gone \cup ({box[cfgBox].msg} \ {NoMsg})
  /\ cfgBox' = IF cfgBox = LAST_BOX THEN 1 ELSE cfgBox + 1
  /\ UNCHANGED <<sent, burst, isr, ring, canTimer, reg, setups, got, delivered, resent>>

\* TimerService counts TimerCanX down.
Tick ==
  /\ canTimer > 0
  /\ canTimer' = canTimer - 1
  /\ UNCHANGED <<hw, isr, ring, pc, reg, cfg, hist>>

Receive == ReceiveTest \/ CopyHeader \/ CopyData \/ Pop
Setup   == SetupStart \/ SetupEnd \/ SetupCount \/ ConfigMsgBox
Isr     == IsrEnter \/ IsrRead \/ IsrLeave

Next ==
  \/ \E g \in Groups : FrameArrives(g)
  \/ Isr
  \/ Receive
  \/ ClearRX_BUFF
  \/ Setup
  \/ Tick

Spec == Init /\ [][Next]_vars

\* The interrupt is taken when it is pending and the main loop, which calls
\* receiveMsgHandler on every turn, runs when no handler does.
Fairness ==
  /\ WF_vars(Isr)
  /\ WF_vars(Receive)
  /\ WF_vars(SetupEnd \/ SetupCount \/ ConfigMsgBox)

FairSpec == Spec /\ Fairness

-----------------------------------------------------------------------------
(* Properties.                                                             *)

RingType ==
  /\ stack \in [Slots -> Msg \cup {NoMsg}]
  /\ st \in Slots /\ end \in Slots
  /\ count \in 0 .. MAX_STACK_MSG_RX - 2

HardwareType ==
  /\ sent \in [Groups -> 0 .. FRAMES]
  /\ box \in [Boxes -> [msg : Msg \cup {NoMsg}, lost : BOOLEAN]]
  /\ isr \in 0 .. LAST_BOX
  /\ burst \in 0 .. BURST

LoopType ==
  /\ canTimer \in 0 .. TIME_OUT_CAN
  /\ pc \in {"idle", "header", "data", "pop", "setup_end", "setup_count", "config"}
  /\ reg \in [hd : Msg \cup {NoMsg}, dt : Msg \cup {NoMsg}]
  /\ cfgBox \in Boxes /\ setups \in 0 .. SETUPS

HistoryType ==
  /\ got \in Msg \cup {NoMsg}
  /\ delivered \subseteq Msg \cup {NoMsg}
  /\ gone \subseteq Msg \cup {NoMsg} /\ resent \subseteq Msg

\* The indices and the counter stay inside the stack whatever interrupts
\* what (can.c CAN_x_IRQ, CAN_ReceiveMessage); the counter never wraps below 0.
TypeOK == RingType /\ HardwareType /\ LoopType /\ HistoryType

\* The three indices describe one segment of the ring: the handler, which
\* owns end, and the main loop, which owns st, agree through count on what
\* is stored (can.c CAN_x_IRQ and CAN_ReceiveMessage).
InStep == end = Wrap(st + count, MAX_STACK_MSG_RX)

\* ... until SetupCAN runs on the live line: InitCanFifoBuf has no lock.
RingConsistent == ~Renewed => InStep

\* CAN_ReceiveMessage copies a message without the lock; the handler may run
\* between the two halves and must not touch the slot: header and data come
\* from the same message.
NoTornMessage == ~Renewed /\ pc = "pop" => reg.hd = reg.dt /\ reg.dt # NoMsg

\* Messages of one group leave the controller in the order of the bus, though
\* new frames fill boxes the handler has already emptied; only a message whose
\* box was overrun may be seen out of its place.
InOrder ==
  \A j \in 1 .. count :
    Renewed \/ Waiting[j] \in resent \/
    /\ \A i \in 1 .. j - 1 :
         Waiting[i].grp = Waiting[j].grp => Waiting[i].ser < Waiting[j].ser
    /\ \A m \in delivered :
         m.grp = Waiting[j].grp => m.ser < Waiting[j].ser

\* No frame disappears: whatever the bus carried was delivered, waits in a box
\* or in the stack, or was lost for one of the reasons the code accepts.
Accounted ==
  ~Renewed => OnBus \subseteq delivered \cup gone \cup InStack \cup InBoxes

\* A message that reached the stack is eventually handed to the main loop
\* (or thrown away by a re-initialisation).
StoredIsDelivered ==
  \A m \in Msg : m \in InStack ~> m \in delivered \cup gone \/ Renewed

\* SetupCAN discards everything; what comes after it is no longer a FIFO.
Abstract == INSTANCE LossyFifo WITH
  Capacity <- MAX_STACK_MSG_RX - 2, None <- NoMsg,
  queue <- IF Renewed THEN <<>> ELSE Waiting, taken <- got

\* Until then the stack implements a bounded FIFO of MAX_STACK_MSG_RX - 2
\* messages.
ImplementsFifo == Abstract!Spec
=============================================================================
