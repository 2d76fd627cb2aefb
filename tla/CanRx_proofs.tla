----------------------------- MODULE CanRx_proofs -----------------------------
(***************************************************************************)
(* Theorems about CanRx, for every stack size, number of boxes and number  *)
(* of frames.  Type correctness holds through every re-initialisation of   *)
(* the live line; the integrity of the messages and of their order until   *)
(* the first one.                                                          *)
(***************************************************************************)
EXTENDS CanRx, MessageRing_proofs

\* The facts about the constant sets the proofs rest on.
LEMMA SetFacts ==
  /\ NoMsg \notin Msg /\ 0 \in Slots /\ 1 \in Boxes
  /\ \A b \in Boxes : b \in 0 .. LAST_BOX /\ b # 0
  /\ \A b \in Boxes : b # LAST_BOX => b + 1 \in Boxes
  /\ \A g \in Groups : \A n \in 1 .. FRAMES : [grp |-> g, ser |-> n] \in Msg
  BY RxAssumption, NoMsgAssumption
     DEF RxAssumption, NoMsgAssumption, Msg, Slots, Boxes

\* The stack is one in the sense of MessageRing_proofs.
LEMMA IsStack ==
  ASSUME RingType
  PROVE  Stack(Msg \cup {NoMsg}, stack, st, count, MAX_STACK_MSG_RX)
  BY RxAssumption DEF RxAssumption, RingType, Slots, Stack

LEMMA IndexSteps ==
  ASSUME RingType
  PROVE  /\ After(st, MAX_STACK_MSG_RX) \in Slots
         /\ After(end, MAX_STACK_MSG_RX) \in Slots
  BY RxAssumption DEF RingType, Slots, RxAssumption, After, Wrap

LEMMA InStackType ==
  ASSUME RingType
  PROVE  InStack \subseteq Msg \cup {NoMsg}
<1>1. Waiting \in Seq(Msg \cup {NoMsg}) /\ Len(Waiting) = count
  BY IsStack, SegmentSeq DEF Waiting
<1> QED
  BY <1>1 DEF InStack

\* TypeOK alone is not inductive: while the main loop is inside
\* CAN_ReceiveMessage the counter it tested must still be positive, or the
\* decrement at its end would wrap it.
StillThere == pc \in {"header", "data", "pop"} => count # 0
TypeInv == TypeOK /\ StillThere

LEMMA TypeInvariant == Spec => []TypeInv
<1>1. Init => TypeInv
  <2> SUFFICES ASSUME Init PROVE TypeInv
    OBVIOUS
  <2>1. RingType
    BY RxAssumption, SetFacts DEF Init, RingType, RxAssumption
  <2>2. HardwareType
    BY RxAssumption DEF Init, HardwareType, RxAssumption
  <2>3. LoopType
    BY RxAssumption, SetFacts DEF Init, LoopType, RxAssumption
  <2>4. HistoryType /\ StillThere
    BY DEF Init, HistoryType, StillThere
  <2> QED
    BY <2>1, <2>2, <2>3, <2>4 DEF TypeInv, TypeOK
<1>2. TypeInv /\ [Next]_vars => TypeInv'
  <2> SUFFICES ASSUME TypeInv, [Next]_vars
               PROVE  TypeInv'
    OBVIOUS
  <2>0. RingType /\ HardwareType /\ LoopType /\ HistoryType /\ StillThere
    BY DEF TypeInv, TypeOK
  <2> USE <2>0, SetFacts DEF MainRuns, ring, hw, hist, cfg
  <2>1. ASSUME NEW g \in Groups, FrameArrives(g)
        PROVE  TypeInv'
    <3>1. PICK b \in BoxesOf(g) :
            /\ box' = [box EXCEPT ![b] = [msg |-> [grp |-> g, ser |-> sent[g] + 1],
                                          lost |-> Pending(b)]]
            /\ gone' = IF Pending(b) THEN gone \cup {box[b].msg} ELSE gone
      BY <2>1 DEF FrameArrives
    <3>2. sent[g] + 1 \in 1 .. FRAMES /\ b \in Boxes /\ Pending(b) \in BOOLEAN
      BY <2>1, RxAssumption DEF FrameArrives, HardwareType, RxAssumption, BoxesOf,
                                Pending
    <3>3. sent' \in [Groups -> 0 .. FRAMES]
      BY <2>1, <3>2 DEF FrameArrives, HardwareType
    <3>4. box' \in [Boxes -> [msg : Msg \cup {NoMsg}, lost : BOOLEAN]]
      <4>1. [msg |-> [grp |-> g, ser |-> sent[g] + 1], lost |-> Pending(b)]
              \in [msg : Msg \cup {NoMsg}, lost : BOOLEAN]
        BY <2>1, <3>2
      <4> QED
        BY <3>1, <4>1 DEF HardwareType
    <3>5. isr' \in 0 .. LAST_BOX /\ burst' \in 0 .. BURST
      BY <2>1, RxAssumption DEF FrameArrives, HardwareType, RxAssumption
    <3>6. HistoryType'
      <4>1. box[b].msg \in Msg \cup {NoMsg}
        BY <3>2 DEF HardwareType
      <4>2. gone' \subseteq Msg \cup {NoMsg}
        BY <3>1, <4>1 DEF HistoryType
      <4> QED
        BY <2>1, <4>2 DEF FrameArrives, HistoryType
    <3>7. RingType' /\ LoopType' /\ StillThere'
      BY <2>1 DEF FrameArrives, RingType, LoopType, StillThere
    <3> QED
      BY <3>3, <3>4, <3>5, <3>6, <3>7 DEF HardwareType, TypeInv, TypeOK
  <2>2. CASE IsrEnter
    <3>1. HardwareType'
      BY <2>2, RxAssumption DEF IsrEnter, HardwareType, RxAssumption
    <3>2. RingType' /\ LoopType' /\ HistoryType' /\ StillThere'
      BY <2>2 DEF IsrEnter, RingType, LoopType, HistoryType, StillThere
    <3> QED
      BY <3>1, <3>2 DEF TypeInv, TypeOK
  <2>3. CASE IsrRead
    <3>1. isr \in Boxes /\ box[isr].msg \in Msg
      BY <2>3, RxAssumption DEF IsrRead, Pending, HardwareType, Boxes, RxAssumption
    <3>2. RingType' /\ StillThere'
      BY <2>3, <3>1, IndexSteps, RxAssumption
         DEF IsrRead, Store, RingType, StillThere, RxAssumption
    <3>3. box' \in [Boxes -> [msg : Msg \cup {NoMsg}, lost : BOOLEAN]]
      <4>1. box[isr] \in [msg : Msg \cup {NoMsg}, lost : BOOLEAN]
        BY <3>1 DEF HardwareType
      <4>2. [box[isr] EXCEPT !.lost = FALSE]
              \in [msg : Msg \cup {NoMsg}, lost : BOOLEAN]
        BY <4>1
      <4>3. PICK again \in BOOLEAN :
              box' = [box EXCEPT ![isr] =
                        IF @.lost /\ again THEN [@ EXCEPT !.lost = FALSE]
                        ELSE [msg |-> NoMsg, lost |-> FALSE]]
        BY <2>3 DEF IsrRead
      <4> QED
        BY <4>2, <4>3 DEF HardwareType
    <3>4. isr' \in 0 .. LAST_BOX
      BY <2>3, <3>1, RxAssumption DEF IsrRead, EndOfBuffer, RxAssumption
    <3>5. HardwareType'
      BY <2>3, <3>3, <3>4, RxAssumption DEF IsrRead, HardwareType, RxAssumption
    <3>6. LoopType'
      BY <2>3, RxAssumption DEF IsrRead, LoopType, RxAssumption
    <3>7. HistoryType'
      BY <2>3, <3>1 DEF IsrRead, Store, HistoryType
    <3> QED
      BY <3>2, <3>5, <3>6, <3>7 DEF TypeInv, TypeOK
  <2>4. CASE IsrLeave
    <3>1. HardwareType'
      BY <2>4, RxAssumption DEF IsrLeave, HardwareType, RxAssumption
    <3>2. RingType' /\ LoopType' /\ HistoryType' /\ StillThere'
      BY <2>4 DEF IsrLeave, RingType, LoopType, HistoryType, StillThere
    <3> QED
      BY <3>1, <3>2 DEF TypeInv, TypeOK
  <2>5. CASE ReceiveTest
    BY <2>5 DEF ReceiveTest, TypeInv, TypeOK, RingType, HardwareType, LoopType,
                HistoryType, StillThere
  <2>6. CASE CopyHeader \/ CopyData
    <3>1. stack[st] \in Msg \cup {NoMsg}
      BY DEF RingType
    <3>2. LoopType' /\ StillThere'
      BY <2>6, <3>1 DEF CopyHeader, CopyData, LoopType, StillThere
    <3>3. RingType' /\ HardwareType' /\ HistoryType'
      BY <2>6 DEF CopyHeader, CopyData, RingType, HardwareType, HistoryType
    <3> QED
      BY <3>2, <3>3 DEF TypeInv, TypeOK
  <2>7. CASE Pop
    <3>1. count # 0
      BY <2>7 DEF Pop, StillThere
    <3>2. RingType'
      BY <2>7, <3>1, IndexSteps, RxAssumption DEF Pop, RingType, RxAssumption
    <3>3. reg.dt \in Msg \cup {NoMsg}
      BY DEF LoopType
    <3>4. LoopType' /\ HistoryType' /\ StillThere'
      BY <2>7, <3>3 DEF Pop, LoopType, HistoryType, StillThere
    <3>5. HardwareType'
      BY <2>7 DEF Pop, HardwareType
    <3> QED
      BY <3>2, <3>4, <3>5 DEF TypeInv, TypeOK
  <2>8. CASE ClearRX_BUFF \/ SetupStart \/ SetupEnd \/ SetupCount
    <3>1. RingType'
      BY <2>8, RxAssumption
         DEF ClearRX_BUFF, SetupStart, SetupEnd, SetupCount, RingType, RxAssumption
    <3>2. HardwareType'
      BY <2>8 DEF ClearRX_BUFF, SetupStart, SetupEnd, SetupCount, HardwareType
    <3>3. LoopType' /\ StillThere'
      BY <2>8, RxAssumption DEF RxAssumption, ClearRX_BUFF, SetupStart, SetupEnd, SetupCount, LoopType,
                  StillThere
    <3>4. HistoryType'
      BY <2>8, InStackType
         DEF ClearRX_BUFF, SetupStart, SetupEnd, SetupCount, HistoryType
    <3> QED
      BY <3>1, <3>2, <3>3, <3>4 DEF TypeInv, TypeOK
  <2>9. CASE ConfigMsgBox
    <3>1. cfgBox \in Boxes /\ cfgBox' \in Boxes
      BY <2>9 DEF ConfigMsgBox, LoopType
    <3>2. HardwareType'
      BY <2>9, <3>1 DEF ConfigMsgBox, HardwareType
    <3>3. LoopType' /\ StillThere'
      BY <2>9, <3>1 DEF ConfigMsgBox, LoopType, StillThere
    <3>4. HistoryType'
      <4>1. box[cfgBox].msg \in Msg \cup {NoMsg}
        BY <3>1 DEF HardwareType
      <4> QED
        BY <2>9, <4>1 DEF ConfigMsgBox, HistoryType
    <3>5. RingType'
      BY <2>9 DEF ConfigMsgBox, RingType
    <3> QED
      BY <3>2, <3>3, <3>4, <3>5 DEF TypeInv, TypeOK
  <2>10. CASE Tick
    <3>1. canTimer' \in 0 .. TIME_OUT_CAN
      BY <2>10, RxAssumption DEF Tick, LoopType, RxAssumption
    <3> QED
      BY <2>10, <3>1 DEF Tick, TypeInv, TypeOK, RingType, HardwareType, LoopType,
                         HistoryType, StillThere
  <2>11. CASE UNCHANGED vars
    BY <2>11 DEF vars, TypeInv, TypeOK, RingType, HardwareType, LoopType,
                 HistoryType, StillThere
  <2> QED
    BY <2>1, <2>2, <2>3, <2>4, <2>5, <2>6, <2>7, <2>8, <2>9, <2>10, <2>11
       DEF Next, Isr, Receive, Setup
<1> QED
  BY <1>1, <1>2, PTL DEF Spec

\* The indices stay inside the stack, and the counter between 0 and its limit,
\* whatever the interleaving of the unlocked test and copy in
\* CAN_ReceiveMessage, the handler and InitCanFifoBuf.
THEOREM TypeCorrect == Spec => []TypeOK
<1>1. TypeInv => TypeOK
  BY DEF TypeInv
<1> QED
  BY <1>1, TypeInvariant, PTL

-----------------------------------------------------------------------------
(* Until SetupCAN runs on the live line.                                   *)

\* Only messages wait, and what CAN_ReceiveMessage has copied so far is the
\* message in the slot it will release.
CopyInv ==
  /\ pc = "data" => reg.hd = stack[st]
  /\ pc = "pop"  => reg.hd = stack[st] /\ reg.dt = stack[st]

InOneStack ==
  /\ InStep
  /\ pc \in {"idle", "header", "data", "pop"}
  /\ Waiting \in Seq(Msg)
  /\ CopyInv

RingInv == TypeInv /\ (Renewed \/ InOneStack)

\* Nothing takes the re-initialisation back.
LEMMA RenewedStays ==
  ASSUME TypeInv, Renewed, [Next]_vars
  PROVE  Renewed'
<1> USE DEF Renewed, MainRuns, cfg, TypeInv, TypeOK, LoopType
<1>1. CASE SetupStart
  BY <1>1, RxAssumption DEF SetupStart, RxAssumption
<1>2. CASE \/ \E g \in Groups : FrameArrives(g)
           \/ Isr \/ ClearRX_BUFF \/ Tick \/ UNCHANGED vars
  BY <1>2 DEF FrameArrives, Isr, IsrEnter, IsrRead, IsrLeave, ClearRX_BUFF, Tick, vars
<1>3. CASE Receive \/ SetupEnd \/ SetupCount \/ ConfigMsgBox
  BY <1>3 DEF Receive, ReceiveTest, CopyHeader, CopyData, Pop, SetupEnd,
              SetupCount, ConfigMsgBox
<1> QED
  BY <1>1, <1>2, <1>3 DEF Next, Setup

LEMMA WaitingUnchanged ==
  ASSUME UNCHANGED <<stack, st, count>>
  PROVE  Waiting' = Waiting
  BY DEF Waiting, Segment, Wrap

\* The handler stores behind the last message and touches no other slot.
LEMMA StoreStep ==
  ASSUME RingType, InStep, NEW m \in Msg, Store(m), st' = st
  PROVE  /\ InStep'
         /\ \/ Waiting' = Waiting
            \/ Len(Waiting) < MAX_STACK_MSG_RX - 2 /\ Waiting' = Append(Waiting, m)
         /\ count # 0 => stack'[st] = stack[st]
<1>1. CASE ~(count < MAX_STACK_MSG_RX - 2)
  BY <1>1, WaitingUnchanged DEF Store, InStep, Wrap
<1>2. CASE count < MAX_STACK_MSG_RX - 2
  <2>1. /\ stack' = Write(stack, Wrap(st + count, MAX_STACK_MSG_RX), m)
        /\ end' = After(end, MAX_STACK_MSG_RX) /\ count' = count + 1
    BY <1>2 DEF Store, InStep, Write
  <2>2. InStep'
    <3>1. After(end, MAX_STACK_MSG_RX) = Wrap(st + (count + 1), MAX_STACK_MSG_RX)
      BY RxAssumption
         DEF RingType, InStep, After, Wrap, Slots, RxAssumption
    <3> QED
      BY <2>1, <3>1 DEF InStep, Wrap
  <2>3. Waiting' = Append(Waiting, m)
    <3>1. Stack(Msg \cup {NoMsg}, stack, st, count, MAX_STACK_MSG_RX)
      BY IsStack
    <3>2. count < MAX_STACK_MSG_RX /\ m \in Msg \cup {NoMsg}
      BY <1>2, RxAssumption DEF RingType, RxAssumption
    <3>3. Segment(Write(stack, Wrap(st + count, MAX_STACK_MSG_RX), m),
                  st, count + 1, MAX_STACK_MSG_RX)
          = Append(Segment(stack, st, count, MAX_STACK_MSG_RX), m)
      BY <3>1, <3>2, SegmentAppend
    <3> QED
      BY <2>1, <3>3 DEF Waiting
  <2>4. Len(Waiting) = count
    BY IsStack, SegmentSeq DEF Waiting
  <2>5. count # 0 => stack'[st] = stack[st]
    <3>1. count # 0 => Wrap(st + count, MAX_STACK_MSG_RX) # st
      BY <1>2, RxAssumption DEF RingType, Wrap, Slots, RxAssumption
    <3> QED
      BY <2>1, <3>1 DEF Write, RingType
  <2> QED
    BY <1>2, <2>2, <2>3, <2>4, <2>5
<1> QED
  BY <1>1, <1>2

\* CAN_ReceiveMessage removes the oldest message.
LEMMA PopStep ==
  ASSUME RingType, InStep, count # 0,
         stack' = stack, end' = end,
         st' = After(st, MAX_STACK_MSG_RX), count' = count - 1
  PROVE  /\ InStep'
         /\ Waiting # <<>> /\ Head(Waiting) = stack[st]
         /\ Waiting' = Tail(Waiting)
<1>1. InStep'
  <2>1. end = Wrap(After(st, MAX_STACK_MSG_RX) + (count - 1), MAX_STACK_MSG_RX)
    BY RxAssumption
       DEF RingType, InStep, After, Wrap, Slots, RxAssumption
  <2> QED
    BY <2>1 DEF InStep, Wrap
<1>2. Stack(Msg \cup {NoMsg}, stack, st, count, MAX_STACK_MSG_RX)
  BY IsStack
<1> QED
  BY <1>1, <1>2, SegmentTail DEF Waiting

LEMMA RingInvariant == Spec => []RingInv
<1>1. Init /\ TypeInv => RingInv
  <2> SUFFICES ASSUME Init, TypeInv PROVE RingInv
    OBVIOUS
  <2>1. Waiting = <<>>
    BY SegmentEmpty DEF Init, Waiting
  <2> QED
    BY <2>1, RxAssumption DEF Init, RingInv, InOneStack, InStep, CopyInv, Wrap, RxAssumption
<1>2. RingInv /\ TypeInv' /\ [Next]_vars => RingInv'
  <2> SUFFICES ASSUME RingInv, TypeInv', [Next]_vars, ~Renewed, ~Renewed'
               PROVE  InOneStack'
    BY RenewedStays DEF RingInv
  <2>0. /\ RingType /\ HardwareType /\ LoopType /\ StillThere /\ InStep
        /\ pc \in {"idle", "header", "data", "pop"}
        /\ Waiting \in Seq(Msg) /\ CopyInv
    BY DEF RingInv, InOneStack, TypeInv, TypeOK
  <2> USE <2>0 DEF MainRuns, ring, hw, hist, cfg
  <2>1. ASSUME UNCHANGED <<ring, pc, reg>>
        PROVE  InOneStack'
    BY <2>1, WaitingUnchanged DEF InOneStack, InStep, CopyInv, Wrap
  <2>2. CASE (\E g \in Groups : FrameArrives(g)) \/ IsrEnter \/ IsrLeave \/ Tick
    BY <2>1, <2>2 DEF FrameArrives, IsrEnter, IsrLeave, Tick
  <2>3. CASE IsrRead
    <3>1. box[isr].msg \in Msg
      BY <2>3, RxAssumption, SetFacts
         DEF IsrRead, Pending, HardwareType, Boxes, RxAssumption
    <3>2. Store(box[isr].msg) /\ st' = st /\ pc' = pc /\ reg' = reg
      BY <2>3 DEF IsrRead
    <3>3. InStep' /\ Waiting' \in Seq(Msg)
      BY <3>1, <3>2, StoreStep
    <3>4. count # 0 => stack'[st] = stack[st]
      BY <3>1, <3>2, StoreStep
    <3>5. CopyInv'
      BY <3>2, <3>4 DEF CopyInv, StillThere
    <3> QED
      BY <3>2, <3>3, <3>5 DEF InOneStack
  <2>4. CASE ReceiveTest \/ CopyHeader \/ CopyData
    <3>1. Waiting' = Waiting
      BY <2>4, WaitingUnchanged DEF ReceiveTest, CopyHeader, CopyData
    <3>2. CopyInv'
      BY <2>4 DEF ReceiveTest, CopyHeader, CopyData, CopyInv, LoopType
    <3> QED
      BY <2>4, <3>1, <3>2
         DEF ReceiveTest, CopyHeader, CopyData, InOneStack, InStep, Wrap
  <2>5. CASE Pop
    <3>1. count # 0
      BY <2>5 DEF Pop, StillThere
    <3>2. InStep' /\ Waiting' = Tail(Waiting) /\ Waiting # <<>>
      BY <2>5, <3>1, PopStep DEF Pop
    <3> QED
      BY <2>5, <3>2 DEF Pop, InOneStack, CopyInv
  <2>6. CASE ClearRX_BUFF
    <3>1. Waiting' = <<>>
      BY <2>6, SegmentEmpty DEF ClearRX_BUFF, Waiting, Segment
    <3> QED
      BY <2>6, <3>1, RxAssumption
         DEF ClearRX_BUFF, InOneStack, InStep, CopyInv, Wrap, RxAssumption
  <2>7. ~Setup
    BY RxAssumption DEF Setup, SetupStart, SetupEnd, SetupCount, ConfigMsgBox,
                        Renewed, LoopType, RxAssumption
  <2>8. CASE UNCHANGED vars
    BY <2>1, <2>8 DEF vars
  <2> QED
    BY <2>2, <2>3, <2>4, <2>5, <2>6, <2>7, <2>8 DEF Next, Isr, Receive
<1> QED
  BY <1>1, <1>2, TypeInvariant, PTL DEF Spec

\* Reader index, writer index and counter always describe one segment.
THEOREM RingStaysConsistent == Spec => []RingConsistent
<1>1. RingInv => RingConsistent
  BY DEF RingInv, InOneStack, RingConsistent
<1> QED
  BY <1>1, RingInvariant, PTL

\* The copy CAN_ReceiveMessage makes without the lock is never torn by the
\* handler, at any stack size: header and data belong to one message.
THEOREM NeverTorn == Spec => []NoTornMessage
<1>1. RingInv => NoTornMessage
  <2> SUFFICES ASSUME RingInv, ~Renewed, pc = "pop"
               PROVE  reg.hd = reg.dt /\ reg.dt # NoMsg
    BY DEF NoTornMessage
  <2>1. RingType /\ count # 0 /\ Waiting \in Seq(Msg)
    BY DEF RingInv, InOneStack, TypeInv, TypeOK, StillThere
  <2>2. Stack(Msg \cup {NoMsg}, stack, st, count, MAX_STACK_MSG_RX)
    BY <2>1, IsStack
  <2>3. Waiting # <<>> /\ Head(Waiting) = stack[st]
    BY <2>1, <2>2, SegmentTail DEF Waiting
  <2>4. stack[st] \in Msg
    BY <2>1, <2>3
  <2> QED
    BY <2>4, SetFacts DEF RingInv, InOneStack, CopyInv
<1> QED
  BY <1>1, RingInvariant, PTL

\* Handler and CAN_ReceiveMessage together implement a bounded first-in
\* first-out queue: a message waits until its turn, is delivered once and is
\* lost only when MAX_STACK_MSG_RX - 2 wait already or the stack is cleared.
THEOREM RefinesFifo == Spec => ImplementsFifo
<1> DEFINE queue == IF Renewed THEN <<>> ELSE Waiting
<1>1. Init => Abstract!Init
  BY SegmentEmpty DEF Init, Abstract!Init, Waiting
<1>2. RingInv /\ [Next]_vars => [Abstract!Next]_(Abstract!vars)
  <2> SUFFICES ASSUME RingInv, [Next]_vars
               PROVE  Abstract!Next \/ UNCHANGED <<queue, got>>
    BY DEF Abstract!vars
  <2>10. CASE Renewed
    <3>1. Renewed'
      BY <2>10, RenewedStays DEF RingInv
    <3>2. got' = got
      BY <2>10 DEF Next, FrameArrives, Isr, IsrEnter, IsrRead, IsrLeave, Receive,
                  ReceiveTest, CopyHeader, CopyData, Pop, ClearRX_BUFF, Setup,
                  SetupStart, SetupEnd, SetupCount, ConfigMsgBox, Tick, vars, hist
    <3> QED
      BY <2>10, <3>1, <3>2
  <2>11. CASE ~Renewed /\ Renewed'
    <3>1. SetupStart
      BY <2>11 DEF Next, FrameArrives, Isr, IsrEnter, IsrRead, IsrLeave, Receive,
                  ReceiveTest, CopyHeader, CopyData, Pop, ClearRX_BUFF, Setup,
                  SetupEnd, SetupCount, ConfigMsgBox, Tick, vars, cfg, Renewed
    <3> QED
      BY <2>11, <3>1 DEF SetupStart, Abstract!Next, Abstract!Discard
  <2> SUFFICES ASSUME ~Renewed, ~Renewed'
               PROVE  Abstract!Next \/ UNCHANGED <<Waiting, got>>
    BY <2>10, <2>11
  <2>0. /\ RingType /\ HardwareType /\ StillThere /\ InStep
        /\ pc \in {"idle", "header", "data", "pop"} /\ CopyInv
    BY DEF RingInv, InOneStack, TypeInv, TypeOK
  <2> USE <2>0 DEF MainRuns, ring, hist, cfg, Abstract!Next
  <2>1. CASE \/ \E g \in Groups : FrameArrives(g)
             \/ IsrEnter \/ IsrLeave \/ Tick
             \/ ReceiveTest \/ CopyHeader \/ CopyData
    BY <2>1, WaitingUnchanged
       DEF FrameArrives, IsrEnter, IsrLeave, Tick, ReceiveTest, CopyHeader, CopyData
  <2>2. CASE IsrRead
    <3>1. box[isr].msg \in Msg
      BY <2>2, RxAssumption, SetFacts
         DEF IsrRead, Pending, HardwareType, Boxes, RxAssumption
    <3>2. Store(box[isr].msg) /\ st' = st /\ got' = got
      BY <2>2 DEF IsrRead
    <3>3. \/ Waiting' = Waiting
          \/ /\ Len(Waiting) < MAX_STACK_MSG_RX - 2
             /\ Waiting' = Append(Waiting, box[isr].msg)
      BY <3>1, <3>2, StoreStep
    <3> QED
      BY <3>1, <3>2, <3>3 DEF Abstract!Accept
  <2>3. CASE Pop
    <3>1. count # 0 /\ got' = stack[st]
      BY <2>3 DEF Pop, StillThere, CopyInv
    <3>2. /\ Waiting # <<>> /\ Head(Waiting) = stack[st]
          /\ Waiting' = Tail(Waiting)
      BY <2>3, <3>1, PopStep DEF Pop
    <3> QED
      BY <3>1, <3>2 DEF Abstract!Take
  <2>4. CASE ClearRX_BUFF
    <3>1. Waiting' = <<>> /\ got' = got
      BY <2>4, SegmentEmpty DEF ClearRX_BUFF, Waiting, Segment
    <3> QED
      BY <3>1 DEF Abstract!Discard
  <2>5. ~Setup
    BY RxAssumption DEF Setup, SetupStart, SetupEnd, SetupCount, ConfigMsgBox,
                        Renewed, RingInv, TypeInv, TypeOK, LoopType, RxAssumption
  <2>6. CASE UNCHANGED vars
    BY <2>6, WaitingUnchanged DEF vars
  <2> QED
    BY <2>1, <2>2, <2>3, <2>4, <2>5, <2>6 DEF Next, Isr, Receive
<1> QED
  BY <1>1, <1>2, RingInvariant, PTL DEF Spec, ImplementsFifo, Abstract!Spec

-----------------------------------------------------------------------------
(* Every frame accounted for, and the order of the bus, until SetupCAN.    *)

\* The stack as a set of messages.
LEMMA InStackIs ==
  ASSUME RingType
  PROVE  /\ Len(Waiting) = count /\ count \in Nat
         /\ InStack = {Waiting[i] : i \in 1 .. count}
<1>1. Len(Waiting) = count
  BY IsStack, SegmentSeq DEF Waiting
<1> QED
  BY <1>1 DEF InStack, RingType

\* What the handler stores is in the stack or counted as lost.
LEMMA StoredSet ==
  ASSUME RingType, InStep, Waiting \in Seq(Msg), NEW m \in Msg, Store(m), st' = st
  PROVE  \/ /\ count' = count /\ Waiting' = Waiting
            /\ InStack' = InStack /\ gone' = gone \cup {m}
         \/ /\ count' = count + 1 /\ gone' = gone
            /\ \A i \in 1 .. count : Waiting'[i] = Waiting[i]
            /\ Waiting'[count + 1] = m
            /\ InStack' = InStack \cup {m}
<1>1. CASE ~(count < MAX_STACK_MSG_RX - 2)
  BY <1>1, WaitingUnchanged DEF Store, InStack
<1>2. CASE count < MAX_STACK_MSG_RX - 2
  <2>1. Waiting' = Waiting \/ Waiting' = Append(Waiting, m)
    BY StoreStep
  <2>2. count' = count + 1 /\ gone' = gone /\ count \in Nat
    BY <1>2 DEF Store, RingType
  <2>3. Len(Waiting) = count
    BY InStackIs
  <2>4. Waiting' = Append(Waiting, m)
    <3>1. /\ stack' = Write(stack, Wrap(st + count, MAX_STACK_MSG_RX), m)
          /\ st' = st
      BY <1>2 DEF Store, InStep, Write
    <3>2. Stack(Msg \cup {NoMsg}, stack, st, count, MAX_STACK_MSG_RX)
      BY IsStack
    <3>3. count < MAX_STACK_MSG_RX /\ m \in Msg \cup {NoMsg}
      BY <1>2, RxAssumption DEF RingType, RxAssumption
    <3>4. Segment(Write(stack, Wrap(st + count, MAX_STACK_MSG_RX), m),
                  st, count + 1, MAX_STACK_MSG_RX)
          = Append(Segment(stack, st, count, MAX_STACK_MSG_RX), m)
      BY <3>2, <3>3, SegmentAppend
    <3> QED
      BY <2>2, <3>1, <3>4 DEF Waiting
  <2>5. /\ \A i \in 1 .. count : Waiting'[i] = Waiting[i]
        /\ Waiting'[count + 1] = m
    BY <2>3, <2>4, AppendProperties
  <2>6. InStack' = InStack \cup {m}
    <3>1. InStack' = {Waiting'[i] : i \in 1 .. count + 1}
      BY <2>2 DEF InStack
    <3>2. InStack = {Waiting[i] : i \in 1 .. count}
      BY DEF InStack
    <3>3. \A i \in 1 .. count + 1 : i \in 1 .. count \/ i = count + 1
      BY <2>2
    <3>4. (\A i \in 1 .. count : i \in 1 .. count + 1) /\ count + 1 \in 1 .. count + 1
      BY <2>2
    <3> QED
      BY <2>5, <3>1, <3>2, <3>3, <3>4, Zenon
  <2> QED
    BY <2>2, <2>5, <2>6
<1> QED
  BY <1>1, <1>2

\* What CAN_ReceiveMessage returns is the oldest message of the stack.
LEMMA PoppedSet ==
  ASSUME RingType, InStep, StillThere, CopyInv, Waiting \in Seq(Msg), Pop
  PROVE  /\ count' = count - 1 /\ count \in Nat \ {0}
         /\ reg.dt = Waiting[1]
         /\ \A i \in 1 .. count - 1 : Waiting'[i] = Waiting[i + 1]
         /\ InStack = InStack' \cup {reg.dt}
<1>1. count' = count - 1 /\ count \in Nat \ {0} /\ reg.dt = stack[st]
  BY DEF Pop, MainRuns, StillThere, CopyInv, RingType
<1>2. Waiting # <<>> /\ Head(Waiting) = stack[st] /\ Waiting' = Tail(Waiting)
  BY <1>1, PopStep DEF Pop
<1>3. Len(Waiting) = count
  BY InStackIs
<1>4. \A i \in 1 .. count - 1 : Waiting'[i] = Waiting[i + 1]
  BY <1>1, <1>2, <1>3, HeadTailProperties
<1>5. Waiting[1] = reg.dt
  BY <1>1, <1>2
<1>6. InStack = InStack' \cup {reg.dt}
  <2>1. InStack' = {Waiting'[i] : i \in 1 .. count - 1}
    BY <1>1 DEF InStack
  <2>2. InStack = {Waiting[i] : i \in 1 .. count}
    BY DEF InStack
  <2>3. ASSUME NEW i \in 1 .. count PROVE Waiting[i] \in InStack' \cup {reg.dt}
    <3>1. CASE i = 1
      BY <1>5, <3>1
    <3>2. CASE i # 1
      <4>1. i - 1 \in 1 .. count - 1 /\ (i - 1) + 1 = i
        BY <1>1, <3>2
      <4>2. Waiting'[i - 1] = Waiting[i]
        BY <1>4, <4>1
      <4> QED
        BY <2>1, <4>1, <4>2
    <3> QED
      BY <3>1, <3>2
  <2>4. ASSUME NEW i \in 1 .. count - 1 PROVE Waiting'[i] \in InStack
    <3>1. i + 1 \in 1 .. count
      BY <1>1
    <3> QED
      BY <1>4, <2>2, <3>1
  <2>5. reg.dt \in InStack
    BY <1>1, <1>5, <2>2
  <2> QED
    BY <2>1, <2>2, <2>3, <2>4, <2>5, Zenon
<1> QED
  BY <1>1, <1>4, <1>5, <1>6

\* What a read does to the boxes: the box is empty, or, when it reported
\* MSGLST, it may hold the same message once more.
LEMMA ReadStep ==
  ASSUME HardwareType, IsrRead
  PROVE  /\ isr \in Boxes /\ Pending(isr) /\ box[isr].msg \in Msg
         /\ \A b \in Boxes : b # isr => box'[b] = box[b]
         /\ box'[isr].lost = FALSE
         /\ \/ box'[isr].msg = NoMsg
            \/ box[isr].lost /\ box'[isr].msg = box[isr].msg
<1>1. isr \in Boxes /\ Pending(isr) /\ box[isr].msg \in Msg
  BY RxAssumption DEF IsrRead, Pending, HardwareType, Boxes, RxAssumption
<1>2. PICK again \in BOOLEAN :
        box' = [box EXCEPT ![isr] =
                  IF @.lost /\ again THEN [@ EXCEPT !.lost = FALSE]
                  ELSE [msg |-> NoMsg, lost |-> FALSE]]
  BY DEF IsrRead
<1>3. box \in [Boxes -> [msg : Msg \cup {NoMsg}, lost : BOOLEAN]]
  BY DEF HardwareType
<1>4. box[isr] \in [msg : Msg \cup {NoMsg}, lost : BOOLEAN]
  BY <1>1, <1>3
<1>5. box'[isr] = IF box[isr].lost /\ again THEN [box[isr] EXCEPT !.lost = FALSE]
                  ELSE [msg |-> NoMsg, lost |-> FALSE]
  BY <1>1, <1>2, <1>3
<1>6. \A b \in Boxes : b # isr => box'[b] = box[b]
  BY <1>2, <1>3
<1>7. CASE box[isr].lost /\ again
  BY <1>1, <1>4, <1>5, <1>6, <1>7
<1>8. CASE ~(box[isr].lost /\ again)
  BY <1>1, <1>5, <1>6, <1>8
<1> QED
  BY <1>7, <1>8

\* What a frame does to the boxes.
LEMMA ArriveStep ==
  ASSUME HardwareType, NEW g \in Groups, FrameArrives(g)
  PROVE  \E b \in BoxesOf(g) :
           /\ AcceptedBy(g, b) /\ b \in Boxes /\ GroupOf(b) = g
           /\ \A c \in Boxes : c # b => box'[c] = box[c]
           /\ box'[b] = [msg |-> [grp |-> g, ser |-> sent[g] + 1], lost |-> Pending(b)]
           /\ Pending(b) => gone' = gone \cup {box[b].msg}
           /\ ~Pending(b) => gone' = gone
<1>1. PICK b \in BoxesOf(g) :
        /\ AcceptedBy(g, b)
        /\ box' = [box EXCEPT ![b] = [msg |-> [grp |-> g, ser |-> sent[g] + 1],
                                      lost |-> Pending(b)]]
        /\ gone' = IF Pending(b) THEN gone \cup {box[b].msg} ELSE gone
  BY DEF FrameArrives
<1>2. b \in Boxes /\ GroupOf(b) = g
  BY DEF BoxesOf
<1>3. box \in [Boxes -> [msg : Msg \cup {NoMsg}, lost : BOOLEAN]]
  BY DEF HardwareType
<1>4. /\ \A c \in Boxes : c # b => box'[c] = box[c]
      /\ box'[b] = [msg |-> [grp |-> g, ser |-> sent[g] + 1], lost |-> Pending(b)]
  BY <1>1, <1>2, <1>3
<1> QED
  BY <1>1, <1>2, <1>4

LEMMA AccountedStep ==
  ASSUME RingInv, ~Renewed, ~Renewed', Accounted, [Next]_vars
  PROVE  Accounted'
<1> DEFINE Kept == delivered \cup gone \cup InStack \cup InBoxes
<1>0. /\ RingType /\ HardwareType /\ LoopType /\ StillThere /\ InStep
      /\ pc \in {"idle", "header", "data", "pop"}
      /\ Waiting \in Seq(Msg) /\ CopyInv
  BY DEF RingInv, InOneStack, TypeInv, TypeOK
<1>1. OnBus \subseteq Kept
  BY DEF Accounted
<1> SUFFICES OnBus' \subseteq Kept'
  BY DEF Accounted
<1> USE <1>0 DEF MainRuns, ring, hw, hist, cfg
<1>2. ASSUME UNCHANGED <<sent, box, stack, st, count, delivered, gone>>
      PROVE  OnBus' \subseteq Kept'
  <2>1. Waiting' = Waiting
    BY <1>2, WaitingUnchanged
  <2>2. InStack' = InStack /\ InBoxes' = InBoxes /\ OnBus' = OnBus
    BY <1>2, <2>1 DEF InStack, InBoxes, OnBus
  <2> QED
    BY <1>1, <1>2, <2>2
<1>3. CASE \/ IsrEnter \/ IsrLeave \/ Tick \/ ReceiveTest \/ CopyHeader \/ CopyData
           \/ UNCHANGED vars
  BY <1>2, <1>3
     DEF IsrEnter, IsrLeave, Tick, ReceiveTest, CopyHeader, CopyData, vars
<1>4. ASSUME NEW g \in Groups, FrameArrives(g)
      PROVE  OnBus' \subseteq Kept'
  <2>1. PICK b \in BoxesOf(g) :
          /\ b \in Boxes
          /\ \A c \in Boxes : c # b => box'[c] = box[c]
          /\ box'[b] = [msg |-> [grp |-> g, ser |-> sent[g] + 1], lost |-> Pending(b)]
          /\ Pending(b) => gone' = gone \cup {box[b].msg}
          /\ ~Pending(b) => gone' = gone
    BY <1>4, ArriveStep
  <2> DEFINE new == [grp |-> g, ser |-> sent[g] + 1]
  <2>2. InStack' = InStack /\ delivered' = delivered
    BY <1>4, WaitingUnchanged DEF FrameArrives, InStack
  <2>3. \A m \in OnBus' : m \in OnBus \/ m = new
    <3> SUFFICES ASSUME NEW m \in Msg, m.ser <= sent'[m.grp], ~(m.ser <= sent[m.grp])
                 PROVE  m = new
      BY DEF OnBus
    <3>1. m.grp \in Groups /\ m.ser \in Nat /\ sent[m.grp] \in Nat /\ sent[g] \in Nat
      BY RxAssumption DEF Msg, HardwareType, RxAssumption
    <3>2. sent' = [sent EXCEPT ![g] = sent[g] + 1]
      BY <1>4 DEF FrameArrives
    <3>3. sent'[m.grp] = IF m.grp = g THEN sent[g] + 1 ELSE sent[m.grp]
      BY <3>1, <3>2 DEF HardwareType
    <3>4. m.grp = g /\ m.ser = sent[g] + 1
      BY <3>1, <3>3
    <3>5. m = [grp |-> m.grp, ser |-> m.ser]
      BY DEF Msg
    <3> QED
      BY <3>4, <3>5
  <2>4. new \in InBoxes'
    <3>1. sent[g] + 1 \in 1 .. FRAMES
      BY <1>4, RxAssumption DEF FrameArrives, HardwareType, RxAssumption
    <3>2. box'[b].msg = new
      BY <2>1
    <3>3. new # NoMsg
      BY <1>4, <3>1, SetFacts
    <3> HIDE DEF new
    <3> QED
      BY <2>1, <3>2, <3>3 DEF InBoxes
  <2>5. InBoxes \subseteq InBoxes' \cup gone'
    <3> SUFFICES ASSUME NEW c \in Boxes, box[c].msg # NoMsg
                 PROVE  box[c].msg \in InBoxes' \cup gone'
      BY DEF InBoxes
    <3>1. CASE c = b
      BY <2>1, <3>1 DEF Pending
    <3>2. CASE c # b
      BY <2>1, <3>2 DEF InBoxes
    <3> QED
      BY <3>1, <3>2
  <2>6. gone \subseteq gone'
    BY <2>1
  <2> QED
    BY <1>1, <2>2, <2>3, <2>4, <2>5, <2>6
<1>5. CASE IsrRead
  <2> DEFINE m == box[isr].msg
  <2>1. /\ isr \in Boxes /\ m \in Msg
        /\ \A b \in Boxes : b # isr => box'[b] = box[b]
    BY <1>5, ReadStep
  <2>2. Store(m) /\ st' = st /\ delivered' = delivered /\ sent' = sent
    BY <1>5 DEF IsrRead
  <2>3. gone \subseteq gone' /\ InStack \subseteq InStack' /\ m \in gone' \cup InStack'
    <3> HIDE DEF m
    <3> QED
      BY <2>1, <2>2, StoredSet
  <2>4. InBoxes \subseteq InBoxes' \cup {m}
    <3> SUFFICES ASSUME NEW c \in Boxes, box[c].msg # NoMsg, box[c].msg # m
                 PROVE  box[c].msg \in InBoxes'
      BY DEF InBoxes
    <3>1. box'[c] = box[c]
      BY <2>1
    <3> QED
      BY <3>1 DEF InBoxes
  <2>5. OnBus' = OnBus
    BY <2>2 DEF OnBus
  <2> QED
    BY <1>1, <2>2, <2>3, <2>4, <2>5
<1>6. CASE Pop
  <2>1. InStack = InStack' \cup {reg.dt}
    BY <1>6, PoppedSet
  <2>2. /\ delivered' = delivered \cup {reg.dt} /\ gone' = gone
        /\ sent' = sent /\ box' = box
    BY <1>6 DEF Pop
  <2>3. InBoxes' = InBoxes /\ OnBus' = OnBus
    BY <2>2 DEF InBoxes, OnBus
  <2> QED
    BY <1>1, <2>1, <2>2, <2>3
<1>7. CASE ClearRX_BUFF
  <2>1. /\ delivered' = delivered /\ gone' = gone \cup InStack
        /\ sent' = sent /\ box' = box
    BY <1>7 DEF ClearRX_BUFF
  <2>2. InBoxes' = InBoxes /\ OnBus' = OnBus
    BY <2>1 DEF InBoxes, OnBus
  <2> QED
    BY <1>1, <2>1, <2>2
<1>8. ~Setup
  BY RxAssumption DEF Setup, SetupStart, SetupEnd, SetupCount, ConfigMsgBox,
                      Renewed, LoopType, RxAssumption
<1> QED
  BY <1>3, <1>4, <1>5, <1>6, <1>7, <1>8 DEF Next, Isr, Receive

\* No frame the bus carried disappears between the message boxes, the handler,
\* the stack and CAN_ReceiveMessage: it is delivered, waits, or was lost by
\* overrun, full stack or clearing.
THEOREM EveryFrameAccounted == Spec => []Accounted
<1>1. Init => Accounted
  <2>1. ASSUME Init PROVE OnBus = {}
    <3> SUFFICES ASSUME NEW m \in Msg, m.ser <= sent[m.grp] PROVE FALSE
      BY DEF OnBus
    <3>1. m.grp \in Groups /\ m.ser \in Nat \ {0}
      BY RxAssumption DEF Msg, RxAssumption
    <3>2. sent[m.grp] = 0
      BY <2>1, <3>1 DEF Init
    <3> QED
      BY <3>1, <3>2
  <2> QED
    BY <2>1 DEF Accounted
<1>2. RingInv /\ Accounted /\ [Next]_vars => Accounted'
  <2>1. ASSUME RingInv, Renewed, [Next]_vars PROVE Accounted'
    BY <2>1, RenewedStays DEF RingInv, Accounted
  <2>2. ASSUME Renewed' PROVE Accounted'
    BY <2>2 DEF Accounted
  <2> QED
    BY <2>1, <2>2, AccountedStep
<1> QED
  BY <1>1, <1>2, RingInvariant, PTL DEF Spec

-----------------------------------------------------------------------------
(* The order of the bus.  The chained boxes fill from the lowest free one  *)
(* while the handler walks up through them, so the boxes it has passed     *)
(* hold frames younger than those it has still to read.  That needs what   *)
(* the hardware gives: no two frames arrive within one turn of its loop.   *)

Chain == {b \in Boxes : b > SINGLE_BOXES}

\* The box of the chain the handler reads next.
Turn == IF isr > SINGLE_BOXES THEN isr ELSE SINGLE_BOXES + 1

\* A box whose message the handler has not read before.
Fresh(b) == Pending(b) /\ box[b].msg \notin resent

\* Box b is read before box c.
Sooner(b, c) == \/ b < c /\ (c < Turn \/ Turn <= b)
                \/ c < Turn /\ Turn <= b

Seen == delivered \cup InStack

\* No message is invented, and each box holds one of its own group.
Known ==
  /\ Seen \cup InBoxes \cup resent \subseteq OnBus
  /\ \A b \in Boxes : Pending(b) => box[b].msg.grp = GroupOf(b)

\* Only the last box of a chain is overrun, or keeps what was read already.
LostLast ==
  /\ \A b \in Boxes : box[b].lost => EndOfBuffer(b)
  /\ \A b \in Chain : Pending(b) /\ ~Fresh(b) => b = LAST_BOX

\* The boxes the handler has passed fill from the bottom, those before it
\* have no gap, and the boxes it has passed are not all full unless a frame
\* arrived since its last step.
NoGap ==
  /\ \A b, c \in Chain : b < c /\ c < Turn /\ Pending(c) => Pending(b)
  /\ \A b, c \in Chain : Turn <= b /\ b < c /\ Fresh(c) => Pending(b)
  /\ Turn > SINGLE_BOXES + 1 /\ (\A b \in Chain : b < Turn => Pending(b))
       => burst >= 1

\* The boxes are read in the order of the bus.
BusOrder ==
  \A b, c \in Chain :
    /\ Fresh(c) /\ Pending(b) /\ b # c
    /\ Sooner(b, c) \/ ~Fresh(b)
    => box[b].msg.ser < box[c].msg.ser

\* What is still in a box is younger than all that was taken from its group.
Younger ==
  \A b \in Boxes : Fresh(b) =>
    \A m \in Seen : m.grp = GroupOf(b) => m.ser < box[b].msg.ser

BoxInv == LostLast /\ NoGap /\ BusOrder
Ordered == Known /\ BoxInv /\ Younger /\ InOrder

\* The numbers the proof rests on.
LEMMA BoxFacts ==
  ASSUME HardwareType
  PROVE  /\ SINGLE_BOXES \in Nat /\ LAST_BOX \in Nat /\ SINGLE_BOXES < LAST_BOX
         /\ isr \in Nat /\ isr <= LAST_BOX /\ Turn \in Chain /\ burst \in Nat
         /\ SINGLE_BOXES + 1 \in Chain /\ LAST_BOX \in Chain
         /\ \A b \in Boxes : b \in Nat \ {0} /\ b <= LAST_BOX
         /\ \A b \in Boxes : b \in Chain <=> b > SINGLE_BOXES
         /\ \A b \in Chain : b \in Boxes /\ GroupOf(b) = SINGLE_BOXES + 1
         /\ \A b \in Chain : EndOfBuffer(b) <=> b = LAST_BOX
         /\ \A b \in Boxes : b \notin Chain => EndOfBuffer(b) /\ GroupOf(b) = b
         /\ \A b \in Boxes : b \notin Chain => b <= SINGLE_BOXES
  BY RxAssumption
     DEF RxAssumption, HardwareType, Turn, Chain, Boxes, GroupOf, EndOfBuffer

LEMMA OnBusFacts ==
  ASSUME HardwareType, NEW m \in OnBus
  PROVE  /\ m \in Msg /\ m.grp \in Groups /\ m.ser \in Nat
         /\ sent[m.grp] \in Nat /\ m.ser <= sent[m.grp]
  BY RxAssumption DEF OnBus, Msg, HardwareType, RxAssumption

\* The message of a box.
LEMMA HeldFacts ==
  ASSUME HardwareType, Known, NEW b \in Boxes, Pending(b)
  PROVE  /\ box[b].msg \in OnBus /\ box[b].msg \in Msg
         /\ box[b].msg.grp = GroupOf(b) /\ GroupOf(b) \in Groups
         /\ box[b].msg.ser \in Nat /\ box[b].msg.ser <= sent[GroupOf(b)]
<1>1. box[b].msg \in OnBus
  BY DEF Known, InBoxes, Pending
<1> QED
  BY <1>1, OnBusFacts DEF Known

LEMMA BoxesUnchanged ==
  ASSUME BoxInv, UNCHANGED <<box, isr, burst, resent>>
  PROVE  BoxInv'
<1>1. Turn' = Turn
  BY DEF Turn
<1>2. ASSUME NEW b PROVE (Pending(b)' <=> Pending(b)) /\ (Fresh(b)' <=> Fresh(b))
  BY DEF Pending, Fresh
<1>3. ASSUME NEW b, NEW c PROVE Sooner(b, c)' <=> Sooner(b, c)
  BY <1>1 DEF Sooner
<1>4. LostLast'
  BY <1>2 DEF BoxInv, LostLast
<1>5. NoGap'
  BY <1>1, <1>2 DEF BoxInv, NoGap
<1>6. BusOrder'
  BY <1>2, <1>3 DEF BoxInv, BusOrder
<1> QED
  BY <1>4, <1>5, <1>6 DEF BoxInv

\* Entering: nothing is pending below the box the handler starts with.
LEMMA EnterBoxes ==
  ASSUME HardwareType, BoxInv, IsrEnter
  PROVE  BoxInv'
<1>1. PICK k \in Boxes :
        /\ Pending(k) /\ \A c \in Boxes : Pending(c) => k <= c
        /\ isr' = k
  BY DEF IsrEnter
<1>2. isr = 0 /\ box' = box /\ resent' = resent
  BY DEF IsrEnter, hist
<1>3. Turn = SINGLE_BOXES + 1
  BY <1>2, BoxFacts DEF Turn
<1>4. ASSUME NEW b PROVE (Pending(b)' <=> Pending(b)) /\ (Fresh(b)' <=> Fresh(b))
  BY <1>2 DEF Pending, Fresh
<1>5. LostLast'
  BY <1>2, <1>4 DEF BoxInv, LostLast
<1>6. CASE Turn' = Turn
  <2>1. \A b, c \in Chain : Sooner(b, c)' <=> Sooner(b, c)
    BY <1>6 DEF Sooner
  <2>2. NoGap'
    BY <1>3, <1>4, <1>6, BoxFacts DEF BoxInv, NoGap
  <2>3. BusOrder'
    BY <1>2, <1>4, <2>1 DEF BoxInv, BusOrder
  <2> QED
    BY <1>5, <2>2, <2>3 DEF BoxInv
<1>7. CASE Turn' # Turn
  <2>1. k > SINGLE_BOXES + 1 /\ Turn' = k /\ k \in Chain
    BY <1>1, <1>3, <1>7, BoxFacts DEF Turn
  <2>2. ~Pending(SINGLE_BOXES + 1)
    BY <1>1, <2>1, BoxFacts
  <2>3. \A c \in Chain : ~Fresh(c)
    <3> SUFFICES ASSUME NEW c \in Chain, Fresh(c) PROVE FALSE
      OBVIOUS
    <3>1. c # SINGLE_BOXES + 1
      BY <2>2 DEF Fresh
    <3>2. SINGLE_BOXES + 1 < c
      BY <3>1, BoxFacts
    <3> QED
      BY <1>3, <2>2, <3>2, BoxFacts DEF BoxInv, NoGap
  <2>4. \A c \in Chain : c < k => ~Pending(c)
    BY <1>1, <2>1, BoxFacts
  <2>5. NoGap'
    BY <1>4, <2>1, <2>2, <2>3, <2>4, BoxFacts DEF NoGap
  <2>6. BusOrder'
    BY <1>4, <2>3 DEF BusOrder
  <2> QED
    BY <1>5, <2>5, <2>6 DEF BoxInv
<1> QED
  BY <1>6, <1>7

\* Leaving at an empty box: behind it nothing new is pending either.
LEMMA LeaveBoxes ==
  ASSUME HardwareType, BoxInv, IsrLeave
  PROVE  BoxInv'
<1>1. isr' = 0 /\ box' = box /\ resent' = resent /\ ~Pending(isr)
  BY DEF IsrLeave, hist
<1>2. Turn' = SINGLE_BOXES + 1
  BY <1>1, BoxFacts DEF Turn
<1>3. ASSUME NEW b PROVE (Pending(b)' <=> Pending(b)) /\ (Fresh(b)' <=> Fresh(b))
  BY <1>1 DEF Pending, Fresh
<1>4. LostLast'
  BY <1>1, <1>3 DEF BoxInv, LostLast
<1>5. CASE Turn = SINGLE_BOXES + 1
  <2>1. \A b, c \in Chain : Sooner(b, c)' <=> Sooner(b, c)
    BY <1>2, <1>5 DEF Sooner
  <2>2. NoGap'
    BY <1>2, <1>3, <1>5, BoxFacts DEF BoxInv, NoGap
  <2>3. BusOrder'
    BY <1>1, <1>3, <2>1 DEF BoxInv, BusOrder
  <2> QED
    BY <1>4, <2>2, <2>3 DEF BoxInv
<1>6. CASE Turn # SINGLE_BOXES + 1
  <2>1. Turn = isr /\ isr \in Chain
    BY <1>6, BoxFacts DEF Turn
  <2>2. \A c \in Chain : Fresh(c) => c < isr
    <3> SUFFICES ASSUME NEW c \in Chain, Fresh(c), ~(c < isr) PROVE FALSE
      OBVIOUS
    <3>1. c # isr
      BY <1>1 DEF Fresh
    <3>2. isr < c /\ Turn <= isr
      BY <2>1, <3>1, BoxFacts
    <3> QED
      BY <1>1, <2>1, <3>2 DEF BoxInv, NoGap
  <2>3. NoGap'
    <3>1. \A b, c \in Chain : b < c /\ Fresh(c) => Pending(b)
      BY <2>1, <2>2 DEF BoxInv, NoGap, Fresh
    <3>2. \A c \in Chain : ~(c < SINGLE_BOXES + 1)
      BY BoxFacts
    <3> QED
      BY <1>2, <1>3, <3>1, <3>2, BoxFacts DEF NoGap
  <2>4. BusOrder'
    <3>1. \A b, c \in Chain : Sooner(b, c)' => b < c
      BY <1>2, BoxFacts DEF Sooner
    <3>2. \A b, c \in Chain : Sooner(b, c)' /\ Fresh(c) => Sooner(b, c)
      BY <2>1, <2>2, <3>1 DEF Sooner
    <3> QED
      BY <1>1, <1>3, <3>2 DEF BoxInv, BusOrder
  <2> QED
    BY <1>4, <2>3, <2>4 DEF BoxInv
<1> QED
  BY <1>5, <1>6

\* A frame arrives: it is the youngest, and goes behind all those of its group
\* that are read later than itself.
LEMMA ArriveBoxes ==
  ASSUME HardwareType, Known, BoxInv, BURST <= 1, NEW g \in Groups, FrameArrives(g)
  PROVE  BoxInv'
<1>1. PICK b \in BoxesOf(g) :
        /\ AcceptedBy(g, b) /\ b \in Boxes /\ GroupOf(b) = g
        /\ \A c \in Boxes : c # b => box'[c] = box[c]
        /\ box'[b] = [msg |-> [grp |-> g, ser |-> sent[g] + 1], lost |-> Pending(b)]
  BY ArriveStep
<1>2. /\ isr' = isr /\ resent' = resent /\ sent[g] < FRAMES /\ sent[g] \in Nat
      /\ isr # 0 => burst < BURST
      /\ burst' = IF isr = 0 THEN 0 ELSE burst + 1
  BY DEF FrameArrives, HardwareType
<1> DEFINE new == [grp |-> g, ser |-> sent[g] + 1]
<1>3. box'[b].msg = new /\ box'[b].lost = Pending(b) /\ new.ser = sent[g] + 1
  BY <1>1
<1>4. new \notin resent
  <2> SUFFICES ASSUME new \in OnBus PROVE FALSE
    BY DEF Known
  <2>1. new.ser <= sent[new.grp]
    BY DEF OnBus
  <2> QED
    BY <1>2, <2>1
<1>5. new # NoMsg
  <2>1. sent[g] + 1 \in 1 .. FRAMES
    BY <1>2, RxAssumption DEF RxAssumption
  <2> QED
    BY <2>1, SetFacts
<1> HIDE DEF new
<1>6. Pending(b)' /\ Fresh(b)'
  BY <1>2, <1>3, <1>4, <1>5 DEF Pending, Fresh
<1>7. ASSUME NEW c \in Boxes, c # b
      PROVE  (Pending(c)' <=> Pending(c)) /\ (Fresh(c)' <=> Fresh(c))
  BY <1>1, <1>2, <1>7 DEF Pending, Fresh
<1>8. Turn' = Turn
  BY <1>2 DEF Turn
<1>9. ASSUME NEW c, NEW d PROVE Sooner(c, d)' <=> Sooner(c, d)
  BY <1>8 DEF Sooner
<1>10. Pending(b) => EndOfBuffer(b)
  BY <1>1 DEF AcceptedBy
<1>11. LostLast'
  <2>1. \A c \in Boxes : box'[c].lost => EndOfBuffer(c)
    BY <1>1, <1>3, <1>10 DEF BoxInv, LostLast
  <2>2. \A c \in Chain : Pending(c)' /\ ~Fresh(c)' => c = LAST_BOX
    BY <1>6, <1>7, BoxFacts DEF BoxInv, LostLast
  <2> QED
    BY <2>1, <2>2 DEF LostLast
<1>12. CASE b \notin Chain
  <2>1. \A c \in Chain : c # b /\ c \in Boxes
    BY <1>12, BoxFacts
  <2>2. NoGap'
    <3>1. Turn > SINGLE_BOXES + 1 => isr # 0
      BY BoxFacts DEF Turn
    <3>2. Turn > SINGLE_BOXES + 1 /\ burst >= 1 => burst' >= 1
      BY <1>2, <3>1, BoxFacts
    <3> QED
      BY <1>7, <1>8, <2>1, <3>2 DEF BoxInv, NoGap
  <2>3. BusOrder'
    BY <1>1, <1>7, <1>9, <2>1 DEF BoxInv, BusOrder
  <2> QED
    BY <1>11, <2>2, <2>3 DEF BoxInv
<1>13. CASE b \in Chain
  <2>1. \A c \in Chain : c \in Boxes /\ GroupOf(c) = g /\ c \in BoxesOf(g)
    BY <1>1, <1>13, BoxFacts DEF BoxesOf
  <2>2. \A c \in Chain : c < b => Pending(c)
    BY <1>1, <1>10, <1>13, <2>1, BoxFacts DEF AcceptedBy
  <2>3. Pending(b) => b = LAST_BOX /\ \A c \in Chain : Pending(c)
    BY <1>1, <1>10, <1>13, <2>1, BoxFacts DEF AcceptedBy
  <2>4. Turn > SINGLE_BOXES + 1 => \E c \in Chain : c < Turn /\ ~Pending(c)
    <3> SUFFICES ASSUME Turn > SINGLE_BOXES + 1,
                        \A c \in Chain : c < Turn => Pending(c)
                 PROVE  FALSE
      OBVIOUS
    <3>1. burst >= 1 /\ isr # 0
      BY BoxFacts DEF BoxInv, NoGap, Turn
    <3> QED
      BY <1>2, <3>1, BoxFacts, RxAssumption DEF RxAssumption
  <2>5. Turn > SINGLE_BOXES + 1 => b < Turn
    BY <1>13, <2>2, <2>4, BoxFacts
  <2>6. Turn > SINGLE_BOXES + 1 => ~Pending(b)
    BY <2>3, <2>4
  <2>7. Turn >= SINGLE_BOXES + 1 /\ \A c \in Chain : c >= SINGLE_BOXES + 1
    BY BoxFacts
  <2>8. NoGap'
    <3>1. ASSUME NEW c \in Chain, NEW d \in Chain, c < d, d < Turn, Pending(d)'
          PROVE  Pending(c)'
      <4>1. CASE c = b
        BY <1>6, <4>1
      <4>2. CASE c # b /\ d = b
        BY <1>7, <2>1, <2>2, <3>1, <4>2
      <4>3. CASE c # b /\ d # b
        BY <1>7, <2>1, <3>1, <4>3 DEF BoxInv, NoGap
      <4> QED
        BY <4>1, <4>2, <4>3
    <3>2. ASSUME NEW c \in Chain, NEW d \in Chain, Turn <= c, c < d, Fresh(d)'
          PROVE  Pending(c)'
      <4>1. CASE c = b
        BY <1>6, <4>1
      <4>2. CASE c # b /\ d = b
        BY <1>7, <2>1, <2>2, <3>2, <4>2
      <4>3. CASE c # b /\ d # b
        BY <1>7, <2>1, <3>2, <4>3 DEF BoxInv, NoGap
      <4> QED
        BY <4>1, <4>2, <4>3
    <3>3. Turn > SINGLE_BOXES + 1 => burst' >= 1
      BY <1>2, BoxFacts DEF Turn
    <3> QED
      BY <1>8, <3>1, <3>2, <3>3 DEF NoGap
  <2>9. BusOrder'
    <3> SUFFICES ASSUME NEW c \in Chain, NEW d \in Chain, Fresh(d)', Pending(c)',
                        c # d, Sooner(c, d) \/ ~Fresh(c)'
                 PROVE  box'[c].msg.ser < box'[d].msg.ser
      BY <1>9 DEF BusOrder
    <3>1. CASE d = b
      <4>1. Pending(c) /\ box'[c] = box[c]
        BY <1>1, <1>7, <2>1, <3>1
      <4>2. box[c].msg.ser \in Nat /\ box[c].msg.ser <= sent[g]
        BY <2>1, <4>1, HeldFacts
      <4> QED
        BY <1>2, <1>3, <3>1, <4>1, <4>2
    <3>2. CASE c = b
      <4>1. Sooner(b, d) /\ Fresh(d) /\ Pending(d)
        BY <1>6, <1>7, <2>1, <3>2 DEF Fresh
      <4>2. CASE b < d /\ d < Turn
        BY <1>13, <2>3, <4>1, <4>2, <2>5, <2>6, <2>7, BoxFacts DEF BoxInv, NoGap
      <4>3. CASE b < d /\ Turn <= b
        <5>1. Pending(b)
          BY <1>13, <4>1, <4>3 DEF BoxInv, NoGap
        <5> QED
          BY <1>13, <2>3, <4>3, <5>1, BoxFacts
      <4>4. CASE d < Turn /\ Turn <= b
        BY <1>13, <2>5, <2>7, <4>4, BoxFacts
      <4> QED
        BY <4>1, <4>2, <4>3, <4>4 DEF Sooner
    <3>3. CASE c # b /\ d # b
      <4>1. Fresh(d) /\ Pending(c) /\ (Sooner(c, d) \/ ~Fresh(c))
        BY <1>7, <2>1, <3>3
      <4>2. box'[c] = box[c] /\ box'[d] = box[d]
        BY <1>1, <2>1, <3>3
      <4> QED
        BY <4>1, <4>2 DEF BoxInv, BusOrder
    <3> QED
      BY <3>1, <3>2, <3>3
  <2> QED
    BY <1>11, <2>8, <2>9 DEF BoxInv
<1> QED
  BY <1>12, <1>13

\* What was read is not new any more.
LEMMA ReadOnce ==
  ASSUME HardwareType, IsrRead, NEW r \in Boxes, r = isr
  PROVE  ~Fresh(r)'
<1>1. /\ Pending(r)
      /\ \/ box'[r].msg = NoMsg
         \/ box[r].lost /\ box'[r].msg = box[r].msg
  BY ReadStep
<1>2. resent' = IF box[r].lost THEN resent \cup {box[r].msg} ELSE resent
  BY DEF IsrRead
<1> QED
  BY <1>1, <1>2 DEF Fresh, Pending

\* Reading a box: the others keep theirs, and those of its group are younger.
LEMMA ReadFresh ==
  ASSUME HardwareType, Known, BoxInv, IsrRead,
         NEW r \in Boxes, r = isr, NEW b \in Boxes, b # r
  PROVE  /\ (Pending(b)' <=> Pending(b)) /\ (Fresh(b)' <=> Fresh(b))
         /\ Fresh(b) /\ GroupOf(b) = GroupOf(r) => box[r].msg.ser < box[b].msg.ser
<1>1. /\ r \in Boxes /\ r = isr /\ Pending(r)
      /\ \A o \in Boxes : o # r => box'[o] = box[o]
      /\ \/ box'[r].msg = NoMsg
         \/ box[r].lost /\ box'[r].msg = box[r].msg
  BY ReadStep
<1>2. resent' = IF box[r].lost THEN resent \cup {box[r].msg} ELSE resent
  BY <1>1 DEF IsrRead
<1>3. ASSUME Fresh(b), GroupOf(b) = GroupOf(r)
      PROVE  box[r].msg.ser < box[b].msg.ser
  <2>1. r \in Chain /\ b \in Chain
    BY <1>1, <1>3, BoxFacts
  <2>2. Turn = r
    BY <1>1, <2>1, BoxFacts DEF Turn
  <2>3. Sooner(r, b)
    BY <1>3, <2>1, <2>2, BoxFacts DEF Sooner
  <2> QED
    BY <1>1, <1>3, <2>1, <2>3 DEF BoxInv, BusOrder
<1>4. (Pending(b)' <=> Pending(b)) /\ (Fresh(b)' <=> Fresh(b))
  <2>1. box'[b] = box[b]
    BY <1>1
  <2>2. Pending(b)' <=> Pending(b)
    BY <2>1 DEF Pending
  <2>3. Fresh(b) => box[b].msg # box[r].msg
    <3> SUFFICES ASSUME Fresh(b), box[b].msg = box[r].msg PROVE FALSE
      OBVIOUS
    <3>1. Pending(b)
      BY DEF Fresh
    <3>2. GroupOf(b) = GroupOf(r)
      BY <1>1, <3>1, HeldFacts
    <3>3. box[r].msg.ser < box[b].msg.ser
      BY <1>3, <3>2
    <3>4. box[b].msg.ser \in Nat
      BY <3>1, HeldFacts
    <3> QED
      BY <3>3, <3>4
  <2>4. Fresh(b)' <=> Fresh(b)
    BY <1>2, <2>1, <2>2, <2>3 DEF Fresh
  <2> QED
    BY <2>2, <2>4
<1> QED
  BY <1>3, <1>4

LEMMA ReadBoxes ==
  ASSUME HardwareType, Known, BoxInv, IsrRead
  PROVE  BoxInv'
<1>0. PICK r \in Boxes : r = isr
  BY ReadStep
<1>1. /\ r = isr /\ Pending(r)
      /\ \A b \in Boxes : b # r => box'[b] = box[b]
      /\ box'[r].lost = FALSE
      /\ \/ box'[r].msg = NoMsg
         \/ box[r].lost /\ box'[r].msg = box[r].msg
  BY <1>0, ReadStep
<1>2. isr' = IF EndOfBuffer(r) THEN 0 ELSE r + 1
  BY <1>0 DEF IsrRead
<1>3. ASSUME NEW b \in Boxes, b # r
      PROVE  (Pending(b)' <=> Pending(b)) /\ (Fresh(b)' <=> Fresh(b))
  BY <1>0, <1>3, ReadFresh
<1>10. ~Fresh(r)'
  BY <1>0, ReadOnce
<1>4. Pending(r)' => EndOfBuffer(r) /\ box'[r].msg = box[r].msg
  BY <1>1 DEF Pending, BoxInv, LostLast
<1>5. LostLast'
  <2>1. \A b \in Boxes : box'[b].lost => EndOfBuffer(b)
    BY <1>1 DEF BoxInv, LostLast
  <2>2. \A b \in Chain : Pending(b)' /\ ~Fresh(b)' => b = LAST_BOX
    BY <1>3, <1>4, <1>10, BoxFacts DEF BoxInv, LostLast
  <2> QED
    BY <2>1, <2>2 DEF LostLast
<1>6. ASSUME NEW c \in Chain, NEW d \in Chain, Fresh(d)', Pending(c)', c # d,
             Sooner(c, d)' => Sooner(c, d) \/ c = r,
             Sooner(c, d)' \/ ~Fresh(c)'
      PROVE  box'[c].msg.ser < box'[d].msg.ser
  <2>1. d # r /\ Fresh(d) /\ box'[d] = box[d] /\ c \in Boxes /\ d \in Boxes
    BY <1>1, <1>3, <1>6, <1>10, BoxFacts
  <2>2. CASE c = r
    <3>1. GroupOf(d) = GroupOf(r)
      BY <1>6, <2>2, BoxFacts
    <3>2. box'[c].msg = box[r].msg
      BY <1>4, <1>6, <2>2
    <3> QED
      BY <1>0, <2>1, <3>1, <3>2, ReadFresh
  <2>3. CASE c # r
    BY <1>1, <1>3, <1>6, <2>1, <2>3 DEF BoxInv, BusOrder
  <2> QED
    BY <2>2, <2>3
<1>7. CASE r \notin Chain
  <2>1. Turn' = Turn /\ Turn = SINGLE_BOXES + 1 /\ \A c \in Chain : c # r /\ c \in Boxes
    BY <1>0, <1>1, <1>2, <1>7, BoxFacts DEF Turn
  <2>2. NoGap'
    BY <1>3, <2>1, BoxFacts DEF BoxInv, NoGap
  <2>3. BusOrder'
    <3>1. \A c, d \in Chain : Sooner(c, d)' => Sooner(c, d)
      BY <2>1 DEF Sooner
    <3> QED
      BY <1>6, <3>1 DEF BusOrder
  <2> QED
    BY <1>5, <2>2, <2>3 DEF BoxInv
<1>8. CASE r \in Chain /\ r # LAST_BOX
  <2>1. Turn = r /\ Turn' = r + 1 /\ ~Pending(r)'
    BY <1>0, <1>2, <1>4, <1>8, BoxFacts DEF Turn
  <2>2. NoGap'
    <3>1. ASSUME NEW c \in Chain, NEW d \in Chain, c < d, d < Turn', Pending(d)'
          PROVE  Pending(c)'
      <4>1. c < r /\ d < Turn
        BY <2>1, <3>1, BoxFacts
      <4> QED
        BY <1>3, <2>1, <3>1, <4>1, BoxFacts DEF BoxInv, NoGap
    <3>2. ASSUME NEW c \in Chain, NEW d \in Chain, Turn' <= c, c < d, Fresh(d)'
          PROVE  Pending(c)'
      <4>1. Turn <= c /\ c # r /\ d # r
        BY <2>1, <3>2, BoxFacts
      <4> QED
        BY <1>3, <3>2, <4>1, BoxFacts DEF BoxInv, NoGap
    <3>3. r < Turn'
      BY <2>1, BoxFacts
    <3> QED
      BY <1>8, <2>1, <3>1, <3>2, <3>3 DEF NoGap
  <2>3. BusOrder'
    <3>1. \A c, d \in Chain : Sooner(c, d)' /\ d # r => Sooner(c, d) \/ c = r
      BY <2>1, BoxFacts DEF Sooner
    <3> QED
      BY <1>6, <1>10, <3>1 DEF BusOrder
  <2> QED
    BY <1>5, <2>2, <2>3 DEF BoxInv
<1>9. CASE r = LAST_BOX
  <2>1. Turn = LAST_BOX /\ Turn' = SINGLE_BOXES + 1 /\ r \in Chain
    BY <1>0, <1>2, <1>9, BoxFacts DEF Turn
  <2>2. NoGap'
    <3>1. ASSUME NEW c \in Chain, NEW d \in Chain, c < d, Fresh(d)'
          PROVE  Pending(c)'
      <4>1. d # r /\ d < Turn /\ c # r
        BY <1>9, <1>10, <2>1, <3>1, BoxFacts
      <4> QED
        BY <1>3, <3>1, <4>1, BoxFacts DEF BoxInv, NoGap, Fresh
    <3>2. \A c \in Chain : ~(c < Turn')
      BY <2>1, BoxFacts
    <3>3. ~(Turn' > SINGLE_BOXES + 1)
      BY <2>1, BoxFacts
    <3> QED
      BY <3>1, <3>2, <3>3 DEF NoGap
  <2>3. BusOrder'
    <3>1. \A c, d \in Chain : Sooner(c, d)' /\ d # r => Sooner(c, d) \/ c = r
      BY <1>9, <2>1, BoxFacts DEF Sooner
    <3> QED
      BY <1>6, <1>10, <3>1 DEF BusOrder
  <2> QED
    BY <1>5, <2>2, <2>3 DEF BoxInv
<1> QED
  BY <1>7, <1>8, <1>9

-----------------------------------------------------------------------------
\* InOrder at one place of the stack.
Placed(j) ==
  \/ Waiting[j] \in resent
  \/ /\ \A i \in 1 .. j - 1 :
          Waiting[i].grp = Waiting[j].grp => Waiting[i].ser < Waiting[j].ser
     /\ \A m \in delivered :
          m.grp = Waiting[j].grp => m.ser < Waiting[j].ser

LEMMA OrderedStep ==
  ASSUME BURST <= 1, RingInv, ~Renewed, ~Renewed', Ordered, [Next]_vars
  PROVE  Ordered'
<1>0. /\ RingType /\ HardwareType /\ LoopType /\ StillThere /\ InStep
      /\ pc \in {"idle", "header", "data", "pop"}
      /\ Waiting \in Seq(Msg) /\ CopyInv
      /\ Known /\ BoxInv /\ Younger /\ InOrder
  BY DEF RingInv, InOneStack, TypeInv, TypeOK, Ordered
<1>1. InOrder' <=> \A j \in 1 .. count' : Placed(j)'
  BY DEF InOrder, Placed
<1>2. \A j \in 1 .. count : Placed(j)
  BY <1>0 DEF InOrder, Placed
<1>3. /\ count \in Nat /\ \A j \in 1 .. count : Waiting[j] \in InStack
      /\ \A j \in 1 .. count : Waiting[j] \in Msg
  <2>1. Len(Waiting) = count /\ count \in Nat
    BY <1>0, InStackIs
  <2> QED
    BY <1>0, <2>1 DEF InStack
<1> USE <1>0 DEF MainRuns, ring, hw, hist, cfg
<1>4. ASSUME UNCHANGED <<stack, st, count, delivered, resent>>
      PROVE  InOrder' /\ Seen' = Seen
  <2>1. Waiting' = Waiting
    BY <1>4, WaitingUnchanged
  <2>2. \A j \in 1 .. count : Placed(j)'
    BY <1>2, <1>4, <2>1 DEF Placed
  <2> QED
    BY <1>1, <1>4, <2>1, <2>2 DEF Seen, InStack
<1>5. ASSUME UNCHANGED <<sent, box, stack, st, count, delivered, resent>>, BoxInv'
      PROVE  Ordered'
  <2>1. InOrder' /\ Seen' = Seen
    BY <1>4, <1>5
  <2>2. ASSUME NEW b PROVE (Pending(b)' <=> Pending(b)) /\ (Fresh(b)' <=> Fresh(b))
    BY <1>5 DEF Pending, Fresh
  <2>3. InBoxes' = InBoxes /\ OnBus' = OnBus
    BY <1>5 DEF InBoxes, OnBus
  <2>4. Known'
    BY <1>5, <2>1, <2>2, <2>3 DEF Known
  <2>5. Younger'
    BY <1>5, <2>1, <2>2 DEF Younger
  <2> QED
    BY <1>5, <2>1, <2>4, <2>5 DEF Ordered
<1>6. CASE Tick \/ ReceiveTest \/ CopyHeader \/ CopyData \/ UNCHANGED vars
  <2>1. UNCHANGED <<sent, box, isr, burst, stack, st, count, delivered, resent>>
    BY <1>6 DEF Tick, ReceiveTest, CopyHeader, CopyData, vars
  <2> QED
    BY <1>5, <2>1, BoxesUnchanged
<1>7. CASE IsrEnter
  BY <1>5, <1>7, EnterBoxes DEF IsrEnter
<1>8. CASE IsrLeave
  BY <1>5, <1>8, LeaveBoxes DEF IsrLeave
<1>9. ASSUME NEW g \in Groups, FrameArrives(g)
      PROVE  Ordered'
  <2>1. PICK b \in BoxesOf(g) :
          /\ b \in Boxes /\ GroupOf(b) = g
          /\ \A c \in Boxes : c # b => box'[c] = box[c]
          /\ box'[b] = [msg |-> [grp |-> g, ser |-> sent[g] + 1], lost |-> Pending(b)]
    BY <1>9, ArriveStep
  <2>2. UNCHANGED <<stack, st, count, delivered, resent>>
    BY <1>9 DEF FrameArrives
  <2>3. InOrder' /\ Seen' = Seen
    BY <1>4, <2>2
  <2> DEFINE new == [grp |-> g, ser |-> sent[g] + 1]
  <2>4. /\ sent[g] \in Nat /\ sent[g] + 1 \in 1 .. FRAMES /\ new \in Msg
        /\ sent' = [sent EXCEPT ![g] = sent[g] + 1]
    BY <1>9, SetFacts, RxAssumption DEF FrameArrives, HardwareType, RxAssumption
  <2>5. box'[b].msg = new /\ new.ser = sent[g] + 1 /\ new.grp = g /\ sent'[g] = sent[g] + 1
    BY <2>1, <2>4 DEF HardwareType
  <2> HIDE DEF new
  <2>6. OnBus \subseteq OnBus' /\ new \in OnBus'
    <3>1. ASSUME NEW m \in OnBus PROVE m \in OnBus'
      <4>1. m \in Msg /\ m.grp \in Groups /\ m.ser \in Nat /\ m.ser <= sent[m.grp]
        BY <3>1, OnBusFacts
      <4>2. sent'[m.grp] = IF m.grp = g THEN sent[g] + 1 ELSE sent[m.grp]
        BY <2>4, <4>1 DEF HardwareType
      <4> QED
        BY <2>4, <4>1, <4>2 DEF OnBus
    <3>2. new \in OnBus'
      BY <2>4, <2>5 DEF OnBus
    <3> QED
      BY <3>1, <3>2
  <2>7. Known'
    <3>1. InBoxes' \subseteq InBoxes \cup {new}
      BY <2>1, <2>5 DEF InBoxes
    <3>2. \A c \in Boxes : Pending(c)' => box'[c].msg.grp = GroupOf(c)
      BY <2>1, <2>5 DEF Known, Pending
    <3> QED
      BY <2>2, <2>3, <2>6, <3>1, <3>2 DEF Known
  <2>8. Younger'
    <3> SUFFICES ASSUME NEW c \in Boxes, Fresh(c)', NEW m \in Seen, m.grp = GroupOf(c)
                 PROVE  m.ser < box'[c].msg.ser
      BY <2>3 DEF Younger
    <3>1. CASE c = b
      <4>1. m.ser \in Nat /\ m.ser <= sent[g]
        BY <2>1, <3>1, OnBusFacts DEF Known
      <4> QED
        BY <2>4, <2>5, <3>1, <4>1
    <3>2. CASE c # b
      <4>1. box'[c] = box[c] /\ Fresh(c)
        BY <2>1, <2>2, <3>2 DEF Fresh, Pending
      <4> QED
        BY <4>1 DEF Younger
    <3> QED
      BY <3>1, <3>2
  <2> QED
    BY <1>9, <2>3, <2>7, <2>8, ArriveBoxes DEF Ordered
<1>10. CASE IsrRead
  <2> DEFINE m == box[isr].msg
  <2>1. /\ isr \in Boxes /\ Pending(isr) /\ m \in Msg
        /\ \A b \in Boxes : b # isr => box'[b] = box[b]
        /\ \/ box'[isr].msg = NoMsg
           \/ box[isr].lost /\ box'[isr].msg = m
    BY <1>10, ReadStep
  <2>2. /\ Store(m) /\ st' = st /\ delivered' = delivered /\ sent' = sent
        /\ resent' = IF box[isr].lost THEN resent \cup {m} ELSE resent
    BY <1>10 DEF IsrRead
  <2>3. m \in OnBus /\ m.grp = GroupOf(isr)
    BY <2>1, HeldFacts
  <2>4. \/ count' = count /\ Waiting' = Waiting /\ InStack' = InStack
        \/ /\ count' = count + 1
           /\ \A i \in 1 .. count : Waiting'[i] = Waiting[i]
           /\ Waiting'[count + 1] = m
           /\ InStack' = InStack \cup {m}
    <3> HIDE DEF m
    <3> QED
      BY <2>1, <2>2, StoredSet
  <2>5. Seen' \subseteq Seen \cup {m} /\ OnBus' = OnBus
    BY <2>2, <2>4 DEF Seen, OnBus
  <2>6. Known'
    <3>1. InBoxes' \subseteq InBoxes \cup {m}
      BY <2>1 DEF InBoxes
    <3>2. \A c \in Boxes : Pending(c)' => box'[c].msg.grp = GroupOf(c)
      BY <2>1, <2>3 DEF Known, Pending
    <3> QED
      BY <2>2, <2>3, <2>5, <3>1, <3>2 DEF Known
  <2>7. Younger'
    <3> SUFFICES ASSUME NEW c \in Boxes, Fresh(c)', NEW n \in Seen', n.grp = GroupOf(c)
                 PROVE  n.ser < box'[c].msg.ser
      BY DEF Younger
    <3>0. PICK r \in Boxes : r = isr
      BY <2>1
    <3>1. c # isr /\ Fresh(c) /\ box'[c] = box[c]
      BY <1>10, <2>1, <3>0, ReadOnce, ReadFresh
    <3>2. CASE n \in Seen
      BY <3>1, <3>2 DEF Younger
    <3>3. CASE n = m
      BY <1>10, <2>3, <3>0, <3>1, <3>3, ReadFresh
    <3> QED
      BY <2>5, <3>2, <3>3
  <2>8. m \in resent' \/ Fresh(isr)
    BY <2>1, <2>2 DEF Fresh
  <2>9. InOrder'
    <3>1. \A j \in 1 .. count : Waiting'[j] = Waiting[j]
      BY <2>4
    <3>2. ASSUME NEW j \in 1 .. count PROVE Placed(j)'
      <4>1. \A i \in 1 .. j - 1 : Waiting'[i] = Waiting[i]
        BY <1>3, <3>1
      <4>2. Waiting'[j] = Waiting[j] /\ resent \subseteq resent'
        BY <2>2, <3>1
      <4> QED
        BY <1>2, <2>2, <4>1, <4>2 DEF Placed
    <3>3. CASE count' = count
      BY <1>1, <3>2, <3>3
    <3>4. CASE count' = count + 1 /\ Waiting'[count + 1] = m
      <4>0. PICK last \in Nat : last = count + 1
        BY <1>3
      <4>1. CASE m \in resent'
        <5>1. Placed(last)'
          BY <3>4, <4>0, <4>1 DEF Placed
        <5> QED
          BY <1>1, <1>3, <3>2, <3>4, <4>0, <5>1
      <4>2. CASE Fresh(isr)
        <5>1. \A n \in Seen : n.grp = m.grp => n.ser < m.ser
          BY <2>1, <2>3, <4>2 DEF Younger
        <5>2. \A i \in 1 .. last - 1 : Waiting'[i] \in Seen
          BY <1>3, <3>1, <4>0 DEF Seen
        <5>3. Placed(last)'
          BY <2>2, <3>4, <4>0, <5>1, <5>2 DEF Placed, Seen
        <5> QED
          BY <1>1, <1>3, <3>2, <3>4, <4>0, <5>3
      <4> QED
        BY <2>8, <4>1, <4>2
    <3> QED
      BY <2>4, <3>3, <3>4
  <2> QED
    BY <1>10, <2>6, <2>7, <2>9, ReadBoxes DEF Ordered
<1>11. CASE Pop
  <2>1. /\ count' = count - 1 /\ reg.dt = Waiting[1] /\ count \in Nat \ {0}
        /\ \A i \in 1 .. count - 1 : Waiting'[i] = Waiting[i + 1]
        /\ InStack = InStack' \cup {reg.dt}
    BY <1>11, PoppedSet
  <2>2. /\ delivered' = delivered \cup {reg.dt}
        /\ UNCHANGED <<sent, box, isr, burst, resent>>
    BY <1>11 DEF Pop
  <2>3. Seen' = Seen
    BY <2>1, <2>2 DEF Seen
  <2>4. ASSUME NEW b PROVE (Pending(b)' <=> Pending(b)) /\ (Fresh(b)' <=> Fresh(b))
    BY <2>2 DEF Pending, Fresh
  <2>5. InBoxes' = InBoxes /\ OnBus' = OnBus
    BY <2>2 DEF InBoxes, OnBus
  <2>6. Known' /\ Younger'
    BY <2>2, <2>3, <2>4, <2>5 DEF Known, Younger
  <2>7. InOrder'
    <3> SUFFICES ASSUME NEW j \in 1 .. count - 1 PROVE Placed(j)'
      BY <1>1, <2>1
    <3>1. j + 1 \in 1 .. count /\ Waiting'[j] = Waiting[j + 1] /\ Placed(j + 1)
      BY <1>2, <2>1
    <3>2. ASSUME NEW i \in 1 .. j - 1
          PROVE  Waiting'[i] = Waiting[i + 1] /\ i + 1 \in 1 .. (j + 1) - 1
      BY <2>1
    <3>3. 1 \in 1 .. (j + 1) - 1
      OBVIOUS
    <3> QED
      BY <2>1, <2>2, <3>1, <3>2, <3>3 DEF Placed
  <2> QED
    BY <2>2, <2>6, <2>7, BoxesUnchanged DEF Ordered
<1>12. CASE ClearRX_BUFF
  <2>1. /\ count' = 0 /\ UNCHANGED <<sent, box, isr, burst, resent, delivered>>
    BY <1>12 DEF ClearRX_BUFF
  <2>2. InStack' = {} /\ Seen' \subseteq Seen
    BY <2>1 DEF InStack, Seen
  <2>3. ASSUME NEW b PROVE (Pending(b)' <=> Pending(b)) /\ (Fresh(b)' <=> Fresh(b))
    BY <2>1 DEF Pending, Fresh
  <2>4. InBoxes' = InBoxes /\ OnBus' = OnBus
    BY <2>1 DEF InBoxes, OnBus
  <2>5. Known' /\ Younger'
    BY <2>1, <2>2, <2>3, <2>4 DEF Known, Younger
  <2>6. InOrder'
    BY <1>1, <2>1
  <2> QED
    BY <2>1, <2>5, <2>6, BoxesUnchanged DEF Ordered
<1>13. ~Setup
  BY RxAssumption DEF Setup, SetupStart, SetupEnd, SetupCount, ConfigMsgBox,
                      Renewed, LoopType, RxAssumption
<1> QED
  BY <1>6, <1>7, <1>8, <1>9, <1>10, <1>11, <1>12, <1>13 DEF Next, Isr, Receive

\* Messages of one group reach CAN_ReceiveMessage in the order of the bus,
\* whatever fills the boxes behind the handler's back, at any number of boxes,
\* as long as a frame takes longer than one turn of the handler's loop.
THEOREM OrderOfBusKept ==
  ASSUME BURST <= 1
  PROVE  Spec => []InOrder
<1> DEFINE OrderInv == Renewed \/ Ordered
<1>1. Init /\ RingInv => OrderInv
  <2> SUFFICES ASSUME Init, RingInv PROVE Ordered
    OBVIOUS
  <2>1. HardwareType /\ RingType
    BY DEF RingInv, TypeInv, TypeOK
  <2>2. \A b \in Boxes : ~Pending(b) /\ box[b].lost = FALSE
    BY DEF Init, Pending
  <2>3. InStack = {} /\ Seen = {} /\ InBoxes = {}
    BY <2>2 DEF Init, InStack, Seen, InBoxes, Pending
  <2>4. Known
    BY <2>2, <2>3 DEF Init, Known
  <2>5. Turn = SINGLE_BOXES + 1
    BY <2>1, BoxFacts DEF Init, Turn
  <2>6. BoxInv
    BY <2>1, <2>2, <2>5, BoxFacts DEF BoxInv, LostLast, NoGap, BusOrder, Fresh
  <2>7. Younger
    BY <2>3 DEF Younger
  <2>8. InOrder
    BY DEF Init, InOrder
  <2> QED
    BY <2>4, <2>6, <2>7, <2>8 DEF Ordered
<1>2. OrderInv /\ RingInv /\ [Next]_vars => OrderInv'
  BY OrderedStep, RenewedStays DEF RingInv
<1>3. OrderInv => InOrder
  BY DEF Ordered, InOrder
<1> HIDE DEF OrderInv
<1> QED
  BY <1>1, <1>2, <1>3, RingInvariant, PTL DEF Spec
=============================================================================
