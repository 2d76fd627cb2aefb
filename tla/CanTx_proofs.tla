----------------------------- MODULE CanTx_proofs -----------------------------
(***************************************************************************)
(* Theorems about CanTx, for every stack size, number of receive boxes and *)
(* number of messages.  Type correctness and NoStall hold through every    *)
(* re-initialisation of the live line; the ring stays consistent and the   *)
(* order is kept until the first one.                                      *)
(***************************************************************************)
EXTENDS CanTx, MessageRing_proofs

\* The facts about the constant sets the proofs rest on.
LEMMA SetFacts ==
  /\ Msg \subseteq Frame /\ NoMsg \notin Frame
  /\ 0 \in Frame /\ 0 \in Slots /\ 1 \in Boxes
  /\ \A n \in 1 .. MSGS + 1 : n <= MSGS => n \in Msg /\ n + 1 \in 1 .. MSGS + 1
  BY TxAssumption, NoMsgAssumption
     DEF TxAssumption, NoMsgAssumption, Msg, Frame, Slots, Boxes

\* The stack is one in the sense of MessageRing_proofs.
LEMMA IsStack ==
  ASSUME RingType
  PROVE  Stack(Frame, stack, st, count, MAX_STACK_MSG_TX)
  BY TxAssumption DEF TxAssumption, RingType, Slots, Stack

\* Both indices stay inside the stack when they advance.
LEMMA IndexSteps ==
  ASSUME RingType
  PROVE  /\ After(st, MAX_STACK_MSG_TX) \in Slots
         /\ After(end, MAX_STACK_MSG_TX) \in Slots
  BY TxAssumption DEF RingType, Slots, TxAssumption, After, Wrap

\* What waits in the stack are frames.
LEMMA InStackType ==
  ASSUME RingType
  PROVE  InStack \subseteq Frame
<1>1. Waiting \in Seq(Frame) /\ Len(Waiting) = count
  BY IsStack, SegmentSeq DEF Waiting
<1> QED
  BY <1>1 DEF InStack

\* TypeOK alone is not inductive: Enqueue stores arg, which must be a message
\* by then.
ArgIsMessage == pc = "enqueue" => arg \in Msg
TypeInv == TypeOK /\ ArgIsMessage

\* The type invariant with its strengthening is kept by every step.
LEMMA TypeInvariant == Spec => []TypeInv
<1>1. Init => TypeInv
  <2> SUFFICES ASSUME Init PROVE TypeInv
    OBVIOUS
  <2>1. RingType
    BY TxAssumption, SetFacts DEF Init, RingType, TxAssumption
  <2>2. HardwareType
    BY DEF Init, HardwareType
  <2>3. LoopType /\ ArgIsMessage
    BY TxAssumption, SetFacts DEF Init, LoopType, ArgIsMessage, TxAssumption
  <2> QED
    BY <2>1, <2>2, <2>3 DEF TypeInv, TypeOK
<1>2. TypeInv /\ [Next]_vars => TypeInv'
  <2> SUFFICES ASSUME TypeInv, [Next]_vars
               PROVE  TypeInv'
    OBVIOUS
  <2> USE SetFacts DEF TypeInv, TypeOK, ArgIsMessage, MainRuns, ring, box32, cfg
  <2>1. CASE SendDirect
    <3>1. RingType'
      BY <2>1 DEF SendDirect, Load, RingType
    <3>2. HardwareType'
      BY <2>1 DEF SendDirect, Load, HardwareType, LoopType
    <3>3. LoopType' /\ ArgIsMessage'
      BY <2>1 DEF SendDirect, Load, LoopType
    <3> QED
      BY <3>1, <3>2, <3>3
  <2>2. CASE SendRefused
    <3>1. RingType'
      BY <2>2 DEF SendRefused, RingType
    <3>2. HardwareType'
      BY <2>2 DEF SendRefused, HardwareType
    <3>3. LoopType' /\ ArgIsMessage'
      BY <2>2 DEF SendRefused, LoopType
    <3> QED
      BY <3>1, <3>2, <3>3
  <2>3. CASE Enqueue
    <3>1. RingType'
      BY <2>3, IndexSteps, TxAssumption DEF Enqueue, RingType, TxAssumption
    <3>2. HardwareType'
      BY <2>3 DEF Enqueue, HardwareType
    <3>3. LoopType' /\ ArgIsMessage'
      BY <2>3 DEF Enqueue, LoopType
    <3> QED
      BY <3>1, <3>2, <3>3
  <2>4. CASE IsrTransmit
    <3>1. RingType'
      BY <2>4, IndexSteps, TxAssumption DEF IsrTransmit, SendFifoCanMsg, Load, RingType, TxAssumption
    <3>2. HardwareType'
      BY <2>4 DEF IsrTransmit, SendFifoCanMsg, Load, HardwareType, RingType
    <3>3. LoopType' /\ ArgIsMessage'
      BY <2>4 DEF IsrTransmit, SendFifoCanMsg, Load, LoopType, RingType
    <3> QED
      BY <3>1, <3>2, <3>3
  <2>5. CASE IsrStatus
    <3>1. RingType'
      BY <2>5 DEF IsrStatus, RingType
    <3>2. HardwareType'
      BY <2>5 DEF IsrStatus, HardwareType
    <3>3. LoopType' /\ ArgIsMessage'
      BY <2>5 DEF IsrStatus, LoopType
    <3> QED
      BY <3>1, <3>2, <3>3
  <2>6. CASE TransmissionDone
    <3>1. RingType'
      BY <2>6 DEF TransmissionDone, RingType
    <3>2. HardwareType'
      BY <2>6 DEF TransmissionDone, HardwareType
    <3>3. LoopType' /\ ArgIsMessage'
      BY <2>6 DEF TransmissionDone, LoopType, HardwareType
    <3> QED
      BY <3>1, <3>2, <3>3
  <2>7. CASE BusOff
    <3>1. RingType'
      BY <2>7 DEF BusOff, RingType
    <3>2. HardwareType'
      BY <2>7 DEF BusOff, HardwareType
    <3>3. LoopType' /\ ArgIsMessage'
      BY <2>7 DEF BusOff, LoopType
    <3> QED
      BY <3>1, <3>2, <3>3
  <2>8. CASE ClearTX_BUFF
    <3>1. RingType'
      BY <2>8, TxAssumption DEF ClearTX_BUFF, RingType, TxAssumption
    <3>2. HardwareType'
      BY <2>8 DEF ClearTX_BUFF, HardwareType
    <3>3. LoopType' /\ ArgIsMessage'
      BY <2>8, InStackType DEF ClearTX_BUFF, LoopType
    <3> QED
      BY <3>1, <3>2, <3>3
  <2>9. CASE SetupStart
    <3>1. RingType'
      BY <2>9 DEF SetupStart, RingType
    <3>2. HardwareType'
      BY <2>9 DEF SetupStart, HardwareType
    <3>3. LoopType' /\ ArgIsMessage'
      BY <2>9, InStackType, TxAssumption DEF SetupStart, LoopType, TxAssumption
    <3> QED
      BY <3>1, <3>2, <3>3
  <2>10. CASE SetupEnd
    <3>1. RingType'
      BY <2>10 DEF SetupEnd, RingType
    <3>2. HardwareType'
      BY <2>10 DEF SetupEnd, HardwareType
    <3>3. LoopType' /\ ArgIsMessage'
      BY <2>10 DEF SetupEnd, LoopType
    <3> QED
      BY <3>1, <3>2, <3>3
  <2>11. CASE SetupCount
    <3>1. RingType'
      BY <2>11, TxAssumption DEF SetupCount, RingType, TxAssumption
    <3>2. HardwareType'
      BY <2>11 DEF SetupCount, HardwareType
    <3>3. LoopType' /\ ArgIsMessage'
      BY <2>11 DEF SetupCount, LoopType
    <3> QED
      BY <3>1, <3>2, <3>3
  <2>12. CASE CAN_init
    <3>1. RingType'
      BY <2>12 DEF CAN_init, RingType
    <3>2. HardwareType'
      BY <2>12 DEF CAN_init, HardwareType
    <3>3. LoopType' /\ ArgIsMessage'
      BY <2>12 DEF CAN_init, LoopType
    <3> QED
      BY <3>1, <3>2, <3>3
  <2>13. CASE BoxFill
    <3>1. RingType'
      BY <2>13 DEF BoxFill, RingType
    <3>2. HardwareType'
      BY <2>13 DEF BoxFill, HardwareType
    <3>3. LoopType' /\ ArgIsMessage'
      BY <2>13 DEF BoxFill, LoopType
    <3> QED
      BY <3>1, <3>2, <3>3
  <2>14. CASE BoxCommit
    <3>1. RingType'
      BY <2>14 DEF BoxCommit, RingType
    <3>2. HardwareType'
      BY <2>14 DEF BoxCommit, HardwareType, LoopType
    <3>3. LoopType' /\ ArgIsMessage'
      BY <2>14, TxAssumption DEF BoxCommit, LoopType, Boxes, TxAssumption
    <3> QED
      BY <3>1, <3>2, <3>3
  <2>15. CASE UNCHANGED vars
    BY <2>15 DEF vars, RingType, HardwareType, LoopType
  <2> QED
    BY <2>1, <2>2, <2>3, <2>4, <2>5, <2>6, <2>7, <2>8, <2>9, <2>10, <2>11,
       <2>12, <2>13, <2>14, <2>15 DEF Next, Send, Isr, Bus, Setup
<1> QED
  BY <1>1, <1>2, PTL DEF Spec

\* The indices stay inside the stack and the count below its limit whatever
\* the interleaving of main loop, handler, controller and re-initialisation
\* (can.c CAN_SendMessage, SendFifoCanMsg, InitCanFifoBuf).
THEOREM TypeCorrect == Spec => []TypeOK
<1>1. TypeInv => TypeOK
  BY DEF TypeInv
<1> QED
  BY <1>1, TypeInvariant, PTL

\* The stack can never be left with messages and nobody to send them: while a
\* message waits, or is about to, a transmission or its interrupt is pending.
\* This holds through bus-off and through a re-initialisation of the live line.
THEOREM NeverStalls == Spec => []NoStall
<1>1. Init => NoStall
  BY DEF Init, NoStall, Locked
<1>2. TypeInv /\ NoStall /\ [Next]_vars => NoStall'
  <2> SUFFICES ASSUME TypeInv, NoStall, [Next]_vars
               PROVE  NoStall'
    OBVIOUS
  <2> USE SetFacts DEF NoStall, Locked, MainRuns, ring, box32, cfg
  <2>1. CASE SendDirect
    <3>1. next \in Frame
      BY <2>1 DEF SendDirect, TypeInv, TypeOK, LoopType
    <3> QED
      BY <2>1, <3>1 DEF SendDirect, Load
  <2>2. CASE SendRefused
    BY <2>2 DEF SendRefused
  <2>3. CASE Enqueue
    BY <2>3 DEF Enqueue
  <2>4. CASE IsrTransmit
    <3>1. CASE count # 0
      <4>1. stack[st] \in Frame
        BY DEF TypeInv, TypeOK, RingType
      <4> QED
        BY <2>4, <3>1, <4>1 DEF IsrTransmit, SendFifoCanMsg, Load
    <3>2. CASE count = 0
      BY <2>4, <3>2 DEF IsrTransmit, SendFifoCanMsg
    <3> QED
      BY <3>1, <3>2
  <2>5. CASE IsrStatus \/ BusOff
    BY <2>5 DEF IsrStatus, BusOff
  <2>6. CASE TransmissionDone
    BY <2>6 DEF TransmissionDone
  <2>7. CASE ClearTX_BUFF \/ SetupCount
    BY <2>7 DEF ClearTX_BUFF, SetupCount
  <2>8. CASE SetupStart \/ SetupEnd \/ CAN_init \/ BoxFill \/ BoxCommit
    BY <2>8 DEF SetupStart, SetupEnd, CAN_init, BoxFill, BoxCommit
  <2>9. CASE UNCHANGED vars
    BY <2>9 DEF vars
  <2> QED
    BY <2>1, <2>2, <2>3, <2>4, <2>5, <2>6, <2>7, <2>8, <2>9
       DEF Next, Send, Isr, Bus, Setup
<1> QED
  BY <1>1, <1>2, TypeInvariant, PTL DEF Spec

-----------------------------------------------------------------------------
\* Until SetupCAN runs on the live line the ring is consistent in every state;
\* the program counter never leaves CAN_SendMessage.
InOneStack == InStep /\ pc \in {"idle", "enqueue"}

RingInv == TypeInv /\ (Renewed \/ InOneStack)

\* Nothing takes the re-initialisation back.
LEMMA RenewedStays ==
  ASSUME TypeInv, Renewed, [Next]_vars
  PROVE  Renewed'
<1> USE DEF Renewed, MainRuns, cfg, TypeInv, TypeOK, LoopType
<1>1. CASE SetupStart
  BY <1>1, TxAssumption DEF SetupStart, TxAssumption
<1>2. CASE Send \/ Isr \/ Bus \/ ClearTX_BUFF \/ UNCHANGED vars
  BY <1>2 DEF Send, SendDirect, SendRefused, Enqueue, Isr, IsrTransmit, IsrStatus,
              Bus, TransmissionDone, BusOff, ClearTX_BUFF, vars
<1>3. CASE SetupEnd \/ SetupCount \/ CAN_init \/ BoxFill \/ BoxCommit
  BY <1>3 DEF SetupEnd, SetupCount, CAN_init, BoxFill, BoxCommit
<1> QED
  BY <1>1, <1>2, <1>3 DEF Next, Setup

\* Only SetupCAN sets it.
LEMMA RenewedBySetup ==
  ASSUME [Next]_vars, ~Renewed, Renewed'
  PROVE  SetupStart
  BY DEF Next, Send, SendDirect, SendRefused, Enqueue, Isr, IsrTransmit, IsrStatus,
         Bus, TransmissionDone, BusOff, ClearTX_BUFF, Setup, SetupEnd, SetupCount,
         CAN_init, BoxFill, BoxCommit, vars, cfg, Renewed

\* Index arithmetic of one step of the writer and one of the reader.
LEMMA WrapSteps ==
  ASSUME RingType, InStep
  PROVE  /\ After(end, MAX_STACK_MSG_TX) = Wrap(st + (count + 1), MAX_STACK_MSG_TX)
         /\ count # 0 => end = Wrap(After(st, MAX_STACK_MSG_TX) + (count - 1),
                                    MAX_STACK_MSG_TX)
  BY TxAssumption
     DEF RingType, InStep, After, Wrap, Slots, TxAssumption

LEMMA RingInvariant == Spec => []RingInv
<1>1. Init /\ TypeInv => RingInv
  BY TxAssumption DEF Init, RingInv, InOneStack, InStep, Wrap, TxAssumption
<1>2. RingInv /\ TypeInv' /\ [Next]_vars => RingInv'
  <2> SUFFICES ASSUME RingInv, TypeInv', [Next]_vars, ~Renewed, ~Renewed'
               PROVE  InStep' /\ pc' \in {"idle", "enqueue"}
    BY RenewedStays DEF RingInv, InOneStack
  <2>0. RingType /\ InStep /\ pc \in {"idle", "enqueue"}
    BY DEF RingInv, InOneStack, TypeInv, TypeOK
  <2> USE <2>0 DEF InStep, MainRuns, ring, box32, cfg
  <2>1. CASE SendDirect \/ SendRefused
    BY <2>1 DEF SendDirect, SendRefused, Wrap
  <2>2. CASE Enqueue
    BY <2>2, WrapSteps DEF Enqueue, Wrap
  <2>3. CASE IsrTransmit
    BY <2>3, WrapSteps DEF IsrTransmit, SendFifoCanMsg, Wrap
  <2>4. CASE IsrStatus \/ Bus
    BY <2>4 DEF IsrStatus, Bus, TransmissionDone, BusOff, Wrap
  <2>5. CASE ClearTX_BUFF
    BY <2>5, TxAssumption DEF ClearTX_BUFF, Wrap, TxAssumption
  <2>6. CASE Setup
    <3>1. ~SetupStart
      BY TxAssumption DEF SetupStart, Renewed, RingInv, TypeInv, TypeOK, LoopType,
                          TxAssumption
    <3> QED
      BY <2>6, <3>1 DEF Setup, SetupEnd, SetupCount, CAN_init, BoxFill, BoxCommit
  <2>7. CASE UNCHANGED vars
    BY <2>7 DEF vars, Wrap
  <2> QED
    BY <2>1, <2>2, <2>3, <2>4, <2>5, <2>6, <2>7 DEF Next, Send, Isr
<1> QED
  BY <1>1, <1>2, TypeInvariant, PTL DEF Spec

\* The writer's index, the reader's index and the counter always describe one
\* segment of the stack, whoever interrupts whom, until SetupCAN is called on
\* the live line (can.c CAN_SendMessage, SendFifoCanMsg).
THEOREM RingStaysConsistent == Spec => []RingConsistent
<1>1. RingInv => RingConsistent
  BY DEF RingInv, InOneStack, RingConsistent
<1> QED
  BY <1>1, RingInvariant, PTL

-----------------------------------------------------------------------------
(* CanTx implements LossyFifo: Waiting is its queue, loaded its taken.      *)

\* What waits does not change with the other variables.
LEMMA WaitingUnchanged ==
  ASSUME UNCHANGED <<stack, st, count>>
  PROVE  Waiting' = Waiting
  BY DEF Waiting, Segment, Wrap

\* An empty stack maps to the empty queue.
LEMMA EmptyStack ==
  ASSUME count = 0
  PROVE  Waiting = <<>>
  BY SegmentEmpty DEF Waiting

\* CAN_SendMessage and SendFifoCanMsg together are a bounded first-in first-out
\* queue in front of the mailbox: the direct path never overtakes what waits,
\* nothing is duplicated, and a message is lost only when MAX_STACK_MSG_TX - 2
\* wait already or the stack is cleared.
THEOREM RefinesFifo == Spec => ImplementsFifo
<1> DEFINE queue == IF Renewed THEN <<>> ELSE Waiting
<1>1. Init => Abstract!Init
  BY EmptyStack DEF Init, Abstract!Init
<1>2. RingInv /\ [Next]_vars => [Abstract!Next]_(Abstract!vars)
  <2> SUFFICES ASSUME RingInv, [Next]_vars
               PROVE  Abstract!Next \/ UNCHANGED <<queue, loaded>>
    BY DEF Abstract!vars
  <2>10. CASE Renewed
    <3>1. Renewed'
      BY <2>10, RenewedStays DEF RingInv
    <3>2. loaded' = loaded
      BY <2>10 DEF Next, Send, SendDirect, SendRefused, Enqueue, Load, Isr,
                   IsrTransmit, SendFifoCanMsg, IsrStatus, Bus, TransmissionDone,
                   BusOff, ClearTX_BUFF, Setup, SetupStart, SetupEnd, SetupCount,
                   CAN_init, BoxFill, BoxCommit, vars
    <3> QED
      BY <2>10, <3>1, <3>2
  <2>11. CASE ~Renewed /\ Renewed'
    BY <2>11, RenewedBySetup DEF SetupStart, Abstract!Next, Abstract!Discard
  <2> SUFFICES ASSUME ~Renewed, ~Renewed'
               PROVE  Abstract!Next \/ UNCHANGED <<Waiting, loaded>>
    BY <2>10, <2>11
  <2>0. RingType /\ InStep /\ pc \in {"idle", "enqueue"}
    BY DEF RingInv, InOneStack, TypeInv, TypeOK
  <2> USE DEF MainRuns, ring, Abstract!Next
  <2>1. CASE SendDirect
    <3>1. next \in Msg
      BY <2>1, SetFacts DEF SendDirect, RingInv, TypeInv, TypeOK, LoopType
    <3>2. Waiting = <<>> /\ Waiting' = Waiting
      BY <2>1, EmptyStack, WaitingUnchanged DEF SendDirect
    <3> QED
      BY <2>1, <3>1, <3>2 DEF SendDirect, Load, Abstract!PassThrough
  <2>2. CASE SendRefused
    BY <2>2, WaitingUnchanged DEF SendRefused
  <2>3. CASE Enqueue
    <3>1. arg \in Msg /\ arg \in Frame
      BY <2>3, SetFacts DEF Enqueue, RingInv, TypeInv, ArgIsMessage
    <3>2. CASE count = MAX_STACK_MSG_TX - 2
      BY <2>3, <3>2, WaitingUnchanged DEF Enqueue
    <3>3. CASE count # MAX_STACK_MSG_TX - 2
      <4>1. count < MAX_STACK_MSG_TX - 2 /\ count < MAX_STACK_MSG_TX
        BY <2>0, <3>3, TxAssumption DEF RingType, TxAssumption
      <4>2. /\ stack' = Write(stack, Wrap(st + count, MAX_STACK_MSG_TX), arg)
            /\ st' = st /\ count' = count + 1 /\ loaded' = loaded
        BY <2>0, <2>3, <3>3 DEF Enqueue, InStep, Write
      <4>3. Waiting' = Append(Waiting, arg)
        <5>1. Stack(Frame, stack, st, count, MAX_STACK_MSG_TX)
          BY <2>0, IsStack
        <5>2. Segment(Write(stack, Wrap(st + count, MAX_STACK_MSG_TX), arg),
                      st, count + 1, MAX_STACK_MSG_TX)
              = Append(Segment(stack, st, count, MAX_STACK_MSG_TX), arg)
          BY <3>1, <4>1, <5>1, SegmentAppend
        <5> QED
          BY <4>2, <5>2 DEF Waiting
      <4>4. Len(Waiting) = count
        BY <2>0, IsStack, SegmentSeq DEF Waiting
      <4> QED
        BY <3>1, <4>1, <4>2, <4>3, <4>4 DEF Abstract!Accept
    <3> QED
      BY <3>2, <3>3
  <2>4. CASE IsrTransmit
    <3>1. CASE count # 0
      <4>1. /\ loaded' = stack[st] /\ stack' = stack
            /\ st' = After(st, MAX_STACK_MSG_TX) /\ count' = count - 1
        BY <2>4, <3>1 DEF IsrTransmit, SendFifoCanMsg, Load
      <4>2. /\ Waiting # <<>> /\ Head(Waiting) = stack[st]
            /\ Waiting' = Tail(Waiting)
        BY <2>0, <3>1, <4>1, IsStack, SegmentTail DEF Waiting
      <4> QED
        BY <4>1, <4>2 DEF Abstract!Take
    <3>2. CASE count = 0
      BY <2>4, <3>2, WaitingUnchanged DEF IsrTransmit, SendFifoCanMsg
    <3> QED
      BY <3>1, <3>2
  <2>5. CASE IsrStatus \/ Bus
    BY <2>5, WaitingUnchanged DEF IsrStatus, Bus, TransmissionDone, BusOff
  <2>6. CASE ClearTX_BUFF
    <3>1. Waiting' = <<>>
      BY <2>6, SegmentEmpty DEF ClearTX_BUFF, Waiting, Segment
    <3> QED
      BY <2>6, <3>1 DEF ClearTX_BUFF, Abstract!Discard
  <2>7. ~Setup
    <3>1. ~SetupStart
      BY TxAssumption DEF SetupStart, Renewed, RingInv, TypeInv, TypeOK, LoopType,
                          TxAssumption
    <3> QED
      BY <2>0, <3>1 DEF Setup, SetupEnd, SetupCount, CAN_init, BoxFill, BoxCommit
  <2>8. CASE UNCHANGED vars
    BY <2>8, WaitingUnchanged DEF vars
  <2> QED
    BY <2>1, <2>2, <2>3, <2>4, <2>5, <2>6, <2>7, <2>8 DEF Next, Send, Isr
<1> QED
  BY <1>1, <1>2, RingInvariant, PTL DEF Spec, ImplementsFifo, Abstract!Spec
=============================================================================
