--------------------------- MODULE CcidSlotProofs ---------------------------
(***************************************************************************)
(* Theorems about CcidSlot, for every value of its constants: in           *)
(* particular for every set Env of hazards of the environment.             *)
(***************************************************************************)
EXTENDS CcidSlot, TLAPS

-----------------------------------------------------------------------------
(* The inductive invariant. *)

Quiet == {"RESET", "WAIT_TPDU"}

\* Where the ATR and the TPDU FSM are while the main FSM is elsewhere.  A
\* hardware error between XceiveTpdu and XceiveTpduHeader leaves the TPDU FSM
\* in TX_HDR under a main FSM in RESET.
Children ==
  /\ main = "WAIT_ATR" => atr = "WAIT_TS"
  /\ main = "RESET" => tpdu \in {"INIT", "TX_HDR"}
  /\ main \in {"WAIT_ATR", "IN_ATR", "WAIT_TPDU"} => tpdu = "INIT"
  /\ tpdu = "TX_SINGLE" /\ uart.shifting => left > 0
  /\ pc = "xfr" => tpdu = "INIT"

\* Before the header of a TPDU is transmitted the transmitter is free.
ReadyToSend ==
  pc = "xfr" =>
    /\ ~uart.txBusy /\ ~uart.shifting
    /\ main \in {"RESET", "IN_TPDU"}
    /\ main = "RESET" => event = "TPDU_FAILED"

\* What the UART does while no exchange is under way.
QuietUart ==
  /\ main \in Quiet => uart.deadline = "none" /\ ~uart.hint
  /\ main = "RESET" /\ uart.txBusy => event = "TPDU_FAILED"

\* Who may be without cmd_busy: a slot whose FSMs are quiet, and whose last
\* event, if a removal cleared cmd_busy, is just being answered.
Idle ==
  /\ busy => cur # NoCmd
  /\ event # "none" => cur # NoCmd
  /\ ~busy => main \in Quiet
  /\ ~busy /\ event # "none" => pc \in {"events", "answer"}
  /\ pc \in {"expire", "reset"} => busy

\* What a step has to preserve besides the types.
FsmInv == Children /\ ReadyToSend /\ QuietUart /\ UartMatchesFsm /\ NoAssert
Parts == FsmInv /\ Idle /\ MailboxSafe
IInv == TypeOK /\ Parts

-----------------------------------------------------------------------------
(* Type correctness. *)

\* Every entry point of the UART keeps a UART a UART.
LEMMA UartOps ==
  ASSUME NEW u \in UartType, NEW on \in BOOLEAN, NEW n \in {"one", "many"}
  PROVE  /\ WtimeStop(u) \in UartType
         /\ WtimeRestart(u) \in UartType
         /\ RxTimerHint(u, on) \in UartType
         /\ GuardTime(u) \in UartType
         /\ SetRxThreshold(u, n) \in UartType
         /\ StartTx(u) \in UartType
         /\ StartTxAsserts(u) \subseteq BOOLEAN
         /\ TxComplete(u) \in UartType
         /\ TxAbort(u) \in UartType
         /\ Rst(u, on) \in UartType
         /\ Power(u, on) \in UartType
         /\ NoRxTx(u) \in UartType
         /\ ErrorAndInv(u) \in UartType
BY DEF UartType, Deadlines, WtimeStop, WtimeRestart, RxTimerHint, GuardTime,
       SetRxThreshold, StartTx, StartTxAsserts, TxComplete, TxAbort, SetIsoRate,
       Rst, Power, NoRxTx, ErrorAndInv

\* What the FSM does to the UART record keeps its type.
LEMMA FsmOps ==
  ASSUME NEW u \in UartType
  PROVE  /\ ResetOnEnter(u) \in UartType
         /\ AwaitByte(u) \in UartType
BY UartOps DEF ResetOnEnter, AwaitByte

\* A byte received in any state keeps the types of the FSMs' state.
LEMMA RxIrqType == ASSUME FsmTypeOK, RxIrq PROVE FsmTypeOK'
<1> USE DEF FsmTypeOK, MainStates, AtrStates, TpduStates, Events
<1>1. CASE RxIgnored BY <1>1, UartOps DEF RxIgnored
<1>2. AtrUart \in UartType BY UartOps DEF AtrUart
<1>3. CASE RxBadTS BY <1>2, <1>3 DEF RxBadTS
<1>4. CASE RxAtrByte BY <1>2, <1>4, UartOps DEF RxAtrByte
<1>5. CASE RxAtrLast BY <1>2, <1>5, UartOps DEF RxAtrLast, ToWaitTpdu
<1>6. CASE RxProcNull
  BY <1>6, UartOps, FsmOps DEF RxProcNull, RxTpdu, InTpdu, RxOneMore, TpduChg
<1>7. CASE RxProcSW
  BY <1>7, UartOps, FsmOps DEF RxProcSW, RxTpdu, InTpdu, RxOneMore, TpduChg
<1>8. CASE RxProcIns
  BY <1>8, UartOps, FsmOps
  DEF RxProcIns, RxTpdu, InTpdu, RxOneMore, TpduChg, Transmit
<1>9. CASE RxProcInsX
  BY <1>9, UartOps, FsmOps
  DEF RxProcInsX, RxTpdu, InTpdu, RxOneMore, TpduChg, Transmit
<1>10. CASE RxProcBad
  BY <1>10, UartOps DEF RxProcBad, RxTpdu, InTpdu, TpduChg
<1>11. CASE RxDataMore BY <1>11, UartOps DEF RxDataMore, InTpdu
<1>12. CASE RxDataLast
  BY <1>12, UartOps, FsmOps DEF RxDataLast, InTpdu, RxOneMore, TpduChg
<1>13. CASE RxDataSingle
  BY <1>13, UartOps, FsmOps DEF RxDataSingle, RxTpdu, InTpdu, RxOneMore, TpduChg
<1>14. CASE RxSW1
  BY <1>14, UartOps, FsmOps DEF RxSW1, RxTpdu, InTpdu, RxOneMore, TpduChg
<1>15. CASE RxSW2 BY <1>15, UartOps DEF RxSW2, ToWaitTpdu
<1> QED
  BY <1>1, <1>3, <1>4, <1>5, <1>6, <1>7, <1>8, <1>9, <1>10, <1>11, <1>12,
     <1>13, <1>14, <1>15 DEF RxIrq

\* The other two interrupts: TxDone counts the body down, never below zero.
LEMMA TxDoneType == ASSUME FsmTypeOK, Children, TxDone PROVE FsmTypeOK'
<1> USE DEF FsmTypeOK, MainStates, AtrStates, TpduStates, Events
<1>1. CASE TxDoneTpdu
  <2>1. uart' \in UartType BY <1>1, UartOps, FsmOps DEF TxDoneTpdu
  <2>2. tpdu' \in TpduStates BY <1>1 DEF TxDoneTpdu, TpduChg
  <2>3. left' \in 0..MaxBody
    BY <1>1, BodyAssumption DEF TxDoneTpdu, Children, Shifting
  <2> QED BY <1>1, <2>1, <2>2, <2>3 DEF TxDoneTpdu
<1>2. CASE TxDoneIgnored BY <1>2, UartOps DEF TxDoneIgnored
<1> QED BY <1>1, <1>2 DEF TxDone

\* A hardware error keeps the types.
LEMMA HwErrorType == ASSUME FsmTypeOK, HwError PROVE FsmTypeOK'
BY UartOps, FsmOps
DEF HwError, FailureEvent, ToReset, FsmTypeOK, MainStates, AtrStates,
    TpduStates, Events

\* What the queues of messages need from sequences.
LEMMA Queues ==
  ASSUME NEW S, NEW q \in Seq(S)
  PROVE  /\ \A x \in S : Append(q, x) \in Seq(S)
         /\ q # <<>> => Head(q) \in S /\ Tail(q) \in Seq(S)
BY SMT

\* The initial state has its types.
LEMMA InitType == Init => TypeOK
<1> SUFFICES ASSUME Init PROVE TypeOK
  OBVIOUS
<1>1. <<>> \in Seq(Commands) /\ <<>> \in Seq(Replies)
  OBVIOUS
<1>2. FsmTypeOK
  <2>1. UartInit \in UartType
    BY DEF UartInit, UartType, Deadlines
  <2>2. FsmInit
    BY DEF Init
  <2>3. uart \in UartType
    BY <2>1, <2>2 DEF FsmInit
  <2>4. left \in 0..MaxBody
    BY <2>2, BodyAssumption DEF FsmInit
  <2> QED
    BY <2>2, <2>3, <2>4
    DEF FsmInit, FsmTypeOK, MainStates, AtrStates, TpduStates, Events
<1> QED BY <1>1, <1>2 DEF Init, TypeOK, Events, PCs

\* Every step of the slot keeps the types; only TxDone needs to know where the
\* FSMs are.
LEMMA TypeStep == ASSUME TypeOK, Children, [Next]_vars PROVE TypeOK'
<1> USE DEF TypeOK, PCs, Goto
<1>1. CASE UartRx
  BY <1>1, RxIrqType DEF UartRx, slotVars, hostVars
<1>2. CASE UartTxDone
  BY <1>2, TxDoneType DEF UartTxDone, slotVars, hostVars
<1>3. CASE UartError
  BY <1>3, HwErrorType DEF UartError, slotVars, hostVars
<1>4. CASE ClockExpire
  BY <1>4
  DEF ClockExpire, slotVars, hostVars, FsmTypeOK, UartType, Deadlines
<1>5. CASE MoveCard BY <1>5 DEF MoveCard, fsmVars, hostVars, FsmTypeOK
<1>6. CASE Host
  <2>1. outq' \in Seq(Commands) /\ inq' \in Seq(Replies)
    BY <1>6, Queues DEF Host, Submit, Collect
  <2> QED
    BY <1>6, <2>1 DEF Host, Submit, Collect, fsmVars, slotVars, FsmTypeOK
<1>7. CASE Detect
  <2>1. CASE DetectNothing
    BY <2>1 DEF DetectNothing, fsmVars, hostVars, FsmTypeOK
  <2>2. CASE DetectInsertion
    BY <2>2 DEF DetectInsertion, fsmVars, hostVars, FsmTypeOK
  <2>3. CASE DetectRemoval
    BY <2>3 DEF DetectRemoval, hostVars, FsmTypeOK, FailureEvent, Events
  <2>4. CASE FinishRemoval
    <3>1. uart' \in UartType
      BY <2>4, UartOps, FsmOps DEF FinishRemoval, FsmTypeOK
    <3> QED
      BY <2>4, <3>1
      DEF FinishRemoval, hostVars, FsmTypeOK, MainStates, AtrStates, TpduStates
  <2> QED BY <1>7, <2>1, <2>2, <2>3, <2>4 DEF Detect
<1>8. CASE HandleEvents
  <2>1. CASE ReadEvent
    BY <2>1 DEF ReadEvent, fsmVars, hostVars, FsmTypeOK
  <2>2. ASSUME NEW ok \in BOOLEAN, SendUnbusy(ok),
               uart' \in UartType, powered' \in BOOLEAN
        PROVE  TypeOK'
    <3>1. [seq |-> seq, ok |-> ok] \in Replies
      BY <2>2 DEF Replies
    <3>2. inq' \in Seq(Replies)
      BY <2>2, <3>1, Queues DEF SendUnbusy
    <3> QED BY <2>2, <3>2 DEF SendUnbusy, FsmTypeOK, Events
  <2>3. CASE AnswerDone
    BY <2>2, <2>3, UartOps DEF AnswerDone, FsmTypeOK
  <2>4. CASE AnswerFailed
    BY <2>2, <2>4, UartOps DEF AnswerFailed, FsmTypeOK
  <2> QED BY <1>8, <2>1, <2>3, <2>4 DEF HandleEvents
<1>9. CASE PollWtime
  <2>1. CASE PollDeadline
    BY <2>1 DEF PollDeadline, fsmVars, hostVars, FsmTypeOK
  <2>2. CASE ExpireDeadline
    <3>1. FsmTypeOK'
      BY <2>2, UartOps, FsmOps
      DEF ExpireDeadline, WtimeExpAtr, WtimeExpReport, ToWaitTpdu, ToReset,
          FsmTypeOK, MainStates, AtrStates, TpduStates, Events
    <3> QED BY <2>2, <3>1 DEF ExpireDeadline, hostVars
  <2>3. CASE ExpireReset
    BY <2>3, FsmOps
    DEF ExpireReset, EnterReset, ToReset, hostVars, FsmTypeOK, MainStates,
        AtrStates, TpduStates
  <2> QED BY <1>9, <2>1, <2>2, <2>3 DEF PollWtime
<1>10. CASE HandleOut
  <2>1. outq # <<>> => Head(outq) \in Commands /\ Tail(outq) \in Seq(Commands)
    BY Queues
  <2> USE DEF Handling, Accepts, Commands
  <2>2. ASSUME NEW ok \in BOOLEAN, outq # <<>>, Reply(ok)
        PROVE  inq' \in Seq(Replies) /\ pc' \in PCs /\ cur' = cur /\ busy' = busy
    BY <2>1, <2>2 DEF Reply, Replies
  <2>3. CASE FeedNothing
    BY <2>3 DEF FeedNothing, fsmVars, hostVars, FsmTypeOK
  <2>4. CASE RejectCmd
    BY <2>1, <2>2, <2>4 DEF RejectCmd, fsmVars, FsmTypeOK
  <2>5. CASE DoImmediate
    BY <2>1, <2>2, <2>5 DEF DoImmediate, fsmVars, FsmTypeOK
  <2>6. CASE DoIccPowerOff
    BY <2>1, <2>2, <2>6, UartOps DEF DoIccPowerOff, FsmTypeOK
  <2>7. CASE DoIccPowerOn
    <3>1. FsmTypeOK'
      <4> DEFINE u == IF powered THEN Rst(uart, TRUE)
                      ELSE Power(Rst(uart, TRUE), TRUE)
      <4>1. u \in UartType BY UartOps DEF FsmTypeOK
      <4>2. ResetPulse(u) BY <2>7 DEF DoIccPowerOn
      <4> HIDE DEF u
      <4>3. \A some \in {FALSE, u.shifting} :
              [ResetOnEnter(u) EXCEPT !.shifting = some] \in UartType
        BY <4>1, FsmOps DEF UartType
      <4> QED
        BY <4>2, <4>3, UartOps
        DEF ResetPulse, FsmTypeOK, MainStates, AtrStates, TpduStates
    <3> QED BY <2>1, <2>7, <3>1 DEF DoIccPowerOn
  <2>8. CASE RejectXfrBlock
    BY <2>1, <2>2, <2>8 DEF RejectXfrBlock, fsmVars, FsmTypeOK
  <2>9. CASE DoXfrBlock
    BY <2>1, <2>9 DEF DoXfrBlock, XceiveTpdu, FsmTypeOK, MainStates
  <2>10. CASE StartXfr
    BY <2>10, UartOps
    DEF StartXfr, XceiveTpduHeader, TpduChg, Transmit, hostVars, FsmTypeOK,
        TpduStates
  <2> QED
    BY <1>10, <2>3, <2>4, <2>5, <2>6, <2>7, <2>8, <2>9, <2>10 DEF HandleOut
<1>11. CASE UNCHANGED vars
  BY <1>11 DEF vars, fsmVars, slotVars, hostVars, FsmTypeOK
<1> QED
  BY <1>1, <1>2, <1>3, <1>4, <1>5, <1>6, <1>7, <1>8, <1>9, <1>10, <1>11
  DEF Next, MainLoop, Interrupt

-----------------------------------------------------------------------------
(* The invariant.  One lemma per group of actions, one step per action; the *)
(* USE at the head of a lemma opens the invariant and the UART.             *)

LEMMA InitInv == Init => IInv
<1> SUFFICES ASSUME Init PROVE IInv
  OBVIOUS
<1>1. TypeOK BY InitType
<1>2. FsmInit BY DEF Init
<1>3. FsmInv
  BY <1>2
  DEF FsmInit, UartInit, FsmInv, Children, ReadyToSend, QuietUart,
      UartMatchesFsm, TxStates, Quiet, NoAssert, Init
<1>4. Idle /\ MailboxSafe
  BY <1>2 DEF FsmInit, Init, Idle, MailboxSafe, Reporting, Quiet
<1> QED BY <1>1, <1>3, <1>4 DEF IInv, Parts

\* A byte: the mailbox is written only out of IN_ATR and IN_TPDU, and a
\* transmission starts only in PROCEDURE, where none is under way.
LEMMA RxInv == ASSUME IInv, UartRx PROVE Parts'
<1> USE DEF IInv, Parts, FsmInv, Children, ReadyToSend, QuietUart,
            UartMatchesFsm, TxStates, Quiet, NoAssert, Idle, MailboxSafe,
            Reporting, TypeOK, FsmTypeOK, UartType, UartRx, slotVars, hostVars,
            Receiving, RxSingle, RxStored, WtimeStop, WtimeRestart, RxTimerHint,
            SetRxThreshold, AwaitByte
<1>1. CASE RxIgnored BY <1>1 DEF RxIgnored
<1>2. CASE RxBadTS BY <1>2 DEF RxBadTS, AtrUart
<1>3. CASE RxAtrByte BY <1>3 DEF RxAtrByte, AtrUart, GuardTime
<1>4. CASE RxAtrLast BY <1>4 DEF RxAtrLast, AtrUart, ToWaitTpdu
<1>5. ASSUME NEW from \in {"PROCEDURE", "RX_SINGLE", "SW1"},
             NEW to \in {"PROCEDURE", "RX_SINGLE", "SW1", "SW2"},
             RxTpdu(from), RxOneMore(to)
      PROVE  Parts'
  BY <1>5 DEF RxTpdu, InTpdu, RxOneMore, TpduChg, TpduEdges
<1>6. ASSUME NEW to \in {"TX_REMAINING", "TX_SINGLE"}, left > 0,
             RxTpdu("PROCEDURE"), TpduChg(to), Transmit(WtimeRestart(uart)),
             UNCHANGED event
      PROVE  Parts'
  BY <1>6
  DEF RxTpdu, InTpdu, TpduChg, TpduEdges, Transmit, StartTx, StartTxAsserts
<1>7. CASE RxProcNull BY <1>5, <1>7 DEF RxProcNull
<1>8. CASE RxProcSW BY <1>5, <1>8 DEF RxProcSW
<1>9. CASE RxProcIns
  <2>1. CASE left > 0 BY <1>6, <1>9, <2>1 DEF RxProcIns
  <2>2. CASE RxOneMore("RX_SINGLE") BY <1>5, <1>9, <2>2 DEF RxProcIns
  <2>3. CASE /\ TpduChg("RX_REMAINING")
             /\ uart' = RxTimerHint(SetRxThreshold(WtimeRestart(uart), "many"), TRUE)
             /\ UNCHANGED <<event, crashed>>
    BY <1>9, <2>3 DEF RxProcIns, RxTpdu, InTpdu, TpduChg, TpduEdges
  <2> QED BY <1>9, <2>1, <2>2, <2>3 DEF RxProcIns
<1>10. CASE RxProcInsX
  <2>1. CASE left > 0 BY <1>6, <1>10, <2>1 DEF RxProcInsX
  <2>2. CASE RxOneMore("RX_SINGLE") BY <1>5, <1>10, <2>2 DEF RxProcInsX
  <2> QED BY <1>10, <2>1, <2>2 DEF RxProcInsX
<1>11. CASE RxProcBad
  BY <1>11 DEF RxProcBad, RxTpdu, InTpdu, TpduChg, TpduEdges
<1>12. CASE RxDataMore BY <1>12 DEF RxDataMore, InTpdu
<1>13. CASE RxDataLast
  BY <1>13 DEF RxDataLast, InTpdu, RxOneMore, TpduChg, TpduEdges
<1>14. CASE RxDataSingle BY <1>5, <1>14 DEF RxDataSingle
<1>15. CASE RxSW1 BY <1>5, <1>15 DEF RxSW1
<1>16. CASE RxSW2 BY <1>16 DEF RxSW2, ToWaitTpdu
<1> QED
  BY <1>1, <1>2, <1>3, <1>4, <1>7, <1>8, <1>9, <1>10, <1>11, <1>12, <1>13,
     <1>14, <1>15, <1>16 DEF RxIrq

\* TX_COMPLETE keeps the conjuncts of the invariant.
LEMMA TxDoneInv == ASSUME IInv, UartTxDone PROVE Parts'
<1> USE DEF IInv, Parts, FsmInv, Children, ReadyToSend, QuietUart,
            UartMatchesFsm, TxStates, Quiet, NoAssert, Idle, MailboxSafe,
            Reporting, TypeOK, FsmTypeOK, UartType, UartTxDone, slotVars,
            hostVars, Shifting, TxComplete
<1>1. CASE TxDoneTpdu
  BY <1>1
  DEF TxDoneTpdu, TpduChg, TpduEdges, AwaitByte, SetRxThreshold, RxTimerHint,
      WtimeRestart
<1>2. CASE TxDoneIgnored BY <1>2 DEF TxDoneIgnored
<1> QED BY <1>1, <1>2 DEF TxDone

\* A hardware error keeps the conjuncts of the invariant.
LEMMA HwErrorInv == ASSUME IInv, UartError PROVE Parts'
BY DEF IInv, Parts, FsmInv, Children, ReadyToSend, QuietUart,
       UartMatchesFsm, TxStates, Quiet, NoAssert, Idle, MailboxSafe,
       Reporting, TypeOK, FsmTypeOK, UartType, MainStates, UartError, slotVars,
       hostVars, HwError, FailureEvent, ToReset, ResetOnEnter, NoRxTx,
       SetRxThreshold, TxAbort, RxTimerHint, WtimeStop

\* A step outside the FSMs that leaves cmd_busy and the command alone.
LEMMA ElsewhereInv ==
  ASSUME IInv, ClockExpire \/ MoveCard \/ Host
  PROVE  Parts'
<1> USE DEF IInv, Parts, FsmInv, Children, ReadyToSend, QuietUart,
            UartMatchesFsm, TxStates, Quiet, NoAssert, Idle, MailboxSafe,
            Reporting, slotVars, hostVars, fsmVars
<1>1. CASE ClockExpire
  BY <1>1 DEF ClockExpire, TypeOK, FsmTypeOK, UartType
<1>2. CASE MoveCard BY <1>2 DEF MoveCard
<1>3. CASE Host BY <1>3 DEF Host, Submit, Collect
<1> QED BY <1>1, <1>2, <1>3

\* A removal reports while the FSM still runs, then resets it.
LEMMA DetectInv == ASSUME IInv, Detect PROVE Parts'
<1> USE DEF IInv, Parts, FsmInv, Children, ReadyToSend, QuietUart,
            UartMatchesFsm, TxStates, Quiet, NoAssert, Idle, MailboxSafe,
            Reporting, slotVars, hostVars, fsmVars, Goto
<1>1. CASE DetectNothing BY <1>1 DEF DetectNothing
<1>2. CASE DetectInsertion BY <1>2 DEF DetectInsertion
<1>3. CASE DetectRemoval
  BY <1>3 DEF DetectRemoval, FailureEvent, TypeOK, FsmTypeOK, MainStates
<1>4. CASE FinishRemoval
  BY <1>4
  DEF FinishRemoval, TypeOK, FsmTypeOK, UartType, ResetOnEnter, Power, Rst,
      SetIsoRate, SetRxThreshold, TxAbort, RxTimerHint, WtimeStop
<1> QED BY <1>1, <1>2, <1>3, <1>4 DEF Detect

\* The event that is answered is the one in the mailbox, so clearing the
\* mailbox loses none, and the FSM it came from is quiet.
LEMMA HandleEventsInv == ASSUME IInv, HandleEvents PROVE Parts'
<1> USE DEF IInv, Parts, FsmInv, Children, ReadyToSend, QuietUart,
            UartMatchesFsm, TxStates, Quiet, NoAssert, Idle, MailboxSafe,
            Reporting, TypeOK, FsmTypeOK, slotVars, hostVars, fsmVars, Goto
<1>1. CASE ReadEvent BY <1>1 DEF ReadEvent
<1>2. CASE AnswerDone
  BY <1>2 DEF AnswerDone, SendUnbusy, ErrorAndInv, UartType
<1>3. CASE AnswerFailed
  BY <1>3
  DEF AnswerFailed, SendUnbusy, Power, Rst, SetIsoRate, WtimeStop, UartType
<1> QED BY <1>1, <1>2, <1>3 DEF HandleEvents

\* Only a command in progress has a deadline.
LEMMA PollWtimeInv == ASSUME IInv, PollWtime PROVE Parts'
<1> USE DEF IInv, Parts, FsmInv, Children, ReadyToSend, QuietUart,
            UartMatchesFsm, TxStates, Quiet, NoAssert, Idle, MailboxSafe,
            Reporting, TypeOK, FsmTypeOK, UartType, slotVars, hostVars, fsmVars,
            Goto, SetRxThreshold, TxAbort, RxTimerHint, WtimeStop
<1>1. CASE PollDeadline BY <1>1 DEF PollDeadline
<1>2. CASE ExpireDeadline
  <2>1. CASE WtimeExpAtr
    BY <1>2, <2>1
    DEF ExpireDeadline, WtimeExpAtr, WtimeExpReport, ToWaitTpdu, ToReset,
        ResetOnEnter
  <2>2. CASE WtimeExpReport
    BY <1>2, <2>2 DEF ExpireDeadline, WtimeExpAtr, WtimeExpReport, MainStates
  <2> QED BY <1>2, <2>1, <2>2 DEF ExpireDeadline
<1>3. CASE ExpireReset
  BY <1>3 DEF ExpireReset, EnterReset, ToReset, ResetOnEnter
<1> QED BY <1>1, <1>2, <1>3 DEF PollWtime

\* A command is accepted only by a quiet slot with an empty mailbox.
LEMMA HandleOutInv == ASSUME IInv, HandleOut PROVE Parts'
<1> USE DEF IInv, Parts, FsmInv, Children, ReadyToSend, QuietUart,
            UartMatchesFsm, TxStates, Quiet, NoAssert, Idle, MailboxSafe,
            Reporting, TypeOK, FsmTypeOK, slotVars, hostVars, fsmVars, Goto
<1>1. CASE FeedNothing BY <1>1 DEF FeedNothing
<1>2. CASE RejectCmd BY <1>2 DEF RejectCmd, Handling, Reply
<1>3. CASE DoImmediate BY <1>3 DEF DoImmediate, Handling, Reply
<1>4. CASE DoIccPowerOff
  BY <1>4
  DEF DoIccPowerOff, Handling, Accepts, Reply, Power, SetIsoRate, WtimeStop,
      UartType
<1>5. CASE DoIccPowerOn
  <2> DEFINE u == IF powered THEN Rst(uart, TRUE)
                  ELSE Power(Rst(uart, TRUE), TRUE)
  <2>1. u \in UartType /\ ResetOnEnter(u) \in UartType BY UartOps, FsmOps
  <2>2. ResetPulse(u) BY <1>5 DEF DoIccPowerOn
  <2>3. ~ResetOnEnter(u).txBusy /\ ResetOnEnter(u).threshold = "one"
    BY <2>1
    DEF ResetOnEnter, SetRxThreshold, TxAbort, RxTimerHint, WtimeStop, UartType
  <2>4. cur' # NoCmd
    BY <1>5, Queues DEF DoIccPowerOn, Handling, Commands, Kinds, NoCmd
  <2> HIDE DEF u
  <2>5. ~uart'.txBusy /\ uart'.threshold = "one"
    BY <2>1, <2>2, <2>3 DEF ResetPulse, RxTimerHint, WtimeRestart, UartType
  <2>6. /\ main' = "WAIT_ATR" /\ atr' = "WAIT_TS" /\ tpdu' = "INIT"
        /\ UNCHANGED <<event, crashed>>
    BY <2>2 DEF ResetPulse
  <2>7. busy' /\ pc' = "detect" /\ event = "none"
    BY <1>5 DEF DoIccPowerOn, Handling, Accepts
  <2> QED BY <2>4, <2>5, <2>6, <2>7
<1>6. CASE RejectXfrBlock BY <1>6 DEF RejectXfrBlock, Handling, Reply
<1>7. CASE DoXfrBlock
  <2>1. cur' # NoCmd
    BY <1>7, Queues DEF DoXfrBlock, Handling, Commands, Kinds, NoCmd
  <2> QED BY <1>7, <2>1 DEF DoXfrBlock, Handling, Accepts, XceiveTpdu
<1>8. CASE StartXfr
  BY <1>8
  DEF StartXfr, XceiveTpduHeader, TpduChg, TpduEdges, Transmit, StartTx,
      StartTxAsserts, WtimeStop, UartType
<1> QED
  BY <1>1, <1>2, <1>3, <1>4, <1>5, <1>6, <1>7, <1>8 DEF HandleOut

\* Every step keeps the invariant.
LEMMA InvStep == ASSUME IInv, [Next]_vars PROVE IInv'
<1>1. TypeOK' BY TypeStep DEF IInv, Parts, FsmInv
<1>2. CASE UNCHANGED vars
  BY <1>2
  DEF vars, fsmVars, slotVars, hostVars, IInv, TypeOK, FsmTypeOK, Parts, FsmInv,
      Children, ReadyToSend, QuietUart, UartMatchesFsm, NoAssert, Idle,
      MailboxSafe, Reporting
<1> QED
  BY <1>1, <1>2, RxInv, TxDoneInv, HwErrorInv, ElsewhereInv, DetectInv,
     HandleEventsInv, PollWtimeInv, HandleOutInv
  DEF IInv, Next, MainLoop, Interrupt

\* The induction.
LEMMA Inductive == Spec => []IInv
<1>1. IInv /\ [Next]_vars => IInv' BY InvStep
<1> QED BY <1>1, InitInv, PTL DEF Spec

-----------------------------------------------------------------------------
(* The theorems. *)

\* The variables of a slot keep their types: l3len in particular never wraps
\* below zero however the card interleaves procedure bytes and completions.
THEOREM TypeCorrect == Spec => []TypeOK
BY Inductive, PTL DEF IInv

\* Outside the two windows of Reporting (iso7816_fsm.c:473, 501) no interrupt finds
\* the FSM where it would overwrite an event, and the main loop answers, and
\* clears, the event it has read.  In the windows this says nothing: there, with
\* preempted_reset, an interrupt does overwrite.  EventIsKept is about every step.
THEOREM MailboxIsSafe == Spec => []MailboxSafe
BY Inductive, PTL DEF IInv, Parts

\* What a cut-off exchange left in the UART does not reach the next one.
THEOREM UartFollowsFsm == Spec => []UartMatchesFsm
<1>1. IInv => UartMatchesFsm BY DEF IInv, Parts, FsmInv
<1> QED BY <1>1, Inductive, PTL

\* The firmware stops at none of its asserts on the transmitter.
THEOREM NoAssertFails == Spec => []NoAssert
<1>1. IInv => NoAssert BY DEF IInv, Parts, FsmInv
<1> QED BY <1>1, Inductive, PTL

\* Without a command nothing is armed.
THEOREM NothingArmedWhenIdle == Spec => []IdleIsQuiet
<1>1. IInv => IdleIsQuiet
  <2> SUFFICES ASSUME IInv, cur = NoCmd PROVE IdleIsQuiet
    BY DEF IdleIsQuiet
  <2>1. ~busy /\ main \in Quiet /\ event = "none"
    BY DEF IInv, Parts, Idle
  <2>2. uart.deadline = "none" /\ ~uart.hint
    BY <2>1 DEF IInv, Parts, FsmInv, QuietUart
  <2>3. ~uart.txBusy
    BY <2>1 DEF IInv, Parts, FsmInv, QuietUart, UartMatchesFsm, Quiet
  <2> QED BY <2>1, <2>2, <2>3 DEF IdleIsQuiet, Quiet
<1> QED BY <1>1, Inductive, PTL

=============================================================================
