------------------------- MODULE CcidExchangeProofs -------------------------
(***************************************************************************)
(* Where no interrupt comes at a bad moment (Timely), a slot implements    *)
(* CcidExchange and its mailbox loses no event, whatever bytes the card    *)
(* sends; and where the card, too, keeps to the protocol, a busy slot      *)
(* waits for something that will come.  Without these assumptions TLC has  *)
(* counterexamples.                                                        *)
(***************************************************************************)
EXTENDS CcidSlotProofs

-----------------------------------------------------------------------------
(* The inductive invariant, on top of IInv. *)

\* No error interrupt strikes an idle card, and none preempts a failure report.
\* A card may still answer a header with a byte that is no procedure byte.
Timely == Env \subseteq {"bad_procedure_byte"}

\* What the main FSM is doing belongs to the command in progress.
Purpose ==
  /\ main \in {"WAIT_ATR", "IN_ATR"} => cur.kind = "IccPowerOn"
  /\ main = "IN_TPDU" => cur.kind = "XfrBlock"
  /\ event \in {"ATR_DONE", "ATR_ERR"} => cur.kind = "IccPowerOn"
  /\ event = "TPDU_DONE" => cur.kind = "XfrBlock"

\* A command in progress is with the FSM or with the mailbox, never lost
\* between them; only a removal clears cmd_busy before the answer.
InProgress ==
  /\ cur # NoCmd => main \notin Quiet \/ event # "none"
  /\ cur # NoCmd /\ pc \in {"removing", "reset"} => event # "none"
  /\ cur # NoCmd /\ ~busy => event # "none" /\ pc \in {"events", "answer"}
  /\ cur # NoCmd => seq = cur.seq

\* The card of a powered slot is in WAIT_TPDU as soon as its ATR is complete.
Powered ==
  powered =>
    /\ cur = NoCmd \/ event \in {"ATR_DONE", "TPDU_DONE"} =>
         main = "WAIT_TPDU" /\ pc # "reset"
    /\ cur = NoCmd \/ event = "TPDU_DONE" \/ main = "IN_TPDU" =>
         uart.enabled /\ uart.errIrq

\* An FSM that is not quiet has a deadline, or transmits: in IN_TPDU only if
\* the card keeps to the protocol.
Armed ==
  /\ main \in {"WAIT_ATR", "IN_ATR"} /\ pc # "removing" => uart.deadline # "none"
  /\ main = "IN_TPDU" => powered
  /\ main = "IN_TPDU" /\ uart.shifting => uart.txBusy
  /\ main = "IN_TPDU" /\ pc \notin {"xfr", "reset", "removing"} /\ Env = {} =>
       uart.shifting \/ uart.deadline # "none"

CoreParts == Purpose /\ InProgress /\ Powered /\ Armed
CoreInv == IInv /\ CoreParts

\* The initial state satisfies the invariant.
LEMMA InitCore == Init => CoreInv
<1> SUFFICES ASSUME Init PROVE CoreInv
  OBVIOUS
<1>1. IInv BY InitInv
<1> QED
  BY <1>1
  DEF Init, FsmInit, CoreInv, CoreParts, Purpose, InProgress, Powered, Armed, Quiet

\* Interrupts.  Without hazards none comes while a failure is being reported,
\* and no error interrupt strikes an idle card.
LEMMA RxCore == ASSUME Timely, CoreInv, UartRx PROVE CoreParts'
<1> USE DEF Timely, CoreInv, CoreParts, Purpose, InProgress, Powered, Armed,
            IInv, Parts, FsmInv, Children, UartMatchesFsm, TxStates, Idle,
            MailboxSafe, Quiet, TypeOK, FsmTypeOK, UartType, UartRx, Preemptible,
            slotVars, hostVars, Receiving, RxSingle, RxStored, WtimeStop,
            WtimeRestart, RxTimerHint, SetRxThreshold, AwaitByte
<1>1. CASE RxIgnored BY <1>1 DEF RxIgnored
<1>2. CASE RxBadTS BY <1>2 DEF RxBadTS, AtrUart
<1>3. CASE RxAtrByte BY <1>3 DEF RxAtrByte, AtrUart, GuardTime
<1>4. CASE RxAtrLast BY <1>4 DEF RxAtrLast, AtrUart, ToWaitTpdu
<1>5. ASSUME NEW from \in {"PROCEDURE", "RX_SINGLE", "SW1"},
             NEW to \in {"PROCEDURE", "RX_SINGLE", "SW1", "SW2"},
             RxTpdu(from), RxOneMore(to)
      PROVE  CoreParts'
  BY <1>5 DEF RxTpdu, InTpdu, RxOneMore, TpduChg, TpduEdges
<1>6. ASSUME NEW to \in {"TX_REMAINING", "TX_SINGLE"},
             RxTpdu("PROCEDURE"), TpduChg(to), Transmit(WtimeRestart(uart)),
             UNCHANGED event
      PROVE  CoreParts'
  BY <1>6 DEF RxTpdu, InTpdu, TpduChg, TpduEdges, Transmit, StartTx
<1>7. CASE RxProcNull BY <1>5, <1>7 DEF RxProcNull
<1>8. CASE RxProcSW BY <1>5, <1>8 DEF RxProcSW
<1>9. CASE RxProcIns
  <2>1. CASE left > 0 BY <1>6, <1>9, <2>1 DEF RxProcIns
  <2>2. CASE RxOneMore("RX_SINGLE") BY <1>5, <1>9, <2>2 DEF RxProcIns
  <2>3. CASE /\ TpduChg("RX_REMAINING")
             /\ uart' = RxTimerHint(SetRxThreshold(WtimeRestart(uart), "many"), TRUE)
             /\ UNCHANGED <<event, crashed>>
    BY <1>9, <2>3 DEF RxProcIns, RxTpdu, InTpdu, TpduChg, TpduEdges
  <2> QED BY <1>9, <2>1, <2>2, <2>3 DEF RxProcIns
<1>10. CASE RxProcInsX
  <2>1. CASE left > 0 BY <1>6, <1>10, <2>1 DEF RxProcInsX
  <2>2. CASE RxOneMore("RX_SINGLE") BY <1>5, <1>10, <2>2 DEF RxProcInsX
  <2> QED BY <1>10, <2>1, <2>2 DEF RxProcInsX
<1>11. CASE RxProcBad
  BY <1>11 DEF RxProcBad, RxTpdu, InTpdu, TpduChg, TpduEdges
<1>12. CASE RxDataMore BY <1>12 DEF RxDataMore, InTpdu
<1>13. CASE RxDataLast
  BY <1>13 DEF RxDataLast, InTpdu, RxOneMore, TpduChg, TpduEdges
<1>14. CASE RxDataSingle BY <1>5, <1>14 DEF RxDataSingle
<1>15. CASE RxSW1 BY <1>5, <1>15 DEF RxSW1
<1>16. CASE RxSW2 BY <1>16 DEF RxSW2, ToWaitTpdu
<1> QED
  BY <1>1, <1>2, <1>3, <1>4, <1>7, <1>8, <1>9, <1>10, <1>11, <1>12, <1>13,
     <1>14, <1>15, <1>16 DEF RxIrq

\* TX_COMPLETE keeps the conjuncts of the invariant.
LEMMA TxDoneCore == ASSUME Timely, CoreInv, UartTxDone PROVE CoreParts'
<1> USE DEF Timely, CoreInv, CoreParts, Purpose, InProgress, Powered, Armed,
            IInv, Parts, FsmInv, Children, UartMatchesFsm, TxStates, Idle,
            MailboxSafe, Quiet, TypeOK, FsmTypeOK, UartType, UartTxDone,
            Preemptible, slotVars, hostVars, Shifting, TxComplete
<1>1. CASE TxDoneTpdu
  BY <1>1
  DEF TxDoneTpdu, TpduChg, TpduEdges, AwaitByte, SetRxThreshold, RxTimerHint,
      WtimeRestart
<1>2. CASE TxDoneIgnored BY <1>2 DEF TxDoneIgnored
<1> QED BY <1>1, <1>2 DEF TxDone

\* A hardware error in an exchange keeps the conjuncts of the invariant.
LEMMA HwErrorCore == ASSUME Timely, CoreInv, UartError PROVE CoreParts'
BY DEF Timely, CoreInv, CoreParts, Purpose, InProgress, Powered, Armed, IInv,
       Parts, Idle, MailboxSafe, Quiet, TypeOK, FsmTypeOK, UartType, MainStates,
       UartError, Preemptible, slotVars, hostVars, HwError, FailureEvent,
       ToReset, ResetOnEnter, NoRxTx, SetRxThreshold, TxAbort, RxTimerHint,
       WtimeStop

\* Clock, card and host do not disturb them.
LEMMA ElsewhereCore ==
  ASSUME CoreInv, ClockExpire \/ MoveCard \/ Host
  PROVE  CoreParts'
<1> USE DEF CoreInv, CoreParts, Purpose, InProgress, Powered, Armed,
            slotVars, hostVars, fsmVars
<1>1. CASE ClockExpire
  BY <1>1 DEF ClockExpire, IInv, TypeOK, FsmTypeOK, UartType
<1>2. CASE MoveCard BY <1>2 DEF MoveCard
<1>3. CASE Host BY <1>3 DEF Host, Submit, Collect
<1> QED BY <1>1, <1>2, <1>3

\* Nor does the detection of a card.
LEMMA DetectCore == ASSUME CoreInv, Detect PROVE CoreParts'
<1> USE DEF CoreInv, CoreParts, Purpose, InProgress, Powered, Armed, IInv,
            Parts, Idle, MailboxSafe, Quiet, Reporting, slotVars, hostVars,
            fsmVars, Goto
<1>1. CASE DetectNothing BY <1>1 DEF DetectNothing
<1>2. CASE DetectInsertion BY <1>2 DEF DetectInsertion
<1>3. CASE DetectRemoval
  BY <1>3 DEF DetectRemoval, FailureEvent, TypeOK, FsmTypeOK, MainStates
<1>4. CASE FinishRemoval BY <1>4 DEF FinishRemoval
<1> QED BY <1>1, <1>2, <1>3, <1>4 DEF Detect

\* The answer to the command in progress keeps them.
LEMMA HandleEventsCore == ASSUME CoreInv, HandleEvents PROVE CoreParts'
<1> USE DEF CoreInv, CoreParts, Purpose, InProgress, Powered, Armed, IInv,
            Parts, Idle, MailboxSafe, Quiet, Reporting, TypeOK, FsmTypeOK,
            slotVars, hostVars, fsmVars, Goto
<1>1. CASE ReadEvent BY <1>1 DEF ReadEvent
<1>2. CASE AnswerDone
  BY <1>2 DEF AnswerDone, SendUnbusy, ErrorAndInv, UartType
<1>3. CASE AnswerFailed BY <1>3 DEF AnswerFailed, SendUnbusy
<1> QED BY <1>1, <1>2, <1>3 DEF HandleEvents

\* The end of the wait time keeps them.
LEMMA PollWtimeCore == ASSUME CoreInv, PollWtime PROVE CoreParts'
<1> USE DEF CoreInv, CoreParts, Purpose, InProgress, Powered, Armed, IInv,
            Parts, Idle, MailboxSafe, Quiet, Reporting, TypeOK, FsmTypeOK,
            UartType, slotVars, hostVars, fsmVars, Goto
<1>1. CASE PollDeadline BY <1>1 DEF PollDeadline
<1>2. CASE ExpireDeadline
  <2>1. CASE WtimeExpAtr
    BY <1>2, <2>1
    DEF ExpireDeadline, WtimeExpAtr, WtimeExpReport, ToWaitTpdu, ToReset,
        RxTimerHint, WtimeStop
  <2>2. CASE WtimeExpReport
    BY <1>2, <2>2
    DEF ExpireDeadline, WtimeExpAtr, WtimeExpReport, MainStates, WtimeStop
  <2> QED BY <1>2, <2>1, <2>2 DEF ExpireDeadline
<1>3. CASE ExpireReset BY <1>3 DEF ExpireReset, EnterReset, ToReset
<1> QED BY <1>1, <1>2, <1>3 DEF PollWtime

\* A command that gets past the busy check finds no command in progress.
LEMMA AcceptsIdle ==
  ASSUME CoreInv, pc = "feed", Accepts
  PROVE  cur = NoCmd /\ event = "none" /\ main \in Quiet
BY DEF CoreInv, CoreParts, InProgress, Accepts, IInv, Parts, Idle

\* The handling of a message keeps them.
LEMMA HandleOutCore == ASSUME CoreInv, HandleOut PROVE CoreParts'
<1> USE DEF CoreInv, CoreParts, Purpose, InProgress, Powered, Armed, IInv,
            Parts, Idle, MailboxSafe, Quiet, Reporting, TypeOK, FsmTypeOK,
            slotVars, hostVars, fsmVars, Goto
<1>1. CASE FeedNothing BY <1>1 DEF FeedNothing
<1>2. CASE RejectCmd BY <1>2 DEF RejectCmd, Handling, Reply
<1>3. CASE DoImmediate
  BY <1>3, AcceptsIdle DEF DoImmediate, Handling, Reply
<1>4. CASE DoIccPowerOff
  BY <1>4, AcceptsIdle DEF DoIccPowerOff, Handling, Reply
<1>5. CASE DoIccPowerOn
  <2> DEFINE u == IF powered THEN Rst(uart, TRUE)
                  ELSE Power(Rst(uart, TRUE), TRUE)
  <2>1. u \in UartType /\ ResetOnEnter(u) \in UartType BY UartOps, FsmOps
  <2>2. ResetPulse(u) BY <1>5 DEF DoIccPowerOn
  <2> HIDE DEF u
  <2>3. uart'.deadline = "running"
    BY <2>1, <2>2 DEF ResetPulse, RxTimerHint, WtimeRestart, UartType
  <2>4. main' = "WAIT_ATR" /\ event' = event
    BY <2>2 DEF ResetPulse
  <2>5. /\ event = "none" /\ pc' = "detect"
        /\ cur'.kind = "IccPowerOn" /\ cur' # NoCmd /\ busy' = TRUE
    BY <1>5, AcceptsIdle DEF DoIccPowerOn, Handling, NoCmd
  <2>6. seq' = cur'.seq
    BY <1>5 DEF DoIccPowerOn
  <2>7. Purpose' BY <2>4, <2>5
  <2>8. InProgress' BY <2>4, <2>5, <2>6
  <2>9. Powered' /\ Armed' BY <2>3, <2>4, <2>5
  <2> QED BY <2>7, <2>8, <2>9
<1>6. CASE RejectXfrBlock
  BY <1>6, AcceptsIdle DEF RejectXfrBlock, Handling, Reply
<1>7. CASE DoXfrBlock
  <2>1. /\ main = "WAIT_TPDU" /\ event = "none" /\ powered = TRUE
        /\ uart.enabled /\ uart.errIrq /\ ~uart.shifting
    BY <1>7, AcceptsIdle DEF DoXfrBlock, Handling, FsmInv, UartMatchesFsm
  <2>2. /\ main' = "IN_TPDU" /\ pc' = "xfr"
        /\ UNCHANGED <<uart, event, powered>>
    BY <1>7, <2>1 DEF DoXfrBlock, XceiveTpdu
  <2>3. cur'.kind = "XfrBlock" /\ cur' # NoCmd /\ busy' = TRUE
    BY <1>7 DEF DoXfrBlock, Handling, NoCmd
  <2>4. seq' = cur'.seq
    BY <1>7 DEF DoXfrBlock
  <2>5. Purpose' BY <2>1, <2>2, <2>3
  <2>6. InProgress' BY <2>1, <2>2, <2>3, <2>4
  <2>7. Powered' /\ Armed' BY <2>1, <2>2, <2>3
  <2> QED BY <2>5, <2>6, <2>7
<1>8. CASE StartXfr
  BY <1>8
  DEF StartXfr, XceiveTpduHeader, Transmit, StartTx, WtimeStop, UartType,
      FsmInv, ReadyToSend
<1> QED
  BY <1>1, <1>2, <1>3, <1>4, <1>5, <1>6, <1>7, <1>8 DEF HandleOut

\* Every step keeps the invariant.
LEMMA CoreStep == ASSUME Timely, CoreInv, [Next]_vars PROVE CoreInv'
<1>1. IInv' BY InvStep DEF CoreInv
<1>2. CASE UNCHANGED vars
  BY <1>1, <1>2
  DEF vars, fsmVars, slotVars, hostVars, CoreInv, CoreParts, Purpose,
      InProgress, Powered, Armed
<1> QED
  BY <1>1, <1>2, RxCore, TxDoneCore, HwErrorCore, ElsewhereCore, DetectCore,
     HandleEventsCore, PollWtimeCore, HandleOutCore
  DEF CoreInv, Next, MainLoop, Interrupt

\* The induction.
LEMMA CoreInductive == ASSUME Timely PROVE Spec => []CoreInv
<1>1. CoreInv /\ [Next]_vars => CoreInv' BY CoreStep
<1> QED BY <1>1, InitCore, PTL DEF Spec

-----------------------------------------------------------------------------
(* What happens to an event in the mailbox. *)

\* A failed ATR has left the main FSM in RESET, or the removal is about to.
AtrFailed == event = "ATR_ERR" /\ pc # "removing" => main = "RESET"

\* The event stays, or it is answered, or a stale deadline takes its place.
Kept ==
  event # "none" /\ event' # event =>
    \/ pc = "answer" /\ taken = event /\ event' = "none"
    \/ /\ pc = "expire" /\ event \in {"ATR_DONE", "TPDU_DONE"}
       /\ event' = "TPDU_FAILED" /\ cur # NoCmd /\ cur' = cur

\* No interrupt reports while an event is pending.
LEMMA InterruptKeeps ==
  ASSUME Timely, CoreInv, AtrFailed, Interrupt
  PROVE  AtrFailed' /\ (event # "none" => event' = event)
<1>1. pc \notin {"removing", "reset"} /\ pc' = pc
  BY DEF Interrupt, Timely, UartRx, UartTxDone, UartError, Preemptible, slotVars
<1>2. event # "none" => main \in Quiet
  BY <1>1 DEF CoreInv, IInv, Parts, MailboxSafe, Reporting, Quiet
<1>3. CASE UartRx
  <2>1. RxIrq
    BY <1>3 DEF UartRx
  <2>2. \/ event' = event /\ main' = main
        \/ event' = "ATR_ERR" /\ main' = "RESET" /\ main \in {"WAIT_ATR", "IN_ATR"}
        \/ event' = event /\ main = "WAIT_ATR" /\ main' = "IN_ATR"
        \/ event' \in {"ATR_DONE", "TPDU_DONE"} /\ main \in {"IN_ATR", "IN_TPDU"}
    BY <2>1
    DEF RxIrq, RxIgnored, RxBadTS, RxAtrByte, RxAtrLast, RxProcNull, RxProcSW,
        RxProcIns, RxProcInsX, RxProcBad, RxDataMore, RxDataLast, RxDataSingle, RxSW1,
        RxSW2, RxTpdu, RxOneMore, InTpdu, TpduChg, Transmit, ToReset, ToWaitTpdu
  <2> QED
    BY <1>1, <1>2, <2>2 DEF AtrFailed, Quiet
<1>4. CASE UartTxDone
  BY <1>1, <1>4 DEF UartTxDone, TxDone, TxDoneTpdu, TxDoneIgnored, AtrFailed
<1>5. CASE UartError
  BY <1>1, <1>2, <1>5 DEF UartError, HwError, FailureEvent, ToReset, AtrFailed, Quiet
<1> QED
  BY <1>3, <1>4, <1>5 DEF Interrupt

\* The main loop answers what is there; only the end of the wait time reports.
LEMMA MainLoopKeeps ==
  ASSUME CoreInv, AtrFailed, MainLoop
  PROVE  AtrFailed' /\ Kept
<1> USE DEF AtrFailed, Kept, fsmVars, Goto
<1>1. /\ event # "none" /\ pc \notin {"removing", "reset"} => main \in Quiet
      /\ pc = "answer" => event = taken
      /\ event # "none" => cur # NoCmd
      /\ event \in Events
  BY DEF CoreInv, IInv, Parts, Idle, MailboxSafe, Reporting, Quiet, TypeOK, FsmTypeOK
<1>2. CASE Detect
  <2>1. CASE DetectNothing BY <2>1 DEF DetectNothing
  <2>2. CASE DetectInsertion BY <2>2 DEF DetectInsertion
  <2>3. CASE DetectRemoval BY <1>1, <2>3 DEF DetectRemoval, FailureEvent, Quiet
  <2>4. CASE FinishRemoval BY <2>4 DEF FinishRemoval
  <2> QED BY <1>2, <2>1, <2>2, <2>3, <2>4 DEF Detect
<1>3. CASE HandleEvents
  <2>1. CASE ReadEvent BY <2>1 DEF ReadEvent
  <2>2. CASE AnswerDone BY <1>1, <2>2 DEF AnswerDone, SendUnbusy
  <2>3. CASE AnswerFailed BY <1>1, <2>3 DEF AnswerFailed, SendUnbusy
  <2> QED BY <1>3, <2>1, <2>2, <2>3 DEF HandleEvents
<1>4. CASE PollWtime
  <2>1. CASE PollDeadline BY <2>1 DEF PollDeadline
  <2>2. CASE ExpireDeadline
    <3>1. CASE WtimeExpAtr
      BY <1>1, <2>2, <3>1
      DEF ExpireDeadline, WtimeExpAtr, ToReset, ToWaitTpdu, WtimeExpReport, Quiet
    <3>2. CASE WtimeExpReport
      BY <1>1, <2>2, <3>2
      DEF ExpireDeadline, WtimeExpAtr, WtimeExpReport, Quiet, Events, hostVars
    <3> QED BY <2>2, <3>1, <3>2 DEF ExpireDeadline
  <2>3. CASE ExpireReset BY <2>3 DEF ExpireReset, EnterReset, ToReset
  <2> QED BY <1>4, <2>1, <2>2, <2>3 DEF PollWtime
<1>5. CASE HandleOut
  <2>1. pc \in {"feed", "xfr"} /\ event' = event
    BY <1>5
    DEF HandleOut, FeedNothing, RejectCmd, DoImmediate, DoIccPowerOff, DoIccPowerOn,
        RejectXfrBlock, DoXfrBlock, StartXfr, Handling, ResetPulse, XceiveTpdu,
        XceiveTpduHeader
  <2>2. CASE DoIccPowerOn
    BY <2>1, <2>2, AcceptsIdle DEF DoIccPowerOn, Handling
  <2>3. CASE ~DoIccPowerOn
    BY <1>5, <2>1, <2>3
    DEF HandleOut, FeedNothing, RejectCmd, DoImmediate, DoIccPowerOff,
        RejectXfrBlock, DoXfrBlock, StartXfr, XceiveTpdu, XceiveTpduHeader
  <2> QED BY <2>2, <2>3, <2>1
<1> QED
  BY <1>2, <1>3, <1>4, <1>5 DEF MainLoop

\* One case for each actor.
LEMMA EventStep ==
  ASSUME Timely, CoreInv, AtrFailed, [Next]_vars
  PROVE  AtrFailed' /\ Kept
<1>1. CASE ClockExpire \/ Host \/ MoveCard \/ UNCHANGED vars
  BY <1>1
  DEF ClockExpire, Host, Submit, Collect, MoveCard, vars, fsmVars, slotVars, AtrFailed, Kept
<1> QED
  BY <1>1, InterruptKeeps, MainLoopKeeps DEF Next, Kept

-----------------------------------------------------------------------------
(* The theorems. *)

\* An asynchronous answer carries the bSeq of the command it ends, whatever
\* commands were refused or answered meanwhile.
THEOREM AnswersMatch == ASSUME Timely PROVE Spec => []AnswerMatches
<1>1. CoreInv => AnswerMatches
  BY DEF CoreInv, CoreParts, Purpose, InProgress, IInv, Parts, Idle,
         AnswerMatches
<1> QED BY <1>1, CoreInductive, PTL

\* A busy slot waits for an event, a deadline or a transmission.
THEOREM BusyIsWoken == ASSUME Env = {} PROVE Spec => []BusyHasWaker
<1>1. CoreInv => BusyHasWaker
  BY DEF CoreInv, CoreParts, InProgress, Powered, Armed, IInv, Parts, FsmInv,
         Children, UartMatchesFsm, Idle, TypeOK, FsmTypeOK, MainStates, Quiet,
         BusyHasWaker, Pending
<1>2. Timely
  BY DEF Timely
<1> QED BY <1>1, <1>2, CoreInductive, PTL

\* The card of a powered slot without a command can take an XfrBlock.
THEOREM PoweredIsReady == ASSUME Timely PROVE Spec => []ReadyWhenPowered
<1>1. CoreInv => ReadyWhenPowered
  BY DEF CoreInv, CoreParts, Powered, ReadyWhenPowered
<1> QED BY <1>1, CoreInductive, PTL

\* An event stays in the mailbox until it is answered: nothing overwrites it but
\* the failure of the same command for a deadline read too early.
THEOREM EventIsKept == ASSUME Timely PROVE Spec => EventKept
<1>1. Init => AtrFailed
  BY DEF Init, FsmInit, AtrFailed
<1>2. CoreInv /\ AtrFailed /\ [Next]_vars => AtrFailed' /\ [Kept]_vars
  BY EventStep
<1>3. Spec => [][Kept]_vars
  BY <1>1, <1>2, CoreInductive, PTL DEF Spec
<1> QED
  BY <1>3 DEF EventKept, Kept

\* Every step of the slot is a step of the abstract exchange, or none.
LEMMA ExchangeStep ==
  ASSUME CoreInv, [Next]_vars
  PROVE  [Exchange!Next]_(Exchange!exchangeVars)
<1> USE DEF Exchange!Next, Exchange!exchangeVars, hostVars, Handling
<1>1. CASE HandleOut
  <2>1. CASE FeedNothing BY <2>1 DEF FeedNothing
  <2>2. CASE RejectCmd
    BY <2>2 DEF RejectCmd, Reply, Exchange!AnswerNow
  <2>3. CASE DoImmediate
    BY <2>3, AcceptsIdle DEF DoImmediate, Reply, Exchange!AnswerNow
  <2>4. CASE DoIccPowerOff
    BY <2>4, AcceptsIdle DEF DoIccPowerOff, Reply, Exchange!AnswerNow
  <2>5. CASE DoIccPowerOn
    BY <2>5, AcceptsIdle DEF DoIccPowerOn, Exchange!Accept
  <2>6. CASE RejectXfrBlock
    BY <2>6 DEF RejectXfrBlock, Reply, Exchange!AnswerNow
  <2>7. CASE DoXfrBlock
    BY <2>7, AcceptsIdle DEF DoXfrBlock, Exchange!Accept
  <2>8. CASE StartXfr BY <2>8 DEF StartXfr
  <2> QED
    BY <1>1, <2>1, <2>2, <2>3, <2>4, <2>5, <2>6, <2>7, <2>8 DEF HandleOut
<1>2. CASE HandleEvents
  <2>1. CASE ReadEvent BY <2>1 DEF ReadEvent
  <2>2. ASSUME NEW ok \in BOOLEAN, SendUnbusy(ok), pc = "answer"
        PROVE  Exchange!Finish
    <3>1. cur # NoCmd /\ seq = cur.seq
      BY <2>2
      DEF CoreInv, CoreParts, InProgress, IInv, Parts, Idle, MailboxSafe
    <3> QED BY <2>2, <3>1 DEF SendUnbusy, Exchange!Finish
  <2>3. CASE AnswerDone BY <2>2, <2>3 DEF AnswerDone
  <2>4. CASE AnswerFailed BY <2>2, <2>4 DEF AnswerFailed
  <2> QED BY <1>2, <2>1, <2>3, <2>4 DEF HandleEvents
<1>3. CASE Host
  <2>1. ASSUME NEW c \in Commands, Submit(c) PROVE Exchange!Submit
    BY <2>1 DEF Submit, Exchange!Submit
  <2>2. CASE Collect BY <2>2 DEF Collect, Exchange!Collect
  <2> QED BY <1>3, <2>1, <2>2 DEF Host
<1>4. CASE Detect
  BY <1>4
  DEF Detect, DetectNothing, DetectInsertion, DetectRemoval, FinishRemoval
<1>5. CASE PollWtime
  BY <1>5 DEF PollWtime, PollDeadline, ExpireDeadline, ExpireReset
<1>6. CASE Interrupt
  BY <1>6 DEF Interrupt, UartRx, UartTxDone, UartError
<1>7. CASE ClockExpire \/ MoveCard BY <1>7 DEF ClockExpire, MoveCard
<1>8. CASE UNCHANGED vars BY <1>8 DEF vars
<1> QED
  BY <1>1, <1>2, <1>3, <1>4, <1>5, <1>6, <1>7, <1>8 DEF Next, MainLoop

\* The slot implements CcidExchange: one answer for every message, in the
\* order of the messages but for the one command in progress.
THEOREM SlotImplementsExchange ==
  ASSUME Timely PROVE Spec => ImplementsExchange
<1>1. Init => Exchange!Init BY DEF Init, Exchange!Init
<1>2. CoreInv /\ [Next]_vars => [Exchange!Next]_(Exchange!exchangeVars)
  BY ExchangeStep
<1> QED
  BY <1>1, <1>2, CoreInductive, PTL DEF Spec, ImplementsExchange, Exchange!Spec

=============================================================================
