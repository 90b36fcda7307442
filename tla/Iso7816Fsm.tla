----------------------------- MODULE Iso7816Fsm -----------------------------
(***************************************************************************)
(* The ISO 7816-3 state machines of one slot (ccid_common/iso7816_fsm.c): *)
(* the main FSM and its ATR and TPDU children, as osmo_fsm runs them, with *)
(* the slot's event mailbox, which iso_fsm_clot_user_cb writes.           *)
(*                                                                         *)
(* Each operator is one handler run to completion.  Handlers run either   *)
(* in the UART interrupt (RxSingle..., TxDone, HwError) or in the main    *)
(* loop (Reset..., XceiveTpdu, WtimeExp...); module CcidSlot interleaves  *)
(* them.  The PPS child is never started in the shipped build             *)
(* (FAKE_CCID_SETPARAMETERS, ccid_slot_fsm.c:38) and is left out.         *)
(***************************************************************************)
EXTENDS CardUart, Integers

CONSTANTS
  Env,     \* the hazards of the environment a run admits
  MaxBody  \* the longest command body, in bytes

(***************************************************************************)
(* bad_procedure_byte  the card answers a header with a byte that is no   *)
(*                     procedure byte                                      *)
(* idle_hw_error       a parity error or collision while the card is idle *)
(* preempted_reset     a UART interrupt between the user callback and the *)
(*                     state change to RESET that follows it              *)
(***************************************************************************)
Hazards == {"bad_procedure_byte", "idle_hw_error", "preempted_reset"}

ASSUME EnvAssumption == Env \subseteq Hazards
ASSUME BodyAssumption == MaxBody \in Nat

VARIABLES
  uart,      \* ip->uart
  main,      \* state of the main FSM
  atr,       \* state of the ATR FSM
  tpdu,      \* state of the TPDU FSM
  left,      \* body bytes of a command TPDU not yet sent one by one (l3len);
             \* in PROCEDURE, 0 means a response TPDU (not tfp->is_command)
  event,     \* cs->event, the one-place mailbox to the main loop
  crashed    \* an OSMO_ASSERT failed: the firmware has stopped

fsmVars == <<uart, main, atr, tpdu, left, event, crashed>>

MainStates == {"RESET", "WAIT_ATR", "IN_ATR", "WAIT_TPDU", "IN_TPDU"}

\* WAIT_TX stands for WAIT_T0, TA, TB, TC and TD, WAIT_END for WAIT_HIST and
\* WAIT_TCK: a timeout ends the ATR with an error in the former, well in the
\* latter.
AtrStates == {"WAIT_TS", "WAIT_TX", "WAIT_END", "DONE"}

TpduStates == {"INIT", "TX_HDR", "PROCEDURE", "TX_REMAINING", "TX_SINGLE",
               "RX_REMAINING", "RX_SINGLE", "SW1", "SW2", "DONE"}

Events == {"none", "ATR_DONE", "ATR_ERR", "TPDU_DONE", "TPDU_FAILED"}

FsmTypeOK ==
  /\ uart \in UartType
  /\ main \in MainStates
  /\ atr \in AtrStates
  /\ tpdu \in TpduStates
  /\ left \in 0..MaxBody
  /\ event \in Events
  /\ crashed \in BOOLEAN

FsmInit ==
  /\ uart = UartInit
  /\ main = "RESET"
  /\ atr = "WAIT_TS"
  /\ tpdu = "INIT"
  /\ left = 0
  /\ event = "none"
  /\ crashed = FALSE

-----------------------------------------------------------------------------
(* State changes. *)

\* The out_state_masks of the TPDU states; every state may go to INIT.
TpduEdges ==
  {<<"INIT", "TX_HDR">>, <<"TX_HDR", "PROCEDURE">>,
   <<"PROCEDURE", "PROCEDURE">>, <<"PROCEDURE", "RX_REMAINING">>,
   <<"PROCEDURE", "RX_SINGLE">>, <<"PROCEDURE", "TX_REMAINING">>,
   <<"PROCEDURE", "TX_SINGLE">>, <<"PROCEDURE", "SW2">>,
   <<"PROCEDURE", "DONE">>, <<"TX_REMAINING", "SW1">>,
   <<"TX_SINGLE", "PROCEDURE">>, <<"RX_REMAINING", "SW1">>,
   <<"RX_SINGLE", "PROCEDURE">>, <<"RX_SINGLE", "SW1">>,
   <<"SW1", "SW1">>, <<"SW1", "SW2">>, <<"SW2", "DONE">>}

\* osmo_fsm_inst_state_chg: a change the mask does not permit is refused.
TpduChg(to) == tpdu' = IF <<tpdu, to>> \in TpduEdges THEN to ELSE tpdu

\* Mutant: a multi-byte threshold survives the reset.
ResetOnEnter_KeepsThreshold(u) == TxAbort(RxTimerHint(u, FALSE))

\* iso7816_3_reset_onenter on the UART
ResetOnEnter(u) == SetRxThreshold(TxAbort(RxTimerHint(u, FALSE)), "one")

ToReset(u) ==
  /\ main' = "RESET"
  /\ atr' = "WAIT_TS"
  /\ tpdu' = "INIT"
  /\ uart' = ResetOnEnter(u)

\* Mutant: the wait time keeps running after the exchange.
ToWaitTpdu_KeepsHint(u) ==
  /\ main' = "WAIT_TPDU"
  /\ tpdu' = "INIT"
  /\ uart' = u

\* iso7816_3_wait_tpdu_onenter, with the CLEAR_REQ it sends to the TPDU FSM.
ToWaitTpdu(u) ==
  /\ main' = "WAIT_TPDU"
  /\ tpdu' = "INIT"
  /\ uart' = RxTimerHint(u, FALSE)

\* Mutant: the wait time is not armed.
AwaitByte_NoHint(u) == SetRxThreshold(u, "one")

\* "One more byte": threshold 1, wait time re-armed.
AwaitByte(u) == RxTimerHint(SetRxThreshold(u, "one"), TRUE)

\* card_uart_tx, whose asserts stop the firmware.
Transmit(u) ==
  /\ uart' = StartTx(u)
  /\ crashed' \in StartTxAsserts(u)

-----------------------------------------------------------------------------
(* A byte in the receive interrupt, _SIM_rx_cb.  Whatever becomes of the   *)
(* byte, the wait time is restarted first.                                 *)

\* Mutant: the echo of what is transmitted is taken for the card's bytes.
Receiving_HearsEcho == uart.enabled

\* The interrupt handler discards what arrives while it transmits.
Receiving == uart.enabled /\ ~uart.shifting

\* At threshold 1 a byte is an RX_SINGLE event, else it is stored, and the one
\* that reaches the threshold an RX_COMPL event.
RxSingle == Receiving /\ uart.threshold = "one"
RxStored == Receiving /\ uart.threshold = "many"

\* The states whose event masks and actions make use of a byte.
Heeded ==
  \/ main \in {"WAIT_ATR", "IN_ATR"} /\ RxSingle
  \/ main = "IN_TPDU" /\ tpdu \in {"PROCEDURE", "RX_SINGLE", "SW1", "SW2"} /\ RxSingle
  \/ main = "IN_TPDU" /\ tpdu = "RX_REMAINING" /\ RxStored

RxIgnored ==
  /\ Receiving
  /\ ~Heeded
  /\ uart' = WtimeRestart(uart)
  /\ UNCHANGED <<main, atr, tpdu, left, event, crashed>>

\* WAIT_ATR sets the hint, goes to IN_ATR and hands the byte on.
AtrUart ==
  IF main = "WAIT_ATR" THEN RxTimerHint(WtimeRestart(uart), TRUE)
                       ELSE WtimeRestart(uart)

\* A TS of neither convention is not recorded; the FSM waits on.
RxBadTS ==
  /\ RxSingle
  /\ main \in {"WAIT_ATR", "IN_ATR"}
  /\ atr = "WAIT_TS"
  /\ main' = "IN_ATR"
  /\ uart' = AtrUart
  /\ UNCHANGED <<atr, tpdu, left, event, crashed>>

RxAtrByte ==
  /\ RxSingle
  /\ main \in {"WAIT_ATR", "IN_ATR"}
  /\ \/ atr = "WAIT_TS" /\ atr' = "WAIT_TX"
     \/ atr = "WAIT_TX" /\ atr' \in {"WAIT_TX", "WAIT_END"}
     \/ atr = "WAIT_END" /\ atr' = "WAIT_END"
  /\ main' = "IN_ATR"
  /\ uart' = GuardTime(AtrUart)
  /\ UNCHANGED <<tpdu, left, event, crashed>>

\* The last byte.  T0 ... TD may not go to DONE, but ATR_DONE_IND is sent.
RxAtrLast ==
  /\ RxSingle
  /\ main = "IN_ATR"
  /\ atr \in {"WAIT_TX", "WAIT_END"}
  /\ atr' = IF atr = "WAIT_END" THEN "DONE" ELSE atr
  /\ ToWaitTpdu(AtrUart)
  /\ event' = "ATR_DONE"
  /\ UNCHANGED <<left, crashed>>

InTpdu(state) ==
  /\ main = "IN_TPDU"
  /\ tpdu = state
  /\ UNCHANGED <<main, atr, left>>

RxTpdu(state) == RxSingle /\ InTpdu(state)

\* A byte after which the TPDU FSM waits for one more.
RxOneMore(next) ==
  /\ uart' = AwaitByte(WtimeRestart(uart))
  /\ TpduChg(next)
  /\ UNCHANGED <<event, crashed>>

RxProcNull == RxTpdu("PROCEDURE") /\ RxOneMore("PROCEDURE")

RxProcSW == RxTpdu("PROCEDURE") /\ RxOneMore("SW2")

\* INS: the card takes, or sends, all the data.
RxProcIns ==
  /\ RxTpdu("PROCEDURE")
  /\ \/ /\ left > 0
        /\ TpduChg("TX_REMAINING")
        /\ Transmit(WtimeRestart(uart))
        /\ UNCHANGED event
     \/ /\ left = 0
        /\ RxOneMore("RX_SINGLE")       \* a single byte is expected
     \/ /\ left = 0
        /\ TpduChg("RX_REMAINING")
        /\ uart' = RxTimerHint(SetRxThreshold(WtimeRestart(uart), "many"), TRUE)
        /\ UNCHANGED <<event, crashed>>

\* INS ^ 0xFF: the card takes, or sends, one byte.
RxProcInsX ==
  /\ RxTpdu("PROCEDURE")
  /\ \/ /\ left > 0
        /\ TpduChg("TX_SINGLE")
        /\ Transmit(WtimeRestart(uart))
        /\ UNCHANGED event
     \/ left = 0 /\ RxOneMore("RX_SINGLE")

\* Anything else: DONE, and a TPDU_FAILED_IND which IN_TPDU's event mask drops.
RxProcBad ==
  /\ "bad_procedure_byte" \in Env
  /\ RxTpdu("PROCEDURE")
  /\ TpduChg("DONE")
  /\ uart' = RxTimerHint(WtimeRestart(uart), FALSE)
  /\ UNCHANGED <<event, crashed>>

\* Below the threshold a byte only restarts the wait time.
RxDataMore ==
  /\ RxStored
  /\ InTpdu("RX_REMAINING")
  /\ uart' = WtimeRestart(uart)
  /\ UNCHANGED <<tpdu, event, crashed>>

RxDataLast ==
  /\ RxStored
  /\ InTpdu("RX_REMAINING")
  /\ RxOneMore("SW1")

RxDataSingle == RxTpdu("RX_SINGLE") /\ (RxOneMore("PROCEDURE") \/ RxOneMore("SW1"))

RxSW1 == RxTpdu("SW1") /\ (RxOneMore("SW1") \/ RxOneMore("SW2"))

\* SW2 ends the exchange: TPDU DONE, TPDU_DONE_IND, main FSM to WAIT_TPDU.
RxSW2 ==
  /\ RxSingle
  /\ main = "IN_TPDU"
  /\ tpdu = "SW2"
  /\ ToWaitTpdu(WtimeRestart(uart))
  /\ event' = "TPDU_DONE"
  /\ UNCHANGED <<atr, left, crashed>>

RxIrq ==
  \/ RxIgnored \/ RxBadTS \/ RxAtrByte \/ RxAtrLast
  \/ RxProcNull \/ RxProcSW \/ RxProcIns \/ RxProcInsX \/ RxProcBad
  \/ RxDataMore \/ RxDataLast \/ RxDataSingle \/ RxSW1 \/ RxSW2

-----------------------------------------------------------------------------
(* The other UART interrupts. *)

Shifting == uart.enabled /\ uart.shifting

\* CUART_E_TX_COMPLETE for a transfer the TPDU FSM waits for.
TxDoneTpdu ==
  /\ Shifting
  /\ main = "IN_TPDU"
  /\ \/ tpdu = "TX_HDR" /\ TpduChg("PROCEDURE") /\ UNCHANGED left
     \/ tpdu = "TX_REMAINING" /\ TpduChg("SW1") /\ UNCHANGED left
     \/ /\ tpdu = "TX_SINGLE"
        /\ left' = left - 1
        /\ TpduChg(IF left > 1 THEN "PROCEDURE" ELSE "SW1")   \* SW1 is refused
  /\ uart' = AwaitByte(TxComplete(uart))
  /\ UNCHANGED <<main, atr, event, crashed>>

\* One nobody waits for: masked out, except in INIT, whose action asserts.
TxDoneIgnored ==
  /\ Shifting
  /\ ~(main = "IN_TPDU" /\ tpdu \in {"TX_HDR", "TX_REMAINING", "TX_SINGLE"})
  /\ uart' = TxComplete(uart)
  /\ crashed' = (main = "IN_TPDU" /\ tpdu = "INIT")
  /\ UNCHANGED <<main, atr, tpdu, left, event>>

TxDone == TxDoneTpdu \/ TxDoneIgnored

\* Mutant: the hardware error itself is put into the mailbox.
FailureEvent_Raw == IF main = "IN_TPDU" THEN "HW_ERR" ELSE event

\* The event the main FSM reports before it gives up for lack of hardware.
FailureEvent ==
  CASE main \in {"WAIT_ATR", "IN_ATR"} -> "ATR_ERR"
    [] main = "IN_TPDU" -> "TPDU_FAILED"
    [] OTHER -> event

\* Mutant: the failure is reported but the FSM is not reset.
HwError_NoReset ==
  /\ uart.enabled /\ uart.errIrq
  /\ main = "WAIT_TPDU" => "idle_hw_error" \in Env
  /\ event' = FailureEvent
  /\ uart' = NoRxTx(uart)
  /\ UNCHANGED <<main, atr, tpdu, left, crashed>>

\* Parity error, frame error or collision: the UART is switched off, the
\* exchange in progress reported failed, the FSM reset.
HwError ==
  /\ uart.enabled /\ uart.errIrq
  /\ main = "WAIT_TPDU" => "idle_hw_error" \in Env
  /\ event' = FailureEvent
  /\ ToReset(NoRxTx(uart))
  /\ UNCHANGED <<left, crashed>>

-----------------------------------------------------------------------------
(* Handlers the main loop runs. *)

\* RESET_ACT, power-up and the 10 ms of reset, RESET_REL.  What is left of an
\* aborted transmission may or may not be shifted out, unnoticed, meanwhile.
ResetPulse(u) ==
  /\ main' = "WAIT_ATR"
  /\ atr' = "WAIT_TS"
  /\ tpdu' = "INIT"
  /\ \E some \in {FALSE, u.shifting} :
        uart' = RxTimerHint([ResetOnEnter(u) EXCEPT !.shifting = some], TRUE)
  /\ UNCHANGED <<left, event, crashed>>

\* XCEIVE_TPDU_CMD, first half: the main FSM goes to IN_TPDU.  In any other
\* state than WAIT_TPDU the event is masked out.
XceiveTpdu ==
  /\ main' = IF main = "WAIT_TPDU" THEN "IN_TPDU" ELSE main
  /\ UNCHANGED <<uart, atr, tpdu, left, event, crashed>>

\* Second half: the TPDU FSM copies the TPDU and transmits its header.
XceiveTpduHeader ==
  /\ left' \in 0..MaxBody
  /\ TpduChg("TX_HDR")
  /\ Transmit(uart)
  /\ UNCHANGED <<main, atr, event>>

\* WTIME_EXP during the ATR is the ATR FSM's: in WAIT_END it completes it.
WtimeExpAtr ==
  /\ main \in {"WAIT_ATR", "IN_ATR"}
  /\ IF atr = "WAIT_END"
     THEN /\ atr' = "DONE"
          /\ ToWaitTpdu(WtimeStop(uart))
          /\ event' = "ATR_DONE"
     ELSE /\ ToReset(WtimeStop(uart))
          /\ event' = "ATR_ERR"
  /\ UNCHANGED <<left, crashed>>

\* Mutant: the user is not told.
WtimeExpReport_Silent ==
  /\ main \notin {"WAIT_ATR", "IN_ATR"}
  /\ uart' = WtimeStop(uart)
  /\ UNCHANGED <<main, atr, tpdu, left, event, crashed>>

\* WTIME_EXP elsewhere: first the user callback ...
WtimeExpReport ==
  /\ main \notin {"WAIT_ATR", "IN_ATR"}
  /\ event' = IF main = "RESET" THEN event ELSE "TPDU_FAILED"
  /\ uart' = WtimeStop(uart)
  /\ UNCHANGED <<main, atr, tpdu, left, crashed>>

\* ... then the state change.
EnterReset == ToReset(uart) /\ UNCHANGED <<left, event, crashed>>

=============================================================================
