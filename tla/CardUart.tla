------------------------------ MODULE CardUart ------------------------------
(***************************************************************************)
(* The card UART of one slot: ccid_common/cuart.c together with its SAM   *)
(* E54 driver sysmoOCTSIM/cuart_driver_asf4_usart_async.c.  The UART is a *)
(* record; every entry point the ISO 7816-3 state machines or the slot    *)
(* call is an operator from the record before to the record after.        *)
(*                                                                         *)
(*   txBusy     cuart->tx_busy                                             *)
(*   hint       cuart->current_wtime_byte # 0                              *)
(*   deadline   the wait-time deadline: not set, in the future, reached    *)
(*   threshold  cuart->rx_threshold: 1, or more than 1                     *)
(*   enabled    CTRLA.ENABLE of the SERCOM                                 *)
(*   errIrq     INTEN.ERROR of the SERCOM                                  *)
(*   shifting   the descriptor holds bytes to transmit; without txBusy     *)
(*              they belong to a transfer that was given up                *)
(*                                                                         *)
(* Baud rates, the received bytes and the ring buffer are abstracted.     *)
(***************************************************************************)

Deadlines == {"none", "running", "expired"}

UartType == [txBusy    : BOOLEAN,
             hint      : BOOLEAN,
             deadline  : Deadlines,
             threshold : {"one", "many"},
             enabled   : BOOLEAN,
             errIrq    : BOOLEAN,
             shifting  : BOOLEAN]

\* card_uart_open; the driver's slot_set_isorate has cleared INTEN.ERROR, which
\* registering the error callback set.
UartInit == [txBusy |-> FALSE, hint |-> FALSE, deadline |-> "none",
             threshold |-> "one", enabled |-> TRUE, errIrq |-> FALSE,
             shifting |-> FALSE]

-----------------------------------------------------------------------------
(* Wait time. *)

WtimeStop(u) == [u EXCEPT !.deadline = "none"]

\* Restarting is a no-op until the FSM gives a byte-count hint.
WtimeRestart(u) == IF u.hint THEN [u EXCEPT !.deadline = "running"] ELSE u

\* CUART_CTL_RX_TIMER_HINT
RxTimerHint(u, on) ==
  IF on THEN WtimeRestart([u EXCEPT !.hint = TRUE])
        ELSE WtimeStop([u EXCEPT !.hint = FALSE])

\* atr_state_chg_guard sets the deadline whatever the hint is.
GuardTime(u) == [u EXCEPT !.deadline = "running"]

SetRxThreshold(u, n) == [u EXCEPT !.threshold = n]

-----------------------------------------------------------------------------
(* Transmission. *)

\* card_uart_tx: the receiver is "disabled", which stops the wait time.
StartTx(u) == [WtimeStop(u) EXCEPT !.txBusy = TRUE, !.shifting = TRUE]

\* OSMO_ASSERT(!tx_busy), then OSMO_ASSERT(tx empty) in the driver: with a
\* given-up transfer in the descriptor the second one fails unless DATA
\* happens to be empty at that instant.
StartTxAsserts(u) ==
  IF u.txBusy THEN {TRUE} ELSE IF u.shifting THEN BOOLEAN ELSE {FALSE}

\* CUART_E_TX_COMPLETE
TxComplete(u) == [u EXCEPT !.txBusy = FALSE, !.shifting = FALSE]

\* card_uart_tx_abort forgets the transfer; the descriptor keeps its bytes.
TxAbort(u) == [WtimeStop(u) EXCEPT !.txBusy = FALSE]

-----------------------------------------------------------------------------
(* Control requests that reach the hardware. *)

\* Mutant: the peripheral is not switched on again.
SetIsoRate_LeavesOff(u) == [u EXCEPT !.errIrq = FALSE]

\* slot_set_isorate: error interrupt off, peripheral off and on again.
SetIsoRate(u) == [u EXCEPT !.errIrq = FALSE, !.enabled = TRUE]

\* CUART_CTL_RST: only asserting it resets the rate.
Rst(u, on) == IF on THEN SetIsoRate(u) ELSE u

\* CUART_CTL_POWER_*: powering down drops the software state as well.
Power(u, on) ==
  IF on THEN SetIsoRate(u)
  ELSE [WtimeStop(SetIsoRate(u)) EXCEPT !.txBusy = FALSE, !.threshold = "one"]

\* CUART_CTL_NO_RXTX
NoRxTx(u) == [u EXCEPT !.enabled = FALSE]

\* CUART_CTL_ERROR_AND_INV
ErrorAndInv(u) == [u EXCEPT !.enabled = TRUE, !.errIrq = TRUE]

=============================================================================
