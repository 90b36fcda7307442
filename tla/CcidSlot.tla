------------------------------ MODULE CcidSlot ------------------------------
(***************************************************************************)
(* One slot of the reader, from the bulk-OUT message to the card UART:    *)
(* the main loop of sysmoOCTSIM/main.c (poll_card_detect,                 *)
(* handle_fsm_events, feed_ccid), the dispatcher of ccid_common/          *)
(* ccid_device.c, the slot operations of ccid_common/ccid_slot_fsm.c and, *)
(* below, the FSMs of Iso7816Fsm, which the UART interrupts drive at any  *)
(* instant between two steps of the main loop.                            *)
(*                                                                         *)
(* pc is the place of the main loop, cut where an interrupt makes a       *)
(* difference:                                                             *)
(*   detect    poll_card_detect                                            *)
(*   removing  CARD_REMOVAL: between the user callback and RESET           *)
(*   events    handle_fsm_events reads the mailbox                         *)
(*   answer    ... acts on what it read                                    *)
(*   poll      card_uart_wtime_poll compares the deadline                  *)
(*   expire    ... has found it reached                                    *)
(*   reset     WTIME_EXP: between the user callback and RESET              *)
(*   feed      feed_ccid / ccid_handle_out                                 *)
(*   xfr       XCEIVE_TPDU_CMD: between IN_TPDU and card_uart_tx           *)
(***************************************************************************)
EXTENDS Iso7816Fsm, Sequences, Integers

CONSTANTS
  Seqs,    \* the bSeq values the host uses
  NoSeq,   \* ss->seq before the first command
  MaxOpen  \* how many commands the host has outstanding at most

ASSUME OpenAssumption == MaxOpen \in Nat \ {0}
ASSUME SeqAssumption == NoSeq \notin Seqs

\* GetSlotStatus stands for every command that is answered on the spot and
\* leaves the slot alone, SetParameters also for ResetParameters, and
\* BadXfrBlock for an XfrBlock its length or wLevelParameter checks reject.
Kinds == {"IccPowerOn", "IccPowerOff", "XfrBlock", "BadXfrBlock",
          "SetParameters", "GetSlotStatus"}
Commands == [kind : Kinds, seq : Seqs]
NoCmd == [kind |-> "none", seq |-> NoSeq]
Replies == [seq : Seqs \cup {NoSeq}, ok : BOOLEAN]

PCs == {"detect", "removing", "events", "answer", "poll", "expire", "reset",
        "feed", "xfr"}

VARIABLES
  inserted, \* a card is in the slot
  present,  \* cs->icc_present
  powered,  \* cs->icc_powered
  busy,     \* cs->cmd_busy
  seq,      \* ss->seq
  pc,       \* where the main loop is
  taken,    \* handle_fsm_events' copy of cs->event
  outq,     \* bulk-OUT messages received and not yet handled
  inq,      \* bulk-IN messages the host has not yet collected
  cur       \* history: the accepted command not yet answered

slotVars == <<inserted, present, powered, busy, seq, pc, taken>>
hostVars == <<outq, inq, cur>>
vars == <<fsmVars, slotVars, hostVars>>

TypeOK ==
  /\ FsmTypeOK
  /\ inserted \in BOOLEAN
  /\ present \in BOOLEAN
  /\ powered \in BOOLEAN
  /\ busy \in BOOLEAN
  /\ seq \in Seqs \cup {NoSeq}
  /\ pc \in PCs
  /\ taken \in Events
  /\ outq \in Seq(Commands)
  /\ inq \in Seq(Replies)
  /\ cur \in Commands \cup {NoCmd}

Init ==
  /\ FsmInit
  /\ inserted = FALSE
  /\ present = FALSE
  /\ powered = FALSE
  /\ busy = FALSE
  /\ seq = NoSeq
  /\ pc = "detect"
  /\ taken = "none"
  /\ outq = <<>>
  /\ inq = <<>>
  /\ cur = NoCmd

-----------------------------------------------------------------------------
(* The host and the hand that inserts cards. *)

SeqsOf(q) == {q[i].seq : i \in DOMAIN q}
Outstanding == SeqsOf(outq) \cup SeqsOf(inq) \cup {cur.seq}

\* A bulk-OUT message; bSeq distinguishes the outstanding ones.
Submit(c) ==
  /\ Len(outq) + Len(inq) + (IF cur = NoCmd THEN 0 ELSE 1) < MaxOpen
  /\ c.seq \notin Outstanding
  /\ outq' = Append(outq, c)
  /\ UNCHANGED <<fsmVars, slotVars, inq, cur>>

Collect ==
  /\ inq # <<>>
  /\ inq' = Tail(inq)
  /\ UNCHANGED <<fsmVars, slotVars, outq, cur>>

MoveCard ==
  /\ inserted' = ~inserted
  /\ UNCHANGED <<fsmVars, present, powered, busy, seq, pc, taken, hostVars>>

-----------------------------------------------------------------------------
(* Interrupts.  A card that is out or without power sends nothing. *)

Preemptible == pc \in {"reset", "removing"} => "preempted_reset" \in Env

UartRx == Preemptible /\ inserted /\ powered /\ RxIrq /\ UNCHANGED <<slotVars, hostVars>>
UartTxDone == Preemptible /\ TxDone /\ UNCHANGED <<slotVars, hostVars>>
UartError == Preemptible /\ HwError /\ UNCHANGED <<slotVars, hostVars>>

\* The jiffies counter passes the deadline.
ClockExpire ==
  /\ uart.deadline = "running"
  /\ uart' = [uart EXCEPT !.deadline = "expired"]
  /\ UNCHANGED <<main, atr, tpdu, left, event, crashed, slotVars, hostVars>>

-----------------------------------------------------------------------------
(* iso_fsm_slot_icc_set_insertion_status *)

Goto(label) == pc' = label

DetectNothing ==
  /\ pc = "detect" /\ (inserted <=> present)
  /\ Goto("events")
  /\ UNCHANGED <<fsmVars, inserted, present, powered, busy, seq, taken, hostVars>>

DetectInsertion ==
  /\ pc = "detect" /\ inserted /\ ~present
  /\ present' = TRUE
  /\ Goto("events")
  /\ UNCHANGED <<fsmVars, inserted, powered, busy, seq, taken, hostVars>>

DetectRemoval ==
  /\ pc = "detect" /\ ~inserted /\ present
  /\ present' = FALSE
  /\ event' = FailureEvent
  /\ Goto("removing")
  /\ UNCHANGED <<uart, main, atr, tpdu, left, crashed,
                 inserted, powered, busy, seq, taken, hostVars>>

FinishRemoval ==
  /\ pc = "removing"
  /\ main' = "RESET" /\ atr' = "WAIT_TS" /\ tpdu' = "INIT"
  /\ uart' = Power(Rst(ResetOnEnter(uart), TRUE), FALSE)
  /\ powered' = FALSE
  /\ busy' = FALSE
  /\ Goto("events")
  /\ UNCHANGED <<left, event, crashed, inserted, present, seq, taken, hostVars>>

-----------------------------------------------------------------------------
(* iso_handle_fsm_events *)

ReadEvent ==
  /\ pc = "events"
  /\ taken' = event
  /\ Goto(IF event = "none" THEN "poll" ELSE "answer")
  /\ UNCHANGED <<fsmVars, inserted, present, powered, busy, seq, hostVars>>

\* ccid_slot_send_unbusy of the answer, then cs->event = 0.
SendUnbusy(ok) ==
  /\ inq' = Append(inq, [seq |-> seq, ok |-> ok])
  /\ busy' = FALSE
  /\ event' = "none"
  /\ taken' = "none"
  /\ cur' = NoCmd
  /\ Goto("poll")
  /\ UNCHANGED <<main, atr, tpdu, left, crashed, inserted, present, seq, outq>>

\* After the ATR the error interrupt is enabled.
AnswerDone ==
  /\ pc = "answer" /\ taken \in {"ATR_DONE", "TPDU_DONE"}
  /\ uart' = IF taken = "ATR_DONE" THEN ErrorAndInv(uart) ELSE uart
  /\ UNCHANGED powered
  /\ SendUnbusy(TRUE)

\* Mutant: the slot is still taken for powered.
AnswerFailed_KeepsPowered ==
  /\ pc = "answer" /\ taken \in {"ATR_ERR", "TPDU_FAILED"}
  /\ uart' = Power(Rst(uart, TRUE), FALSE)
  /\ UNCHANGED powered
  /\ SendUnbusy(FALSE)

\* Every failure deactivates the card.
AnswerFailed ==
  /\ pc = "answer" /\ taken \in {"ATR_ERR", "TPDU_FAILED"}
  /\ uart' = Power(Rst(uart, TRUE), FALSE)
  /\ powered' = FALSE
  /\ SendUnbusy(FALSE)

\* card_uart_wtime_poll reads the deadline ...
PollDeadline ==
  /\ pc = "poll"
  /\ Goto(IF uart.deadline = "expired" THEN "expire" ELSE "feed")
  /\ UNCHANGED <<fsmVars, inserted, present, powered, busy, seq, taken, hostVars>>

\* ... and acts on it, although an interrupt may have moved it since.
ExpireDeadline ==
  /\ pc = "expire"
  /\ \/ WtimeExpAtr /\ Goto("feed")
     \/ WtimeExpReport /\ Goto("reset")
  /\ UNCHANGED <<inserted, present, powered, busy, seq, taken, hostVars>>

ExpireReset ==
  /\ pc = "reset"
  /\ EnterReset
  /\ Goto("feed")
  /\ UNCHANGED <<inserted, present, powered, busy, seq, taken, hostVars>>

-----------------------------------------------------------------------------
(* feed_ccid: ccid_handle_out on the oldest message, if there is one. *)

FeedNothing ==
  /\ pc = "feed" /\ outq = <<>>
  /\ Goto("detect")
  /\ UNCHANGED <<fsmVars, inserted, present, powered, busy, seq, taken, hostVars>>

Handling(kind) ==
  /\ pc = "feed" /\ outq # <<>>
  /\ Head(outq).kind = kind
  /\ outq' = Tail(outq)
  /\ UNCHANGED <<inserted, present, taken>>

\* Mutant: the busy check is missing.
Accepts_WhenBusy == present

\* The commands that get past the two general rejections.
Accepts == ~busy /\ present

\* Mutant: the answer carries the bSeq of the last asynchronous command.
Reply_StoredSeq(ok) ==
  /\ inq' = Append(inq, [seq |-> seq, ok |-> ok])
  /\ Goto("detect")
  /\ UNCHANGED <<cur, busy>>

Reply(ok) ==
  /\ inq' = Append(inq, [seq |-> Head(outq).seq, ok |-> ok])
  /\ Goto("detect")
  /\ UNCHANGED <<cur, busy>>

\* CMD_SLOT_BUSY or ICC_MUTE, whatever the command.
RejectCmd ==
  /\ \E kind \in Kinds : Handling(kind)
  /\ ~Accepts
  /\ Reply(FALSE)
  /\ UNCHANGED <<fsmVars, powered, seq>>

\* Answered on the spot; some handlers fail, or set ss->seq, on the way.
DoImmediate ==
  /\ Accepts
  /\ \/ Handling("GetSlotStatus") /\ seq' = seq
     \/ Handling("SetParameters") /\ seq' \in {seq, Head(outq).seq}
  /\ \E ok \in BOOLEAN : Reply(ok)
  /\ UNCHANGED <<fsmVars, powered>>

DoIccPowerOff ==
  /\ Accepts
  /\ Handling("IccPowerOff")
  /\ uart' = Power(uart, FALSE)
  /\ powered' = FALSE
  /\ Reply(TRUE)
  /\ UNCHANGED <<main, atr, tpdu, left, event, crashed, seq>>

\* Cold reset of an unpowered card, warm reset of a powered one.
DoIccPowerOn ==
  /\ Accepts
  /\ Handling("IccPowerOn")
  /\ busy' = TRUE
  /\ cur' = Head(outq)
  /\ seq' = Head(outq).seq
  /\ ResetPulse(IF powered THEN Rst(uart, TRUE) ELSE Power(Rst(uart, TRUE), TRUE))
  /\ powered' = TRUE
  /\ Goto("detect")
  /\ UNCHANGED inq

\* Rejected by its own checks, or because the card is not powered.
RejectXfrBlock ==
  /\ Accepts
  /\ \/ Handling("BadXfrBlock") /\ seq' \in {seq, Head(outq).seq}
     \/ Handling("XfrBlock") /\ ~powered /\ seq' = Head(outq).seq
  /\ Reply(FALSE)
  /\ UNCHANGED <<fsmVars, powered>>

DoXfrBlock ==
  /\ Accepts
  /\ Handling("XfrBlock") /\ powered
  /\ busy' = TRUE
  /\ cur' = Head(outq)
  /\ seq' = Head(outq).seq
  /\ XceiveTpdu
  /\ Goto(IF main = "WAIT_TPDU" THEN "xfr" ELSE "detect")
  /\ UNCHANGED <<powered, inq>>

StartXfr ==
  /\ pc = "xfr"
  /\ XceiveTpduHeader
  /\ Goto("detect")
  /\ UNCHANGED <<inserted, present, powered, busy, seq, taken, hostVars>>

-----------------------------------------------------------------------------

Detect == DetectNothing \/ DetectInsertion \/ DetectRemoval \/ FinishRemoval
HandleEvents == ReadEvent \/ AnswerDone \/ AnswerFailed
PollWtime == PollDeadline \/ ExpireDeadline \/ ExpireReset
HandleOut == \/ FeedNothing \/ RejectCmd \/ DoImmediate \/ DoIccPowerOff
             \/ DoIccPowerOn \/ RejectXfrBlock \/ DoXfrBlock \/ StartXfr

MainLoop == Detect \/ HandleEvents \/ PollWtime \/ HandleOut
Interrupt == UartRx \/ UartTxDone \/ UartError
Host == (\E c \in Commands : Submit(c)) \/ Collect

Next == ~crashed /\ (MainLoop \/ Interrupt \/ ClockExpire \/ Host \/ MoveCard)

Spec == Init /\ [][Next]_vars

\* The main loop runs for ever and a transmission shifts out.  Every byte of
\* the card restarts the wait time, but the card's answer is finite: it does
\* not for ever prevent the deadline from passing and being seen to pass.
Fairness ==
  /\ WF_vars(~crashed /\ MainLoop)
  /\ WF_vars(~crashed /\ UartTxDone)
  /\ SF_vars(~crashed /\ ClockExpire /\ pc = "poll")
  /\ SF_vars(~crashed /\ PollDeadline /\ uart.deadline = "expired")

FairSpec == Spec /\ Fairness

-----------------------------------------------------------------------------
(* Properties.                                                             *)

\* Between two steps of the FSM, and not inside one of the two routines that
\* report a failure before they reset it.
Reporting == pc \in {"removing", "reset"}

\* The mailbox holds one event and nothing guards it: iso_fsm_clot_user_cb
\* overwrites, and handle_fsm_events clears whatever is there when it is done.
\* So while an event is pending the FSM must be in a state in which no
\* interrupt reports another, and the main loop must answer the very event
\* that is there, or an exchange would end without an answer.  The windows of
\* Reporting are left out: an interrupt in one of them does overwrite it.
MailboxSafe ==
  /\ event # "none" /\ ~Reporting => main \in {"RESET", "WAIT_TPDU"}
  /\ pc = "answer" => event = taken /\ event # "none"

\* What is put into the mailbox stays there until the main loop has answered just
\* that, in the windows of Reporting, too, if no interrupt comes in them.  Only a
\* deadline the main loop has read before the last byte moved it (cuart.c:85)
\* takes its place: the command in progress has succeeded and is failed.
EventKept ==
  [][event # "none" /\ event' # event =>
       \/ pc = "answer" /\ taken = event /\ event' = "none"
       \/ /\ pc = "expire" /\ event \in {"ATR_DONE", "TPDU_DONE"}
          /\ event' = "TPDU_FAILED" /\ cur # NoCmd /\ cur' = cur]_vars

\* An answer carries ss->seq, not the bSeq of its command: they must agree
\* although every later command, refused or not, may write ss->seq, and there
\* must be a command to answer, of a kind that ends with such an event.
AnswerMatches ==
  /\ event # "none" => cur # NoCmd
  /\ cur # NoCmd => seq = cur.seq
  /\ event \in {"ATR_DONE", "ATR_ERR"} => cur.kind = "IccPowerOn"
  /\ event = "TPDU_DONE" => cur.kind = "XfrBlock"

\* cmd_busy is a promise that something will come back: an event not yet
\* answered, a wait time that runs, or a transmission that will complete.
\* A busy slot with none of the three refuses every command for ever.
Pending ==
  \/ event # "none"
  \/ uart.deadline # "none"
  \/ uart.shifting /\ uart.txBusy /\ uart.enabled
  \/ pc \in {"removing", "expire", "reset", "xfr"}
BusyHasWaker == busy => Pending

\* Between commands nothing is armed: a deadline left behind would report a
\* failure no command asked for and power the card down, a transmission left
\* behind would trip the asserts of the next one.
IdleIsQuiet ==
  cur = NoCmd =>
    /\ ~busy
    /\ main \in {"RESET", "WAIT_TPDU"}
    /\ uart.deadline = "none" /\ ~uart.hint
    /\ ~uart.txBusy

\* The comment in iso7816_3_reset_onenter: wherever a reset or a failure cuts
\* an exchange off, what it left in the UART must not reach the next one.  A
\* byte is delivered in the form the state waits for, and a transmission is
\* under way exactly when a TPDU state waits for its completion.
TxStates == {"TX_HDR", "TX_REMAINING", "TX_SINGLE"}
UartMatchesFsm ==
  /\ uart.threshold = "many" <=> main = "IN_TPDU" /\ tpdu = "RX_REMAINING"
  /\ uart.txBusy => uart.shifting /\ main \in {"RESET", "IN_TPDU"}
  /\ main \in {"IN_ATR", "WAIT_TPDU"} => ~uart.shifting
  /\ main = "IN_TPDU" => (pc = "xfr" <=> tpdu = "INIT")
  /\ main = "IN_TPDU" /\ uart.shifting => tpdu \in TxStates
  /\ main = "IN_TPDU" /\ tpdu \in TxStates \ {"TX_SINGLE"} => uart.txBusy

\* A card the host was told is active can take an XfrBlock: the FSM waits for
\* a TPDU and the UART is switched on.
ReadyWhenPowered ==
  powered /\ cur = NoCmd => main = "WAIT_TPDU" /\ uart.enabled /\ uart.errIrq

\* cuart_driver_asf4_usart_async.c:438: a UART an error switched off is on again
\* soon, while the card is powered without the host's doing.
UartReenabled == powered /\ ~uart.enabled ~> uart.enabled

\* No OSMO_ASSERT of cuart.c:195, cuart_driver_asf4_usart_async.c:409 or
\* iso7816_fsm.c:1311 fails.
NoAssert == ~crashed

\* The slot keeps the promise of CcidExchange.
Exchange == INSTANCE CcidExchange
  WITH outq <- outq, inq <- inq, cur <- cur, Commands <- Commands, NoCmd <- NoCmd
ImplementsExchange == Exchange!Spec

\* Whatever the card does, every message the host sent is answered.
Unanswered(s) == s \in SeqsOf(outq) \cup {cur.seq}
Answered(s) == s \in SeqsOf(inq)
EveryCommandAnswered == \A s \in Seqs : Unanswered(s) ~> Answered(s)

=============================================================================
