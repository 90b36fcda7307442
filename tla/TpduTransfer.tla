---------------------------- MODULE TpduTransfer ----------------------------
(***************************************************************************)
(* The bytes of T=0 exchanges: the TPDU FSM of ccid_common/iso7816_fsm.c, *)
(* which sends a command TPDU's body or collects a response TPDU's data   *)
(* as the card's procedure bytes ask, on a half-duplex line with a card   *)
(* that follows ISO 7816-3 section 10.3.                                  *)
(*                                                                         *)
(* Iso7816Fsm keeps only what decides the control flow; here the bytes    *)
(* themselves are followed, from the host's body to the card and from the *)
(* card to the answer of the XfrBlock, through the receive buffer of the  *)
(* UART, which outlives an exchange.  A data byte is its position.        *)
(***************************************************************************)
EXTENDS Naturals, SequencesExt

CONSTANTS
  Full,  \* what P3 = 0 of a response TPDU asks for: 256 in the code
  Ways   \* what the card may do of what the standard allows, see Liberties

(***************************************************************************)
(* mixed        ask for one byte first and for all the others later       *)
(* last_single  ask for the last byte of a body alone                     *)
(***************************************************************************)
Liberties == {"mixed", "last_single"}

ASSUME FullAssumption == Full \in Nat \ {0, 1}
ASSUME WaysAssumption == Ways \subseteq Liberties

VARIABLES reader, card

vars == <<reader, card>>

\* The bytes that are no data, and Stale for memory no byte was written to.
Hdr == 0
NULL == Full + 1
INS == Full + 2
INSX == Full + 3
SW1 == Full + 4
SW2 == Full + 5
Stale == Full + 6
Bytes == Hdr..Stale

Body(n) == [i \in 1..n |-> i]

ReaderStates == {"INIT", "TX_HDR", "PROCEDURE", "TX_REMAINING", "TX_SINGLE",
                 "RX_REMAINING", "RX_SINGLE", "SW1", "SW2", "DONE", "BAD",
                 "RESET"}
CardStates == {"header", "proc", "take", "take1", "send", "send1", "sw2",
               "end", "mute"}

TypeOK ==
  /\ reader.state \in ReaderStates
  /\ reader.cmd \in BOOLEAN
  /\ reader.p3 \in 0..(Full - 1)
  /\ reader.next \in 0..Full
  /\ reader.tx \in Seq(Hdr..Full)
  /\ reader.threshold \in 1..Full
  /\ reader.ring \in Seq(Bytes)
  /\ reader.buf \in Seq(Bytes)
  /\ card.state \in CardStates
  /\ card.done \in 0..Full
  /\ card.one \in BOOLEAN
  /\ card.got \in Seq(1..Full)
  /\ card.sent \in Seq(Bytes)

Silent == [state |-> "header", done |-> 0, one |-> FALSE, got |-> <<>>, sent |-> <<>>]

Init ==
  /\ reader = [state |-> "INIT", cmd |-> FALSE, p3 |-> 0, next |-> 0,
               tx |-> <<>>, threshold |-> 1, ring |-> <<>>, buf |-> <<>>]
  /\ card = Silent

-----------------------------------------------------------------------------
(* The reader.  Each operator gives the reader after a handler.            *)

\* Mutant: P3 = 0 asks for no byte.
Expected_Raw(r) == r.p3

\* How many bytes a response TPDU asks for.
Expected(r) == IF r.p3 = 0 THEN Full ELSE r.p3

\* Mutant: the threshold of the data is kept for the status.
AwaitByte_KeepsThreshold(r, next) == [r EXCEPT !.state = next]

\* "One more byte": threshold 1.
AwaitByte(r, next) == [r EXCEPT !.threshold = 1, !.state = next]

\* XCEIVE_TPDU_CMD: copy the TPDU, transmit its header.
Start(cmd, p3) ==
  /\ reader.state = "INIT"
  /\ cmd => p3 > 0
  /\ reader' = [reader EXCEPT !.state = "TX_HDR", !.cmd = cmd, !.p3 = p3,
                              !.next = 0, !.buf = <<>>, !.tx = <<Hdr>>]
  /\ card' = Silent

\* Mutant: the body is sent without its last byte.
Rest_Short(r) == SubSeq(Body(r.p3), 1, r.p3 - 1)

\* "transmit all remaining bytes": the body from its beginning.
Rest(r) == Body(r.p3)

\* "transmit *next*, not first byte"
NextByte(r) == <<r.next + 1>>

Procedure(r, b) ==
  CASE b = NULL -> AwaitByte(r, "PROCEDURE")
    [] b = SW1 -> AwaitByte([r EXCEPT !.buf = Append(@, b)], "SW2")
    [] b = INS /\ r.cmd -> [r EXCEPT !.state = "TX_REMAINING", !.tx = Rest(r)]
    [] b = INS /\ ~r.cmd ->
         [r EXCEPT !.threshold = Expected(r),
                   !.state = IF Expected(r) = 1 THEN "RX_SINGLE" ELSE "RX_REMAINING"]
    [] b = INSX /\ r.cmd -> [r EXCEPT !.state = "TX_SINGLE", !.tx = NextByte(r)]
    [] b = INSX /\ ~r.cmd -> AwaitByte(r, "RX_SINGLE")
    [] OTHER -> [r EXCEPT !.state = "BAD"]  \* DONE, but nobody is told

\* RX_SINGLE compares with P3 itself: 256 single bytes end by a status.
RxSingle(r, b) ==
  LET buf == Append(r.buf, b)
  IN  AwaitByte([r EXCEPT !.buf = buf],
                IF Len(buf) = r.p3 THEN "SW1" ELSE "PROCEDURE")

\* What a state makes of a byte that is reported alone.
Single(r, b) ==
  CASE r.state = "PROCEDURE" -> Procedure(r, b)
    [] r.state = "RX_SINGLE" -> RxSingle(r, b)
    [] r.state = "SW1" /\ b = NULL -> AwaitByte(r, "SW1")
    [] r.state = "SW1" /\ b # NULL ->
         AwaitByte([r EXCEPT !.buf = Append(@, b)], "SW2")
    [] r.state = "SW2" -> [r EXCEPT !.buf = Append(@, b), !.state = "DONE"]
    [] OTHER -> r

\* card_uart_rx writes the buffer from the start of the data, msgb_put then
\* lengthens the message by as much.
Collected(r) ==
  [i \in 1..(Len(r.buf) + Len(r.ring)) |->
     CASE i \in DOMAIN r.ring -> r.ring[i]
       [] i \in DOMAIN r.buf \ DOMAIN r.ring -> r.buf[i]
       [] OTHER -> Stale]

Complete(r) ==
  IF r.state # "RX_REMAINING" THEN r
  ELSE AwaitByte([r EXCEPT !.buf = Collected(r), !.ring = <<>>], "SW1")

\* _SIM_rx_cb: the byte goes through the receive buffer in any case; at
\* threshold 1 the oldest byte of the buffer is reported.
Rx(r, b) ==
  LET ring == Append(r.ring, b)
  IN  CASE r.threshold = 1 -> Single([r EXCEPT !.ring = Tail(ring)], Head(ring))
        [] r.threshold > 1 /\ Len(ring) >= r.threshold ->
             Complete([r EXCEPT !.ring = ring])
        [] OTHER -> [r EXCEPT !.ring = ring]

\* The change to SW1 is not among TX_SINGLE's: the state stays.
TxSingleDone(r) ==
  AwaitByte([r EXCEPT !.next = @ + 1],
            IF r.next + 1 < r.p3 THEN "PROCEDURE" ELSE "TX_SINGLE")

\* CUART_E_TX_COMPLETE
TxDone(r) ==
  CASE r.state = "TX_HDR" -> AwaitByte(r, "PROCEDURE")
    [] r.state = "TX_REMAINING" -> AwaitByte(r, "SW1")
    [] r.state = "TX_SINGLE" -> TxSingleDone(r)

-----------------------------------------------------------------------------
(* The card, as the standard has it. *)

\* How much it has still to take, or to send.
Left == (IF reader.cmd \/ reader.p3 > 0 THEN reader.p3 ELSE Full) - card.done

\* The bytes it may send in its state.
MaySend ==
  CASE card.state = "proc" ->
         {NULL, SW1}
           \cup (IF Left > 0 /\ (card.one => "mixed" \in Ways) THEN {INS} ELSE {})
           \cup (IF \/ Left > 1
                    \/ Left = 1 /\ (reader.cmd => "last_single" \in Ways)
                 THEN {INSX} ELSE {})
    [] card.state \in {"send", "send1"} -> {card.done + 1}
    [] card.state = "sw2" -> {SW2}
    [] OTHER -> {}

AfterByte(b) ==
  CASE b = NULL -> card
    [] b = SW1 -> [card EXCEPT !.state = "sw2", !.sent = Append(@, b)]
    [] b = SW2 -> [card EXCEPT !.state = "end", !.sent = Append(@, b)]
    [] b = INS -> [card EXCEPT !.state = IF reader.cmd THEN "take" ELSE "send"]
    [] b = INSX ->
         [card EXCEPT !.state = IF reader.cmd THEN "take1" ELSE "send1", !.one = TRUE]
    [] OTHER -> [card EXCEPT !.done = b, !.sent = Append(@, b),
                             !.state = IF card.state = "send" /\ Left > 1
                                       THEN "send" ELSE "proc"]

\* What the card makes of a transmission.
AfterTx(bytes) ==
  CASE bytes = <<Hdr>> -> [card EXCEPT !.state = "proc"]
    [] card.state \in {"take", "take1"} ->
         [card EXCEPT !.state = "proc", !.got = @ \o bytes, !.done = @ + Len(bytes)]
    [] OTHER -> card

-----------------------------------------------------------------------------

\* While it transmits the reader does not hear the line.
CardSends ==
  /\ reader.tx = <<>>
  /\ \E b \in MaySend :
        /\ card' = AfterByte(b)
        /\ reader' = Rx(reader, b)

ReaderSent ==
  /\ reader.tx # <<>>
  /\ card' = AfterTx(reader.tx)
  /\ reader' = [TxDone(reader) EXCEPT !.tx = <<>>]

\* The card says no more.
CardStops ==
  /\ card.state \in {"proc", "send", "send1", "sw2"}
  /\ card' = [card EXCEPT !.state = "mute"]
  /\ UNCHANGED reader

Busy == reader.state \notin {"INIT", "DONE", "RESET"}

\* Mutant: an expired wait time is started again.
WaitTimeExpires_Restarts ==
  /\ Busy /\ reader.tx = <<>>
  /\ reader' = [reader EXCEPT !.threshold = 1]
  /\ UNCHANGED card

\* Nothing came within the wait time: the exchange is reported failed and the
\* FSM reset; what the buffer holds stays there.
WaitTimeExpires ==
  /\ Busy /\ reader.tx = <<>>
  /\ reader' = [reader EXCEPT !.state = "RESET", !.threshold = 1]
  /\ UNCHANGED card

\* The main FSM goes to WAIT_TPDU and hands the TPDU to the slot.
Handed ==
  /\ reader.state = "DONE"
  /\ reader' = [reader EXCEPT !.state = "INIT"]
  /\ UNCHANGED card

\* Mutant: the buffer is not emptied.
Reactivated_KeepsRing(r) == [r EXCEPT !.state = "INIT"]

\* CUART_CTL_RST empties the receive buffer.
Reactivated(r) == [r EXCEPT !.state = "INIT", !.ring = <<>>]

\* The slot deactivates the card and the host powers it on again.
Reactivate ==
  /\ reader.state = "RESET"
  /\ reader' = Reactivated(reader)
  /\ card' = [card EXCEPT !.state = "mute"]

Next ==
  \/ \E cmd \in BOOLEAN, p3 \in 0..(Full - 1) : Start(cmd, p3)
  \/ CardSends \/ ReaderSent \/ CardStops \/ WaitTimeExpires
  \/ Handed \/ Reactivate

Spec == Init /\ [][Next]_vars

\* A transmission ends, the wait time ends a silence, the main loop runs, and
\* the card sends no endless sequence of NULL bytes.
FairSpec ==
  /\ Spec
  /\ WF_vars(ReaderSent) /\ WF_vars(WaitTimeExpires /\ MaySend = {})
  /\ WF_vars(Handed) /\ WF_vars(Reactivate)
  /\ SF_vars(CardSends /\ card' # card)

-----------------------------------------------------------------------------

\* The body reaches the card in order, whatever procedure bytes the card chooses:
\* iso7816_fsm.c:1367 "transmit all remaining bytes", 1392 "transmit *next*, not
\* first byte"; and whole, if its end is sent as TX_REMAINING, for a body of
\* single bytes does not reach SW1.
CardGetsBody ==
  /\ IsPrefix(card.got, Body(reader.p3))
  /\ reader.cmd /\ reader.state = "SW1" => card.got = Body(reader.p3)

\* The answer handed to the host is what the card sent in this exchange, byte
\* for byte and with its status: nothing lost, nothing left in the receive
\* buffer or in the message by an exchange that was cut off.
HostGetsAnswer ==
  reader.state = "DONE" => reader.buf = card.sent /\ card.state = "end"

\* A line of two half-duplex ends: whenever the reader transmits, the card is
\* listening for just that; while the card sends data the threshold is that at
\* which the reader is told of the last byte, and of procedure and status bytes
\* it is told one by one.  What it makes of them is StatusIsHeard.
TakesTurns ==
  /\ reader.tx # <<>> => card.state = CASE reader.state = "TX_HDR" -> "header"
                                        [] reader.state = "TX_REMAINING" -> "take"
                                        [] reader.state = "TX_SINGLE" -> "take1"
  /\ card.state = "send" /\ Busy =>
       reader.threshold = Len(reader.ring) + (IF Left = 0 THEN 1 ELSE Left)
  /\ card.state \in {"proc", "sw2"} /\ Busy => reader.threshold = 1

\* The card sends its status to a reader that waits for it: iso7816_fsm.c:1389
\* "transmit/recieve single byte then wait for proc", 1437 "UART is transmitting
\* single byte of data; we wait for ISO7816_E_TX_COMPL".
StatusIsHeard == card.state = "sw2" /\ Busy => reader.state = "SW2"

\* Every exchange ends, however the card asks for its bytes.
EveryTransferEnds == Busy ~> ~Busy

=============================================================================
