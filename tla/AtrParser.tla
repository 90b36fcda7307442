------------------------------ MODULE AtrParser ------------------------------
(***************************************************************************)
(* The answer to reset: the ATR FSM of ccid_common/iso7816_fsm.c against  *)
(* the grammar of ISO 7816-3 section 8.2, for one slot that resets one    *)
(* card after another, of either convention.                              *)
(*                                                                         *)
(* A byte is what the parser can make of it: the set y of interface bytes *)
(* it announces (1 to 4 for TA to TD) and the number n in its low half.   *)
(* The parser knows a byte's role only from its own state.                *)
(***************************************************************************)
EXTENDS Naturals, FiniteSetsExt, SequencesExt

CONSTANTS
  Cap,       \* the bytes the ATR buffer holds: 33 in the code
  Ys,        \* the sets of interface bytes TA, TB, TC a group may have
  Protocols, \* the protocols T a TD byte may announce
  MaxTD,     \* the number of TD bytes of a card at most
  MaxHist    \* the number of historical bytes of a card at most

ASSUME CapAssumption == Cap \in Nat \ {0}
ASSUME YAssumption == \A y \in Ys : y \subseteq 1..3
ASSUME ProtocolAssumption == Protocols \subseteq Nat
ASSUME BoundAssumption == MaxTD \in Nat /\ MaxHist \in Nat

VARIABLES
  reader,   \* struct atr_fsm_priv, the ATR FSM's state, convention_convert
  main,     \* what the main FSM and the slot make of it
  inverse,  \* the UART is switched to inverse signalling
  card      \* the card's ATR and how much of it was sent

vars == <<reader, main, inverse, card>>

-----------------------------------------------------------------------------
(* The card: the grammar of section 8.2. *)

Byte(role, y, n) == [role |-> role, y |-> y, n |-> n]

When(b, byte) == IF b THEN <<byte>> ELSE <<>>

\* A card with interface bytes y1 in its first group, and the further groups
\* more, each a protocol and the interface bytes that follow its TD.
Groups(y1, more) == <<[t |-> 0, y |-> y1]>> \o more

Announced(gs, i) == gs[i].y \cup (IF i < Len(gs) THEN {4} ELSE {})

Interface(gs, i) ==
  When(1 \in gs[i].y, Byte("TA", {}, 0)) \o When(2 \in gs[i].y, Byte("TB", {}, 0))
    \o When(3 \in gs[i].y, Byte("TC", {}, 0))
    \o When(i < Len(gs), Byte("TD", IF i < Len(gs) THEN Announced(gs, i + 1) ELSE {},
                                    IF i < Len(gs) THEN gs[i + 1].t ELSE 0))

\* TCK is absent exactly if no protocol but T=0 is announced.
Atr(gs, k) ==
  <<Byte("TS", {}, 0), Byte("T0", Announced(gs, 1), k)>>
    \o FlattenSeq([i \in 1..Len(gs) |-> Interface(gs, i)])
    \o [i \in 1..k |-> Byte("H", {}, 0)]
    \o When(\E i \in 1..Len(gs) : gs[i].t # 0, Byte("TCK", {}, 0))

Atrs == {Atr(Groups(y1, more), k) :
           y1 \in Ys, k \in 0..MaxHist,
           more \in UNION {[1..n -> [t : Protocols, y : Ys]] : n \in 0..MaxTD}}

Garbled == Byte("garbled", {}, 0)

NoCard == [atr |-> <<>>, sent |-> 0, inverse |-> FALSE]

-----------------------------------------------------------------------------

States == {"WAIT_TS", "WAIT_T0", "WAIT_TA", "WAIT_TB", "WAIT_TC", "WAIT_TD",
           "WAIT_HIST", "WAIT_TCK", "DONE"}

TypeOK ==
  /\ reader.state \in States
  /\ reader.hist \in 0..MaxHist
  /\ reader.y \subseteq 1..4
  /\ reader.protocols \subseteq Protocols
  /\ Len(reader.atr) <= Cap
  /\ reader.convert \in BOOLEAN
  /\ main \in {"reset", "atr", "done", "ready", "error", "removed"}
  /\ inverse \in BOOLEAN
  /\ card.sent \in 0..Len(card.atr)
  /\ card.inverse \in BOOLEAN

\* atr_wait_ts_onenter; whether bytes are converted is remembered.
Restarted(r) ==
  [r EXCEPT !.state = "WAIT_TS", !.hist = 0, !.y = {}, !.protocols = {}, !.atr = <<>>]

Init ==
  /\ reader = [state |-> "WAIT_TS", hist |-> 0, y |-> {}, protocols |-> {},
               atr |-> <<>>, convert |-> FALSE]
  /\ main = "reset"
  /\ inverse = FALSE
  /\ card = NoCard

-----------------------------------------------------------------------------
(* The ATR FSM: each operator gives the FSM after a byte, and whether         *)
(* ATR_DONE_IND was sent to the main FSM.                                      *)

Going(r) == [fsm |-> r, done |-> FALSE]

\* The UART decodes a byte in the other convention than the card's.
Swapped == inverse # card.inverse

\* Mutant: the bound is off by one.
AppendByte_OffByOne(atr, b) == IF Len(atr) <= Cap THEN Append(atr, b) ELSE atr

\* atr_append_byte: a byte that does not fit is dropped, SW_ERR_IND is masked.
AppendByte(atr, b) == IF Len(atr) < Cap THEN Append(atr, b) ELSE atr

\* Mutant: once switched on, the conversion is never switched off.
Convert_Sticky(r) == r.convert \/ Swapped

\* 0x3B and 0x3F are kept, 0x23 and 0x03 switch the conversion over.
Convert(r) == IF r.convert = Swapped THEN r.convert ELSE ~r.convert

Decoded(b, convert) == IF convert = Swapped THEN b ELSE Garbled

\* Mutant: the first byte is stored before the conversion is switched over.
RxTS_StoresRaw(r, b) ==
  Going([r EXCEPT !.convert = Convert(r), !.atr = AppendByte(@, Decoded(b, r.convert)),
                  !.state = "WAIT_T0"])

RxTS(r, b) ==
  Going([r EXCEPT !.convert = Convert(r), !.atr = AppendByte(@, Decoded(b, Convert(r))),
                  !.state = "WAIT_T0"])

\* Only WAIT_HIST and WAIT_TCK may change to DONE; the ATR is reported anyway.
Finished(r) ==
  [fsm |-> [r EXCEPT !.state = IF @ \in {"WAIT_HIST", "WAIT_TCK"} THEN "DONE" ELSE @],
   done |-> TRUE]

\* Mutant: T=15 alone is taken for T=0.
HasTck_Not15(r) == r.protocols \ {0, 15} # {}

\* protocol_support > 1
HasTck(r) == r.protocols \ {0} # {}

AfterHist(r) == IF HasTck(r) THEN Going([r EXCEPT !.state = "WAIT_TCK"]) ELSE Finished(r)

WaitState == <<"WAIT_TA", "WAIT_TB", "WAIT_TC", "WAIT_TD">>

\* The cases that fall through: the next announced interface byte after i,
\* else the historical bytes, else the end.
AfterInterface(r, i) ==
  LET next == {j \in r.y : j > i}
  IN  CASE next # {} -> Going([r EXCEPT !.state = WaitState[Min(next)]])
        [] next = {} /\ r.hist > 0 -> Going([r EXCEPT !.state = "WAIT_HIST"])
        [] OTHER -> AfterHist(r)

RxHist(r) ==
  LET left == [r EXCEPT !.hist = @ - 1]
  IN  IF left.hist = 0 THEN AfterHist(left) ELSE Going(left)

\* atr_wait_ts_action and atr_wait_tX_action for a byte raw of the UART
RxSingle(raw) ==
  LET b == Decoded(raw, reader.convert)
      r == [reader EXCEPT !.atr = AppendByte(@, b)]
  IN  CASE r.state = "WAIT_TS" -> RxTS(reader, raw)
        [] r.state = "WAIT_T0" -> AfterInterface([r EXCEPT !.hist = b.n, !.y = b.y], 0)
        [] r.state = "WAIT_TA" -> AfterInterface(r, 1)
        [] r.state = "WAIT_TB" -> AfterInterface(r, 2)
        [] r.state = "WAIT_TC" -> AfterInterface(r, 3)
        [] r.state = "WAIT_TD" ->
             AfterInterface([r EXCEPT !.protocols = @ \cup {b.n}, !.y = b.y], 0)
        [] r.state = "WAIT_HIST" -> RxHist(r)
        [] r.state = "WAIT_TCK" -> Finished(r)

-----------------------------------------------------------------------------

\* IccPowerOn asserts the reset line, with which the driver goes back to the
\* default rate and to direct signalling, and releases it: of this card or of
\* another one, cold or warm.
ReleaseReset ==
  /\ main = "reset"
  /\ main' = "atr"
  /\ inverse' = FALSE
  /\ \E atr \in Atrs, inv \in BOOLEAN :
        card' = [atr |-> atr, sent |-> 0, inverse |-> inv]
  /\ UNCHANGED reader

\* The card's next byte; outside of the ATR nobody heeds it.
CardSends ==
  /\ main # "reset"
  /\ card.sent < Len(card.atr)
  /\ card' = [card EXCEPT !.sent = @ + 1]
  /\ IF main = "atr"
     THEN LET rx == RxSingle(card.atr[card.sent + 1])
          IN  reader' = rx.fsm /\ main' = IF rx.done THEN "done" ELSE main
     ELSE UNCHANGED <<reader, main>>
  /\ UNCHANGED inverse

\* WTIME_EXP: in WAIT_HIST and WAIT_TCK the ATR is taken for complete, else
\* ATR_ERR_IND resets the FSMs.
WaitTimeExpires ==
  /\ main = "atr"
  /\ IF reader.state \in {"WAIT_HIST", "WAIT_TCK"}
     THEN reader' = Finished(reader).fsm /\ main' = "done"
     ELSE reader' = Restarted(reader) /\ main' = "error"
  /\ UNCHANGED <<inverse, card>>

\* The main loop answers ATR_DONE_IND; a first byte 0x3F switches the UART to
\* inverse signalling, any other to direct.
AnswerDone ==
  /\ main = "done"
  /\ main' = "ready"
  /\ inverse' = (Head(reader.atr).role = "TS" /\ card.inverse)
  /\ UNCHANGED <<reader, card>>

\* The reset line is asserted: by the deactivation after ATR_ERR_IND,
\* IccPowerOff, a removal, or the next IccPowerOn. The state RESET restarts
\* the ATR FSM.
AssertReset ==
  /\ main \in {"atr", "ready", "error"}
  /\ main' = "reset"
  /\ reader' = Restarted(reader)
  /\ inverse' = FALSE
  /\ card' = NoCard

\* The card is removed before ATR_DONE_IND is answered, which empties the ATR.
RemoveCard ==
  /\ main = "done"
  /\ main' = "removed"
  /\ reader' = Restarted(reader)
  /\ inverse' = FALSE
  /\ card' = [card EXCEPT !.sent = Len(card.atr)]

\* It is answered all the same. The first byte is read from the memory of the
\* emptied buffer.
AnswerRemoved ==
  /\ main = "removed"
  /\ main' = "reset"
  /\ inverse' = card.inverse
  /\ card' = NoCard
  /\ UNCHANGED reader

Next ==
  \/ ReleaseReset \/ CardSends \/ WaitTimeExpires \/ AnswerDone
  \/ AssertReset \/ RemoveCard \/ AnswerRemoved

Spec == Init /\ [][Next]_vars

-----------------------------------------------------------------------------

\* What is stored is what the card sent, in the card's convention, whatever
\* convention the card before it had.
AtrFaithful ==
  main \in {"atr", "done"} =>
    IsPrefix(reader.atr, SubSeq(card.atr, 1, card.sent))

\* The parser and the grammar agree where the ATR ends: it is reported with the
\* card's last byte and no byte earlier, unless the card falls silent before.
EndsWithCard ==
  /\ [](main = "atr" => card.sent < Len(card.atr))
  /\ [][main = "atr" /\ main' = "done" /\ card' # card =>
          card'.sent = Len(card'.atr)]_vars

\* Once the ATR is answered the UART uses the card's convention.
ConventionFollowed == main = "ready" => inverse = card.inverse

=============================================================================
