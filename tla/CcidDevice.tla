----------------------------- MODULE CcidDevice -----------------------------
(***************************************************************************)
(* The message layer of the whole reader, ccid_common/ccid_device.c: every *)
(* message type on every slot, among messages for slots that do not exist, *)
(* of unknown type, or too short to have a header.  The FSM under a slot   *)
(* is what CcidSlot shows it to be: an exchange that is started reports    *)
(* once.  The main loop (sysmoOCTSIM/main.c) detects cards, handles the    *)
(* event of one slot after the other, and takes one message.               *)
(*                                                                         *)
(* The content of a message is looked at only when it is handled, so it is *)
(* chosen there; a queued message is its target and its bSeq.              *)
(***************************************************************************)
EXTENDS Naturals, FiniteSets, Sequences

CONSTANTS
  NrSlots,  \* slots 0..NrSlots - 1
  Seqs,     \* the bSeq values the host uses
  NoSeq,    \* ss->seq before the first command
  MaxOpen,  \* how many messages and answers are under way at most
  MaxLost,  \* how many XfrBlocks the slots reject at most
  HeedsUnknown \* the host takes bmICCStatus from the answer to an unknown type

ASSUME NrAssumption == NrSlots \in Nat \ {0}
ASSUME SeqAssumption == NoSeq \notin Seqs
ASSUME BoundAssumption == MaxOpen \in Nat \ {0} /\ MaxLost \in Nat
ASSUME HeedsAssumption == HeedsUnknown \in BOOLEAN

Slots == 0..NrSlots - 1
NoSlot == NrSlots \* a bSlot no slot has

Runt == [slot |-> NoSlot, seq |-> NoSeq, runt |-> TRUE]
Messages == [slot : Slots \cup {NoSlot}, seq : Seqs, runt : {FALSE}] \cup {Runt}
NoCmd == [slot |-> NoSlot, seq |-> NoSeq, runt |-> FALSE]
Answers == [slot : Slots \cup {NoSlot}, seq : Seqs \cup {NoSeq}, ok : BOOLEAN]

\* The message types whose handler changes nothing here, each with its outcome.
Outcomes ==
  ({"GetSlotStatus", "GetParameters", "SetDataRateAndClockFrequency"} \X {TRUE})
    \cup ({"IccClock"} \X BOOLEAN)
    \cup ({"Escape", "T0APDU", "Secure", "Mechanical", "Abort"} \X {FALSE})

CcidSlots == [present : BOOLEAN, powered : BOOLEAN, busy : BOOLEAN,
              seq : Seqs \cup {NoSeq}, event : {"none", "done", "failed"}]
IccStatuses == {"NO_ICC", "PRES_INACT", "PRES_ACT"}

VARIABLES
  slot,   \* struct ccid_slot of each slot; seq is ss->seq
  exch,   \* the exchange in progress beneath each slot
  outq,   \* messages received and not yet handled
  inq,    \* answers the host has not yet collected
  pc,     \* where the main loop is: detect, events or feed
  turn,   \* the slot whose events are next
  heap,   \* how many message buffers besides the pool's are allocated
  cur,    \* history: the accepted command of each slot not yet answered
  told,   \* history: the last bmICCStatus the host took of each slot, or
          \* "unsure" since the card detection notified a change
  lost    \* history: the XfrBlocks rejected

vars == <<slot, exch, outq, inq, pc, turn, heap, cur, told, lost>>

TypeOK ==
  /\ slot \in [Slots -> CcidSlots]
  /\ exch \in [Slots -> {"none", "running"}]
  /\ outq \in Seq(Messages)
  /\ inq \in Seq(Answers)
  /\ pc \in {"detect", "events", "feed"}
  /\ turn \in Slots
  /\ heap \in Nat
  /\ cur \in [Slots -> Messages \cup {NoCmd}]
  /\ told \in [Slots -> IccStatuses \cup {"unsure"}]
  /\ lost \in 0..MaxLost

Init ==
  /\ slot = [s \in Slots |-> [present |-> FALSE, powered |-> FALSE, busy |-> FALSE,
                              seq |-> NoSeq, event |-> "none"]]
  /\ exch = [s \in Slots |-> "none"]
  /\ outq = <<>>
  /\ inq = <<>>
  /\ pc = "detect"
  /\ turn = 0
  /\ heap = 0
  /\ cur = [s \in Slots |-> NoCmd]
  /\ told = [s \in Slots |-> "unsure"]
  /\ lost = 0

-----------------------------------------------------------------------------
(* The host, and the FSMs beneath the slots. *)

Keys(q) == {<<q[i].slot, q[i].seq>> : i \in DOMAIN q}
Outstanding == Keys(outq) \cup Keys(inq) \cup {<<s, cur[s].seq>> : s \in Slots}

\* bSeq tells the messages of a slot apart. The transfer fills a buffer of
\* the pool, which the main loop replaces.
Submit(m) ==
  /\ Len(outq) + Len(inq) + Cardinality({s \in Slots : cur[s] # NoCmd}) < MaxOpen
  /\ <<m.slot, m.seq>> \notin Outstanding
  /\ outq' = Append(outq, m)
  /\ heap' = heap + 1
  /\ UNCHANGED <<slot, exch, inq, pc, turn, cur, told, lost>>

\* The buffer of a transferred answer goes to the pool, which is trimmed.
Collect ==
  /\ inq # <<>>
  /\ inq' = Tail(inq)
  /\ heap' = heap - 1
  /\ UNCHANGED <<slot, exch, outq, pc, turn, cur, told, lost>>

\* An interrupt ends the exchange of slot s: the user callback.
Report(s) ==
  /\ exch[s] = "running"
  /\ exch' = [exch EXCEPT ![s] = "none"]
  /\ \E event \in {"done", "failed"} : slot' = [slot EXCEPT ![s].event = event]
  /\ UNCHANGED <<outq, inq, pc, turn, heap, cur, told, lost>>

-----------------------------------------------------------------------------
(* Answers. *)

\* get_icc_status; nothing ever sets icc_in_reset
IccStatus(sl) ==
  IF ~sl.present THEN "NO_ICC" ELSE IF sl.powered THEN "PRES_ACT" ELSE "PRES_INACT"

Answer(s, sq, ok) == [slot |-> s, seq |-> sq, ok |-> ok]

\* Send an answer of slot s with bmICCStatus status, and leave s as sl.
Send(s, sl, answer, status) ==
  /\ slot' = [slot EXCEPT ![s] = sl]
  /\ inq' = Append(inq, answer)
  /\ told' = [told EXCEPT ![s] = status]

-----------------------------------------------------------------------------
(* poll_card_detect: the slots' levels are read one after the other. *)

\* iso_fsm_slot_icc_set_insertion_status
Detected(sl, level) ==
  IF sl.present /\ ~level
  THEN [sl EXCEPT !.present = FALSE, !.powered = FALSE, !.busy = FALSE]
  ELSE [sl EXCEPT !.present = level]

\* A removal ends the exchange in progress with a failure.
CardDetect ==
  /\ pc = "detect"
  /\ \E level \in [Slots -> BOOLEAN] :
       LET cut == {s \in Slots : slot[s].present /\ ~level[s] /\ exch[s] = "running"}
       IN  /\ slot' = [s \in Slots |->
                         [Detected(slot[s], level[s]) EXCEPT
                            !.event = IF s \in cut THEN "failed" ELSE @]]
           /\ exch' = [s \in Slots |-> IF s \in cut THEN "none" ELSE exch[s]]
           /\ told' = [s \in Slots |->
                         IF slot[s].present # level[s] THEN "unsure" ELSE told[s]]
  /\ pc' = "events"
  /\ turn' = 0
  /\ UNCHANGED <<outq, inq, heap, cur, lost>>

-----------------------------------------------------------------------------
(* iso_handle_fsm_events of the slot whose turn it is. *)

\* Mutant: the loop goes one slot too far.
NextTurn_OffByOne ==
  IF turn \in Slots THEN turn' = turn + 1 /\ pc' = pc ELSE turn' = 0 /\ pc' = "feed"

\* Mutant: the loop ends with the first slot.
NextTurn_FirstSlot == turn' = 0 /\ pc' = "feed"

NextTurn ==
  IF turn + 1 \in Slots THEN turn' = turn + 1 /\ pc' = pc ELSE turn' = 0 /\ pc' = "feed"

NoEvent ==
  /\ pc = "events"
  /\ slot[turn].event = "none"
  /\ NextTurn
  /\ UNCHANGED <<slot, exch, outq, inq, heap, cur, told, lost>>

\* Every failure deactivates the card; then the answer is made.
AnswerEvent ==
  /\ pc = "events"
  /\ slot[turn].event # "none"
  /\ LET ok == slot[turn].event = "done"
         sl == [slot[turn] EXCEPT !.event = "none", !.busy = FALSE, !.powered = @ /\ ok]
     IN  Send(turn, sl, Answer(turn, sl.seq, ok), IccStatus(sl))
  /\ heap' = heap + 1
  /\ cur' = [cur EXCEPT ![turn] = NoCmd]
  /\ NextTurn
  /\ UNCHANGED <<exch, outq, lost>>

-----------------------------------------------------------------------------
(* feed_ccid: ccid_handle_out of the oldest message. *)

FeedNothing ==
  /\ pc = "feed" /\ outq = <<>>
  /\ pc' = "detect"
  /\ UNCHANGED <<slot, exch, outq, inq, turn, heap, cur, told, lost>>

Msg == Head(outq)

Feed ==
  /\ pc = "feed" /\ outq # <<>>
  /\ outq' = Tail(outq)
  /\ pc' = "detect"
  /\ UNCHANGED turn

\* Shorter than a header: freed without an answer.
HandleRunt ==
  /\ Feed
  /\ Msg.runt
  /\ heap' = heap - 1
  /\ UNCHANGED <<slot, exch, inq, cur, told, lost>>

HandleBadSlot ==
  /\ Feed
  /\ ~Msg.runt /\ Msg.slot = NoSlot
  /\ inq' = Append(inq, Answer(Msg.slot, Msg.seq, FALSE))
  /\ UNCHANGED <<slot, exch, heap, cur, told, lost>>

\* The commands that get past the two general rejections.
Accepts(s) == ~slot[s].busy /\ slot[s].present

\* The message is answered at once, and its buffer freed.
AnswerNow(s, sl, ok) ==
  /\ Send(s, sl, Answer(s, Msg.seq, ok), IccStatus(sl))
  /\ UNCHANGED <<exch, heap, cur, lost>>

\* Mutant: the refusal is sent with ccid_slot_send_unbusy.
RejectCmd_Unbusy(s) ==
  ~Accepts(s) /\ AnswerNow(s, [slot[s] EXCEPT !.busy = FALSE], FALSE)

\* CMD_SLOT_BUSY or ICC_MUTE, whatever the message is.
RejectCmd(s) == ~Accepts(s) /\ AnswerNow(s, slot[s], FALSE)

\* Not of a length its type has.
HandleShort(s) == Accepts(s) /\ AnswerNow(s, slot[s], FALSE)

\* GetSlotStatus, GetParameters, SetDataRateAndClockFrequency and IccClock are
\* answered, the rest is not supported; whether IccClock stops or restarts the
\* clock is not recorded.
HandleUnaltering(s) ==
  /\ Accepts(s)
  /\ \E outcome \in Outcomes : AnswerNow(s, slot[s], outcome[2])

\* The answer says that there is no ICC, whatever is in the slot.
HandleUnknown(s) ==
  /\ Accepts(s)
  /\ inq' = Append(inq, Answer(s, Msg.seq, FALSE))
  /\ told' = IF HeedsUnknown THEN [told EXCEPT ![s] = "NO_ICC"] ELSE told
  /\ UNCHANGED <<slot, exch, heap, cur, lost>>

\* ResetParameters, SetParameters: ss->seq is set once the checks are passed.
HandleParameters(s) ==
  /\ Accepts(s)
  /\ \E ok \in BOOLEAN :
        AnswerNow(s, IF ok THEN [slot[s] EXCEPT !.seq = Msg.seq] ELSE slot[s], ok)

\* Mutant: the answer is made before the power is switched off.
HandleIccPowerOff_AnswersFirst(s) ==
  /\ Accepts(s)
  /\ Send(s, [slot[s] EXCEPT !.powered = FALSE], Answer(s, Msg.seq, TRUE), IccStatus(slot[s]))
  /\ UNCHANGED <<exch, heap, cur, lost>>

HandleIccPowerOff(s) ==
  /\ Accepts(s)
  /\ AnswerNow(s, [slot[s] EXCEPT !.powered = FALSE], TRUE)

\* Mutant: the slot takes the message and keeps its buffer.
Start_KeepsBuffer(s, sl) ==
  /\ slot' = [slot EXCEPT ![s] = sl]
  /\ exch' = [exch EXCEPT ![s] = "running"]
  /\ cur' = [cur EXCEPT ![s] = Msg]
  /\ UNCHANGED <<heap, inq, told, lost>>

\* The FSM copies what it needs and the message is freed.
Start(s, sl) ==
  /\ slot' = [slot EXCEPT ![s] = sl]
  /\ exch' = [exch EXCEPT ![s] = "running"]
  /\ cur' = [cur EXCEPT ![s] = Msg]
  /\ heap' = heap - 1
  /\ UNCHANGED <<inq, told, lost>>

HandleIccPowerOn(s) ==
  /\ Accepts(s)
  /\ Start(s, [slot[s] EXCEPT !.busy = TRUE, !.powered = TRUE, !.seq = Msg.seq])

HandleXfrBlock(s) ==
  /\ Accepts(s)
  /\ slot[s].powered
  /\ Start(s, [slot[s] EXCEPT !.busy = TRUE, !.seq = Msg.seq])

\* Rejected for its length, its wLevelParameter or because the card is not
\* powered: ownership of the message is taken, the message is not freed.
RejectXfrBlock(s) ==
  /\ Accepts(s)
  /\ lost < MaxLost
  /\ \E sq \in {slot[s].seq, Msg.seq} :
        Send(s, [slot[s] EXCEPT !.seq = sq], Answer(s, Msg.seq, FALSE), IccStatus(slot[s]))
  /\ heap' = heap + 1
  /\ lost' = lost + 1
  /\ UNCHANGED <<exch, cur>>

HandleForSlot(s) ==
  \/ RejectCmd(s) \/ HandleShort(s) \/ HandleUnaltering(s) \/ HandleUnknown(s)
  \/ HandleParameters(s) \/ HandleIccPowerOff(s) \/ HandleIccPowerOn(s)
  \/ HandleXfrBlock(s) \/ RejectXfrBlock(s)

HandleOut == Feed /\ ~Msg.runt /\ Msg.slot \in Slots /\ HandleForSlot(Msg.slot)

-----------------------------------------------------------------------------

MainLoop ==
  \/ CardDetect \/ NoEvent \/ AnswerEvent
  \/ FeedNothing \/ HandleRunt \/ HandleBadSlot \/ HandleOut

Next ==
  \/ MainLoop
  \/ Collect
  \/ \E m \in Messages : Submit(m)
  \/ \E s \in Slots : Report(s)

Spec == Init /\ [][Next]_vars

\* The main loop runs for ever, and an exchange ends.
FairSpec == Spec /\ WF_vars(MainLoop) /\ \A s \in Slots : WF_vars(Report(s))

-----------------------------------------------------------------------------
(* Properties. *)

\* The elements of q that are of slot s, in their order.
OfSlot(q, s) ==
  LET upTo[i \in 0..Len(q)] ==
        IF i = 0 THEN <<>>
        ELSE IF q[i].slot = s THEN Append(upTo[i - 1], q[i]) ELSE upTo[i - 1]
  IN  upTo[Len(q)]

\* What is under way for slot s, seen as CcidExchange sees it.
Exchange(s) == INSTANCE CcidExchange
  WITH outq <- OfSlot(outq, s),
       inq <- [i \in 1..Len(OfSlot(inq, s)) |->
                 [seq |-> OfSlot(inq, s)[i].seq, ok |-> OfSlot(inq, s)[i].ok]],
       cur <- cur[s],
       Commands <- {m \in Messages : m.slot = s},
       NoCmd <- NoCmd

\* Each slot keeps the promise of CcidExchange, although the slots share both
\* queues and the main loop, and whatever the other slots are sent:
\* \A s \in Slots : Exchange(s)!Spec, in a form TLC can check.
SlotsImplementExchange ==
  /\ \A s \in Slots : Exchange(s)!Init
  /\ [][\A s \in Slots : Exchange(s)!Next \/ UNCHANGED Exchange(s)!exchangeVars]_vars

\* The host knows of a slot what the last answer and the card detection told
\* it.  Unless a command is in progress that is how the slot is: no handler
\* powers a card up or down after its answer was made, or without one.
StatusCurrent ==
  \A s \in Slots : ~slot[s].busy => told[s] \in {IccStatus(slot[s]), "unsure"}

\* ccid_device.c:709: the handler frees the message eventually.  Apart from
\* the rejected XfrBlocks, whose buffers are lost, every buffer allocated is
\* in a queue: none is kept and none is freed twice.
HeapAccounted == heap = Len(outq) + Len(inq) + lost

\* Every message with a header is answered, for whatever slot it is.
Waiting(s, sq) ==
  \/ \E i \in DOMAIN outq : outq[i].slot = s /\ outq[i].seq = sq /\ ~outq[i].runt
  \/ s \in Slots /\ cur[s].seq = sq
EveryMessageAnswered ==
  \A s \in Slots \cup {NoSlot}, sq \in Seqs : Waiting(s, sq) ~> <<s, sq>> \in Keys(inq)

=============================================================================
