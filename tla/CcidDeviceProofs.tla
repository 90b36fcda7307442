-------------------------- MODULE CcidDeviceProofs --------------------------
(***************************************************************************)
(* Theorems about CcidDevice, for every number of slots, every set of bSeq *)
(* values and every bound.                                                 *)
(***************************************************************************)
EXTENDS CcidDevice, DataInduction, TLAPS

\* The buffer count stays a natural number only because it is the number of
\* messages queued and lost, so the two are proved together.
IInv == TypeOK /\ HeapAccounted

-----------------------------------------------------------------------------

\* The next slot's turn, or the end of the round.
LEMMA Turns ==
  ASSUME turn \in Slots, NextTurn
  PROVE  turn' \in Slots /\ pc' \in {"events", pc, "feed"}
BY NrAssumption DEF NextTurn, Slots

\* Taking the oldest message leaves a queue of messages, shorter by one.
LEMMA Fed ==
  ASSUME TypeOK, Feed
  PROVE  /\ Msg \in Messages
         /\ outq' \in Seq(Messages)
         /\ Len(outq') = Len(outq) - 1
         /\ Len(outq) \in Nat \ {0}
         /\ pc' = "detect" /\ turn' = turn
BY DEF TypeOK, Feed, Msg

\* An element is queued.
LEMMA Queued ==
  ASSUME NEW S, NEW q \in Seq(S), NEW e \in S
  PROVE  Append(q, e) \in Seq(S) /\ Len(Append(q, e)) = Len(q) + 1
OBVIOUS

\* The quantities HeapAccounted adds up.
LEMMA Counts ==
  ASSUME TypeOK
  PROVE  Len(outq) \in Nat /\ Len(inq) \in Nat /\ lost \in Nat /\ heap \in Nat
BY BoundAssumption DEF TypeOK

\* The messages for a slot carry a bSeq of the host.
LEMMA ForSlot ==
  ASSUME TypeOK, Feed, Msg.slot \in Slots
  PROVE  Msg.seq \in Seqs /\ ~Msg.runt
<1>1. Msg \in Messages
  BY Fed
<1>2. Msg # Runt
  <2>1. Runt.slot \notin Slots
    BY NrAssumption DEF Runt, NoSlot, Slots
  <2> QED
    BY <2>1
<1>3. Msg \in [slot : Slots \cup {NoSlot}, seq : Seqs, runt : {FALSE}]
  BY <1>1, <1>2 DEF Messages
<1> QED
  BY <1>3

\* An answer of a slot, whoever gives it.
LEMMA Sent ==
  ASSUME TypeOK, NEW s \in Slots, NEW sl \in CcidSlots,
         NEW sq \in Seqs \cup {NoSeq}, NEW ok \in BOOLEAN, NEW status \in IccStatuses,
         Send(s, sl, Answer(s, sq, ok), status)
  PROVE  /\ slot' \in [Slots -> CcidSlots]
         /\ inq' \in Seq(Answers)
         /\ Len(inq') = Len(inq) + 1
         /\ told' \in [Slots -> IccStatuses \cup {"unsure"}]
<1>1. Answer(s, sq, ok) \in Answers
  BY DEF Answer, Answers
<1> QED
  BY <1>1 DEF Send, TypeOK

\* The status of a slot is one of the three.
LEMMA Status ==
  ASSUME NEW sl
  PROVE  IccStatus(sl) \in IccStatuses
BY DEF IccStatus, IccStatuses

\* Every handler that answers at once.
LEMMA AnsweredNow ==
  ASSUME IInv, Feed, NEW s \in Slots, s = Msg.slot, NEW sl \in CcidSlots,
         NEW ok \in BOOLEAN, AnswerNow(s, sl, ok)
  PROVE  IInv'
<1> USE DEF IInv
<1>1. Msg.seq \in Seqs
  BY ForSlot
<1>2. /\ slot' \in [Slots -> CcidSlots]
      /\ inq' \in Seq(Answers)
      /\ Len(inq') = Len(inq) + 1
      /\ told' \in [Slots -> IccStatuses \cup {"unsure"}]
  BY <1>1, Sent, Status DEF AnswerNow
<1>3. TypeOK'
  BY <1>2, Fed DEF TypeOK, AnswerNow
<1>4. HeapAccounted'
  BY <1>2, Fed, Counts DEF HeapAccounted, AnswerNow
<1> QED
  BY <1>3, <1>4

\* Every handler that starts an exchange.
LEMMA Started ==
  ASSUME IInv, Feed, NEW s \in Slots, s = Msg.slot, NEW sl \in CcidSlots, Start(s, sl)
  PROVE  IInv'
<1> USE DEF IInv
<1>1. heap' \in Nat
  BY Fed, Counts DEF Start, HeapAccounted
<1>2. TypeOK'
  BY <1>1, Fed DEF TypeOK, Start
<1>3. HeapAccounted'
  <2>1. heap' = heap - 1 /\ inq' = inq /\ lost' = lost /\ Len(outq') = Len(outq) - 1
    BY Fed DEF Start
  <2> QED
    BY <2>1, Counts DEF HeapAccounted
<1> QED
  BY <1>2, <1>3

\* ccid_handle_out of a message for an existing slot.
LEMMA HandleOutStep ==
  ASSUME IInv, HandleOut
  PROVE  IInv'
<1> USE DEF IInv
<1> DEFINE s == Msg.slot
<1>0. Feed /\ s \in Slots /\ slot[s] \in CcidSlots /\ Msg.seq \in Seqs
  BY ForSlot DEF HandleOut, TypeOK
<1>1. CASE RejectCmd(s) \/ HandleShort(s)
  BY <1>0, <1>1, AnsweredNow DEF RejectCmd, HandleShort
<1>2. CASE HandleUnaltering(s)
  <2>1. PICK outcome \in Outcomes : AnswerNow(s, slot[s], outcome[2])
    BY <1>2 DEF HandleUnaltering
  <2>2. outcome[2] \in BOOLEAN
    BY DEF Outcomes
  <2> QED
    BY <1>0, <2>1, <2>2, AnsweredNow
<1>3. CASE HandleUnknown(s)
  <2>1. Answer(s, Msg.seq, FALSE) \in Answers
    BY <1>0 DEF Answer, Answers
  <2>2. inq' \in Seq(Answers) /\ Len(inq') = Len(inq) + 1
    <3>1. inq \in Seq(Answers) /\ inq' = Append(inq, Answer(s, Msg.seq, FALSE))
      BY <1>3 DEF HandleUnknown, TypeOK
    <3> QED
      BY <2>1, <3>1, Queued
  <2>3. told' \in [Slots -> IccStatuses \cup {"unsure"}]
    BY <1>3 DEF HandleUnknown, TypeOK, IccStatuses
  <2>4. TypeOK'
    BY <1>0, <1>3, <2>2, <2>3, Fed DEF HandleUnknown, TypeOK
  <2>5. HeapAccounted'
    <3>1. heap' = heap /\ lost' = lost /\ Len(outq') = Len(outq) - 1
      BY <1>0, <1>3, Fed DEF HandleUnknown
    <3> QED
      BY <2>2, <3>1, Counts DEF HeapAccounted
  <2> QED
    BY <2>4, <2>5
<1>4. CASE HandleParameters(s)
  <2>1. PICK ok \in BOOLEAN :
          AnswerNow(s, IF ok THEN [slot[s] EXCEPT !.seq = Msg.seq] ELSE slot[s], ok)
    BY <1>4 DEF HandleParameters
  <2>2. [slot[s] EXCEPT !.seq = Msg.seq] \in CcidSlots
    BY <1>0 DEF CcidSlots
  <2> QED
    BY <1>0, <2>1, <2>2, AnsweredNow
<1>5. CASE HandleIccPowerOff(s)
  <2>1. [slot[s] EXCEPT !.powered = FALSE] \in CcidSlots
    BY <1>0 DEF CcidSlots
  <2> QED
    BY <1>0, <1>5, <2>1, AnsweredNow DEF HandleIccPowerOff
<1>6. CASE HandleIccPowerOn(s) \/ HandleXfrBlock(s)
  <2>1. /\ [slot[s] EXCEPT !.busy = TRUE, !.powered = TRUE, !.seq = Msg.seq] \in CcidSlots
        /\ [slot[s] EXCEPT !.busy = TRUE, !.seq = Msg.seq] \in CcidSlots
    BY <1>0 DEF CcidSlots
  <2> QED
    BY <1>0, <1>6, <2>1, Started DEF HandleIccPowerOn, HandleXfrBlock
<1>7. CASE RejectXfrBlock(s)
  <2>1. PICK sq \in {slot[s].seq, Msg.seq} :
          Send(s, [slot[s] EXCEPT !.seq = sq], Answer(s, Msg.seq, FALSE), IccStatus(slot[s]))
    BY <1>7 DEF RejectXfrBlock
  <2>2. [slot[s] EXCEPT !.seq = sq] \in CcidSlots
    BY <1>0 DEF CcidSlots
  <2>3. /\ slot' \in [Slots -> CcidSlots]
        /\ inq' \in Seq(Answers)
        /\ Len(inq') = Len(inq) + 1
        /\ told' \in [Slots -> IccStatuses \cup {"unsure"}]
    BY <1>0, <2>1, <2>2, Sent, Status
  <2>4. TypeOK'
    BY <1>0, <1>7, <2>3, BoundAssumption, Fed DEF RejectXfrBlock, TypeOK
  <2>5. HeapAccounted'
    <3>1. heap' = heap + 1 /\ lost' = lost + 1 /\ Len(outq') = Len(outq) - 1
      BY <1>0, <1>7, Fed DEF RejectXfrBlock
    <3> QED
      BY <2>3, <3>1, Counts DEF HeapAccounted
  <2> QED
    BY <2>4, <2>5
<1> QED
  BY <1>1, <1>2, <1>3, <1>4, <1>5, <1>6, <1>7 DEF HandleOut, HandleForSlot

-----------------------------------------------------------------------------

\* The other steps of the main loop.
LEMMA AnswerEventStep ==
  ASSUME IInv, AnswerEvent
  PROVE  IInv'
<1> USE DEF IInv
<1> DEFINE ok == slot[turn].event = "done"
           sl == [slot[turn] EXCEPT !.event = "none", !.busy = FALSE, !.powered = @ /\ ok]
<1>1. turn \in Slots /\ slot[turn] \in CcidSlots /\ ok \in BOOLEAN
  BY DEF TypeOK
<1>2. sl \in CcidSlots
  BY <1>1 DEF CcidSlots
<1>3. sl.seq \in Seqs \cup {NoSeq}
  BY <1>2 DEF CcidSlots
<1>4. Send(turn, sl, Answer(turn, sl.seq, ok), IccStatus(sl))
  BY DEF AnswerEvent
<1>5. /\ heap' = heap + 1 /\ exch' = exch /\ outq' = outq /\ lost' = lost
      /\ cur' = [cur EXCEPT ![turn] = NoCmd]
      /\ NextTurn /\ pc = "events"
  BY DEF AnswerEvent
<1> HIDE DEF sl, ok
<1>6. /\ slot' \in [Slots -> CcidSlots]
      /\ inq' \in Seq(Answers)
      /\ Len(inq') = Len(inq) + 1
      /\ told' \in [Slots -> IccStatuses \cup {"unsure"}]
  BY <1>1, <1>2, <1>3, <1>4, Sent, Status
<1>7. turn' \in Slots /\ pc' \in {"detect", "events", "feed"}
  BY <1>1, <1>5, Turns
<1>8. TypeOK'
  <2>1. cur' \in [Slots -> Messages \cup {NoCmd}]
    BY <1>5 DEF TypeOK
  <2>2. heap' \in Nat
    BY <1>5, Counts
  <2>3. /\ exch' \in [Slots -> {"none", "running"}]
        /\ outq' \in Seq(Messages)
        /\ lost' \in 0..MaxLost
    BY <1>5 DEF TypeOK
  <2> QED
    BY <1>6, <1>7, <2>1, <2>2, <2>3 DEF TypeOK
<1>9. HeapAccounted'
  BY <1>5, <1>6, Counts DEF HeapAccounted
<1> QED
  BY <1>8, <1>9

\* The notification of a change, with all slots that changed.
LEMMA CardDetectStep ==
  ASSUME IInv, CardDetect
  PROVE  IInv'
<1> USE DEF IInv
<1>1. PICK level \in [Slots -> BOOLEAN] :
        LET cut == {s \in Slots : slot[s].present /\ ~level[s] /\ exch[s] = "running"}
        IN  /\ slot' = [s \in Slots |->
                          [Detected(slot[s], level[s]) EXCEPT
                             !.event = IF s \in cut THEN "failed" ELSE @]]
            /\ exch' = [s \in Slots |-> IF s \in cut THEN "none" ELSE exch[s]]
            /\ told' = [s \in Slots |->
                          IF slot[s].present # level[s] THEN "unsure" ELSE told[s]]
  BY DEF CardDetect
<1>2. ASSUME NEW s \in Slots, NEW cut
      PROVE  [Detected(slot[s], level[s]) EXCEPT
                !.event = IF s \in cut THEN "failed" ELSE @] \in CcidSlots
  <2>1. slot[s] \in CcidSlots /\ level[s] \in BOOLEAN
    BY DEF TypeOK
  <2>2. Detected(slot[s], level[s]) \in CcidSlots
    BY <2>1 DEF Detected, CcidSlots
  <2> QED
    BY <2>2 DEF CcidSlots
<1>3. slot' \in [Slots -> CcidSlots]
  BY <1>1, <1>2
<1>4. exch' \in [Slots -> {"none", "running"}]
  BY <1>1 DEF TypeOK
<1>5. told' \in [Slots -> IccStatuses \cup {"unsure"}]
  BY <1>1 DEF TypeOK
<1>6. turn' \in Slots
  BY NrAssumption DEF CardDetect, Slots
<1>7. TypeOK'
  BY <1>3, <1>4, <1>5, <1>6 DEF CardDetect, TypeOK
<1>8. HeapAccounted'
  BY DEF CardDetect, HeapAccounted
<1> QED
  BY <1>7, <1>8

\* Every step of the main loop keeps the invariant.
LEMMA MainLoopStep ==
  ASSUME IInv, MainLoop
  PROVE  IInv'
<1> USE DEF IInv
<1>1. CASE NoEvent
  <2>1. turn' \in Slots /\ pc' \in {"detect", "events", "feed"}
    BY <1>1, Turns DEF NoEvent, TypeOK
  <2> QED
    BY <1>1, <2>1 DEF NoEvent, TypeOK, HeapAccounted
<1>2. CASE FeedNothing
  BY <1>2 DEF FeedNothing, TypeOK, HeapAccounted
<1>3. CASE HandleRunt
  <2>1. heap' = heap - 1 /\ inq' = inq /\ lost' = lost /\ Len(outq') = Len(outq) - 1
    BY <1>3, Fed DEF HandleRunt
  <2>2. HeapAccounted' /\ heap' \in Nat
    BY <1>3, <2>1, Fed, Counts DEF HeapAccounted, HandleRunt
  <2>3. TypeOK'
    BY <1>3, <2>2, Fed DEF HandleRunt, TypeOK
  <2> QED
    BY <2>2, <2>3
<1>4. CASE HandleBadSlot
  <2>1. Feed /\ Msg.slot = NoSlot /\ ~Msg.runt
    BY <1>4 DEF HandleBadSlot
  <2>2. Answer(Msg.slot, Msg.seq, FALSE) \in Answers
    <3>1. Msg \in Messages
      BY <2>1, Fed
    <3>2. Msg.seq \in Seqs \cup {NoSeq}
      <4>1. CASE Msg = Runt
        BY <4>1 DEF Runt
      <4>2. CASE Msg \in [slot : Slots \cup {NoSlot}, seq : Seqs, runt : {FALSE}]
        BY <4>2
      <4> QED
        BY <3>1, <4>1, <4>2 DEF Messages
    <3> QED
      BY <2>1, <3>2 DEF Answer, Answers
  <2>3. inq' \in Seq(Answers) /\ Len(inq') = Len(inq) + 1
    <3>1. inq \in Seq(Answers) /\ inq' = Append(inq, Answer(Msg.slot, Msg.seq, FALSE))
      BY <1>4 DEF HandleBadSlot, TypeOK
    <3> QED
      BY <2>2, <3>1, Queued
  <2>4. heap' = heap /\ lost' = lost /\ Len(outq') = Len(outq) - 1
    BY <1>4, Fed DEF HandleBadSlot
  <2>5. HeapAccounted'
    BY <2>3, <2>4, Counts DEF HeapAccounted
  <2>6. TypeOK'
    BY <1>4, <2>1, <2>3, Fed DEF HandleBadSlot, TypeOK
  <2> QED
    BY <2>5, <2>6
<1> QED
  BY <1>1, <1>2, <1>3, <1>4, AnswerEventStep, CardDetectStep, HandleOutStep DEF MainLoop

\* The host's steps and the interrupts'.
LEMMA OutsideStep ==
  ASSUME IInv,
         Collect \/ (\E m \in Messages : Submit(m)) \/ (\E s \in Slots : Report(s))
  PROVE  IInv'
<1> USE DEF IInv
<1>1. CASE Collect
  <2>1. inq' \in Seq(Answers) /\ Len(inq') = Len(inq) - 1 /\ Len(inq) \in Nat \ {0}
    BY <1>1 DEF Collect, TypeOK
  <2>2. heap' = heap - 1 /\ outq' = outq /\ lost' = lost
    BY <1>1 DEF Collect
  <2>3. HeapAccounted' /\ heap' \in Nat
    BY <2>1, <2>2, Counts DEF HeapAccounted
  <2> QED
    BY <1>1, <2>1, <2>3 DEF Collect, TypeOK
<1>2. ASSUME NEW m \in Messages, Submit(m)
      PROVE  IInv'
  <2>1. outq' \in Seq(Messages) /\ Len(outq') = Len(outq) + 1
    BY <1>2 DEF Submit, TypeOK
  <2>2. heap' = heap + 1 /\ inq' = inq /\ lost' = lost
    BY <1>2 DEF Submit
  <2>3. HeapAccounted' /\ heap' \in Nat
    BY <2>1, <2>2, Counts DEF HeapAccounted
  <2> QED
    BY <1>2, <2>1, <2>3 DEF Submit, TypeOK
<1>3. ASSUME NEW s \in Slots, Report(s)
      PROVE  IInv'
  <2>1. PICK event \in {"done", "failed"} : slot' = [slot EXCEPT ![s].event = event]
    BY <1>3 DEF Report
  <2>2. [slot[s] EXCEPT !.event = event] \in CcidSlots
    BY DEF TypeOK, CcidSlots
  <2>3. slot' \in [Slots -> CcidSlots]
    BY <2>1, <2>2 DEF TypeOK
  <2> QED
    BY <1>3, <2>3 DEF Report, TypeOK, HeapAccounted
<1> QED
  BY <1>1, <1>2, <1>3

\* The message layer's inductive invariant: types and the count of the heap.
THEOREM Invariance == Spec => []IInv
<1>1. Init => IInv
  BY NrAssumption, BoundAssumption DEF Init, IInv, TypeOK, HeapAccounted, CcidSlots, Slots
<1>2. IInv /\ [Next]_vars => IInv'
  <2> SUFFICES ASSUME IInv, [Next]_vars
               PROVE  IInv'
    OBVIOUS
  <2>1. CASE UNCHANGED vars
    BY <2>1 DEF vars, IInv, TypeOK, HeapAccounted
  <2> QED
    BY <2>1, MainLoopStep, OutsideStep DEF Next
<1> QED
  BY <1>1, <1>2, PTL DEF Spec

\* The slots, queues and counters of the message layer keep their types, on a
\* reader with any number of slots.
THEOREM TypeCorrect == Spec => []TypeOK
BY Invariance, PTL DEF IInv

\* Every message buffer allocated is in a queue or is one of the XfrBlocks
\* rejected: no handler frees one twice, and no other handler keeps one.
THEOREM BuffersAccounted == Spec => []HeapAccounted
BY Invariance, PTL DEF IInv

-----------------------------------------------------------------------------
(* The status the host was told. *)

\* StatusCurrent of one slot.
TellsTruth(sl, status) == ~sl.busy => status \in {IccStatus(sl), "unsure"}

\* An answer tells the status the slot is left in.
LEMMA SendTells ==
  ASSUME TypeOK, StatusCurrent, NEW s \in Slots, NEW sl, NEW answer,
         Send(s, sl, answer, IccStatus(sl))
  PROVE  StatusCurrent'
<1> SUFFICES ASSUME NEW r \in Slots
             PROVE  TellsTruth(slot[r], told[r])'
  BY DEF StatusCurrent, TellsTruth
<1>1. CASE r = s
  BY <1>1 DEF Send, TypeOK, TellsTruth, IccStatus
<1>2. CASE r # s
  BY <1>2 DEF Send, TypeOK, TellsTruth, StatusCurrent, IccStatus
<1> QED
  BY <1>1, <1>2

\* A change of one slot that leaves its status and whether it is busy alone,
\* or makes it busy, without an answer.
LEMMA QuietTells ==
  ASSUME TypeOK, StatusCurrent, NEW s \in Slots, NEW sl,
         slot' = [slot EXCEPT ![s] = sl], told' = told,
         sl.busy \/ (sl.busy = slot[s].busy /\ IccStatus(sl) = IccStatus(slot[s]))
  PROVE  StatusCurrent'
<1> SUFFICES ASSUME NEW r \in Slots
             PROVE  TellsTruth(slot[r], told[r])'
  BY DEF StatusCurrent, TellsTruth
<1>1. CASE r = s
  <2>1. slot'[r] = sl /\ told'[r] = told[s]
    BY <1>1 DEF TypeOK
  <2>2. TellsTruth(slot[s], told[s])
    BY DEF StatusCurrent, TellsTruth
  <2> QED
    BY <2>1, <2>2 DEF TellsTruth, IccStatus
<1>2. CASE r # s
  BY <1>2 DEF TypeOK, TellsTruth, StatusCurrent, IccStatus
<1> QED
  BY <1>1, <1>2

\* Steps that change neither a slot nor what the host knows.
LEMMA NothingTold ==
  ASSUME StatusCurrent, slot' = slot, told' = told
  PROVE  StatusCurrent'
BY DEF StatusCurrent, IccStatus

\* Each answer tells the status its handler leaves.
LEMMA HandleOutTells ==
  ASSUME TypeOK, StatusCurrent, ~HeedsUnknown, HandleOut
  PROVE  StatusCurrent'
<1> DEFINE s == Msg.slot
<1>0. Feed /\ s \in Slots /\ slot[s] \in CcidSlots
  BY DEF HandleOut, TypeOK
<1>1. CASE RejectCmd(s) \/ HandleShort(s) \/ HandleUnaltering(s)
           \/ HandleParameters(s) \/ HandleIccPowerOff(s)
  <2>1. \E sl, answer : Send(s, sl, answer, IccStatus(sl))
    BY <1>1 DEF RejectCmd, HandleShort, HandleUnaltering, HandleParameters,
                HandleIccPowerOff, AnswerNow
  <2> QED
    BY <1>0, <2>1, SendTells
<1>2. CASE HandleUnknown(s)
  <2>1. slot' = slot /\ told' = told
    BY <1>2 DEF HandleUnknown
  <2> QED
    BY <2>1, NothingTold
<1>3. CASE HandleIccPowerOn(s) \/ HandleXfrBlock(s)
  <2>1. PICK sl : sl.busy /\ Start(s, sl)
    <3>1. /\ [slot[s] EXCEPT !.busy = TRUE, !.powered = TRUE, !.seq = Msg.seq].busy
          /\ [slot[s] EXCEPT !.busy = TRUE, !.seq = Msg.seq].busy
      BY <1>0 DEF CcidSlots
    <3> QED
      BY <1>3, <3>1 DEF HandleIccPowerOn, HandleXfrBlock
  <2> QED
    BY <1>0, <2>1, QuietTells DEF Start
<1>4. CASE RejectXfrBlock(s)
  <2>1. PICK sq \in {slot[s].seq, Msg.seq} :
          Send(s, [slot[s] EXCEPT !.seq = sq], Answer(s, Msg.seq, FALSE), IccStatus(slot[s]))
    BY <1>4 DEF RejectXfrBlock
  <2>2. IccStatus([slot[s] EXCEPT !.seq = sq]) = IccStatus(slot[s])
    BY <1>0 DEF IccStatus, CcidSlots
  <2> QED
    BY <1>0, <2>1, <2>2, SendTells
<1> QED
  BY <1>1, <1>2, <1>3, <1>4 DEF HandleOut, HandleForSlot

\* Each change of a slot is notified.
LEMMA CardDetectTells ==
  ASSUME TypeOK, StatusCurrent, CardDetect
  PROVE  StatusCurrent'
<1>1. PICK level \in [Slots -> BOOLEAN] :
        LET cut == {s \in Slots : slot[s].present /\ ~level[s] /\ exch[s] = "running"}
        IN  /\ slot' = [s \in Slots |->
                          [Detected(slot[s], level[s]) EXCEPT
                             !.event = IF s \in cut THEN "failed" ELSE @]]
            /\ exch' = [s \in Slots |-> IF s \in cut THEN "none" ELSE exch[s]]
            /\ told' = [s \in Slots |->
                          IF slot[s].present # level[s] THEN "unsure" ELSE told[s]]
  BY DEF CardDetect
<1> SUFFICES ASSUME NEW s \in Slots
             PROVE  TellsTruth(slot[s], told[s])'
  BY DEF StatusCurrent, TellsTruth
<1>2. slot[s] \in CcidSlots /\ level[s] \in BOOLEAN
  BY DEF TypeOK
<1>3. PICK event : slot'[s] = [Detected(slot[s], level[s]) EXCEPT !.event = event]
  BY <1>1
<1>4. CASE slot[s].present # level[s]
  BY <1>1, <1>4 DEF TellsTruth
<1>5. CASE slot[s].present = level[s]
  <2>1. told'[s] = told[s]
    BY <1>1, <1>5
  <2>2. Detected(slot[s], level[s]) = slot[s]
    BY <1>2, <1>5 DEF Detected, CcidSlots
  <2>3. slot'[s] = [slot[s] EXCEPT !.event = event]
    BY <1>3, <2>2
  <2>4. slot'[s].busy = slot[s].busy /\ IccStatus(slot'[s]) = IccStatus(slot[s])
    BY <1>2, <2>3 DEF CcidSlots, IccStatus
  <2>5. TellsTruth(slot[s], told[s])
    BY DEF StatusCurrent, TellsTruth
  <2> QED
    BY <2>1, <2>4, <2>5 DEF TellsTruth, IccStatus
<1> QED
  BY <1>4, <1>5

\* When the host ignores what an answer to an unknown message type says, a
\* slot that is not busy is as the host was told, whatever was answered since.
THEOREM StatusIsCurrent ==
  ASSUME ~HeedsUnknown
  PROVE  Spec => []StatusCurrent
<1>1. Init => StatusCurrent
  BY DEF Init, StatusCurrent
<1>2. TypeOK /\ StatusCurrent /\ [Next]_vars => StatusCurrent'
  <2> SUFFICES ASSUME TypeOK, StatusCurrent, [Next]_vars
               PROVE  StatusCurrent'
    OBVIOUS
  <2>1. CASE NoEvent \/ FeedNothing \/ HandleRunt \/ HandleBadSlot \/ Collect
             \/ (\E m \in Messages : Submit(m)) \/ UNCHANGED vars
    <3>1. slot' = slot /\ told' = told
      BY <2>1 DEF NoEvent, FeedNothing, HandleRunt, HandleBadSlot, Collect, Submit, vars
    <3> QED
      BY <3>1, NothingTold
  <2>2. CASE AnswerEvent
    <3>1. turn \in Slots /\ \E sl, answer : Send(turn, sl, answer, IccStatus(sl))
      BY <2>2 DEF AnswerEvent, TypeOK
    <3> QED
      BY <3>1, SendTells
  <2>3. ASSUME NEW s \in Slots, Report(s)
        PROVE  StatusCurrent'
    <3>1. PICK event : slot' = [slot EXCEPT ![s].event = event]
      BY <2>3 DEF Report
    <3>2. slot[s] \in CcidSlots
      BY DEF TypeOK
    <3>3. /\ [slot[s] EXCEPT !.event = event].busy = slot[s].busy
          /\ IccStatus([slot[s] EXCEPT !.event = event]) = IccStatus(slot[s])
      BY <3>2 DEF CcidSlots, IccStatus
    <3>4. told' = told
      BY <2>3 DEF Report
    <3> QED
      BY <3>1, <3>3, <3>4, QuietTells
  <2> QED
    BY <2>1, <2>2, <2>3, CardDetectTells, HandleOutTells DEF Next, MainLoop
<1> QED
  BY <1>1, <1>2, TypeCorrect, PTL DEF Spec

-----------------------------------------------------------------------------
(* The messages of one slot among those of all. *)

\* f[i] is what OfSlot returns of the first i elements of q.
Selects(f, q, s, S) ==
  /\ f \in [0..Len(q) -> Seq(S)]
  /\ f[0] = <<>>
  /\ \A i \in 1..Len(q) :
       f[i] = IF q[i].slot = s THEN Append(f[i - 1], q[i]) ELSE f[i - 1]

\* OfSlot is the recursion it is written as.
LEMMA OfSlotSelects ==
  ASSUME NEW S, NEW q \in Seq(S), NEW s
  PROVE  \E f : Selects(f, q, s, S) /\ OfSlot(q, s) = f[Len(q)]
<1> DEFINE UpTo(f) == [i \in 0..Len(q) |->
                         IF i = 0 THEN <<>>
                         ELSE IF q[i].slot = s THEN Append(f[i - 1], q[i]) ELSE f[i - 1]]
           upTo == CHOOSE f : f = UpTo(f)
           step == [i \in 1..Len(q) |-> [t \in Seq(S) |->
                      IF q[i].slot = s THEN Append(t, q[i]) ELSE t]]
<1>1. Len(q) \in Nat /\ \A i \in 1..Len(q) : q[i] \in S
  OBVIOUS
<1>2. OfSlot(q, s) = upTo[Len(q)]
  BY DEF OfSlot
<1>3. Steps(Len(q), Seq(S), <<>>, step)
  <2>1. step \in [1..Len(q) -> [Seq(S) -> Seq(S)]]
    <3> SUFFICES ASSUME NEW i \in 1..Len(q), NEW t \in Seq(S)
                 PROVE  (IF q[i].slot = s THEN Append(t, q[i]) ELSE t) \in Seq(S)
      OBVIOUS
    <3> QED BY <1>1
  <2>2. <<>> \in Seq(S)
    OBVIOUS
  <2> QED BY <1>1, <2>1, <2>2 DEF Steps
<1>4. PICK f : Follows(f, Len(q), Seq(S), <<>>, step)
  <2> HIDE DEF step
  <2> QED BY <1>3, FiniteRecursion, Zenon
<1>5. f \in [0..Len(q) -> Seq(S)] /\ f[0] = <<>>
  BY <1>4 DEF Follows
<1>6. ASSUME NEW i \in 1..Len(q)
      PROVE  f[i] = IF q[i].slot = s THEN Append(f[i - 1], q[i]) ELSE f[i - 1]
  <2>1. f[i - 1] \in Seq(S)
    BY <1>1, <1>5
  <2>2. f[i] = step[i][f[i - 1]]
    <3> HIDE DEF step
    <3> QED BY <1>4 DEF Follows
  <2> QED BY <2>1, <2>2
<1>7. Selects(f, q, s, S)
  BY <1>5, <1>6 DEF Selects
<1>8. f = UpTo(f)
  <2>1. ASSUME NEW i \in 0..Len(q)
        PROVE  f[i] = IF i = 0 THEN <<>>
                      ELSE IF q[i].slot = s THEN Append(f[i - 1], q[i]) ELSE f[i - 1]
    <3>1. CASE i = 0
      BY <1>5, <3>1, Zenon
    <3>2. CASE i # 0
      <4>1. i \in 1..Len(q)
        BY <1>1, <3>2
      <4> QED BY <1>6, <3>2, <4>1, Zenon
    <3> QED BY <3>1, <3>2
  <2>2. f = [i \in 0..Len(q) |-> f[i]]
    BY <1>5
  <2> QED BY <2>1, <2>2, Zenon
<1>9. upTo = UpTo(upTo)
  <2> HIDE DEF UpTo
  <2> QED BY <1>8
<1> HIDE DEF upTo
<1>10. /\ upTo[0] = <<>>
       /\ \A i \in 1..Len(q) :
            upTo[i] = IF q[i].slot = s THEN Append(upTo[i - 1], q[i]) ELSE upTo[i - 1]
  <2>1. ASSUME NEW i \in 0..Len(q)
        PROVE  upTo[i] = IF i = 0 THEN <<>>
                         ELSE IF q[i].slot = s THEN Append(upTo[i - 1], q[i]) ELSE upTo[i - 1]
    BY <1>9, Zenon
  <2>2. 0 \in 0..Len(q)
    BY <1>1
  <2>3. ASSUME NEW i \in 1..Len(q)
        PROVE  i \in 0..Len(q) /\ i # 0
    BY <1>1
  <2> QED BY <2>1, <2>2, <2>3, Zenon
<1>11. \A i \in 0..Len(q) : i \in {k \in 0..Len(q) : upTo[k] = f[k]}
  <2> DEFINE Same == {k \in 0..Len(q) : upTo[k] = f[k]}
  <2>1. 0 \in Same
    BY <1>1, <1>5, <1>10
  <2>2. ASSUME NEW i \in 0..Len(q) - 1, i \in Same
        PROVE  i + 1 \in Same
    <3>1. i + 1 \in 1..Len(q) /\ (i + 1) - 1 = i
      BY <1>1
    <3> QED BY <2>2, <3>1, <1>6, <1>10
  <2> HIDE DEF Same
  <2>3. \A i \in 0..Len(q) : i \in Same
    BY <1>1, <2>1, <2>2, SetInduction
  <2> QED BY <2>3 DEF Same
<1>12. OfSlot(q, s) = f[Len(q)]
  BY <1>1, <1>2, <1>11
<1> QED BY <1>7, <1>12

\* Two such functions agree as long as their sequences do.
LEMMA SelectsAlike ==
  ASSUME NEW S, NEW q \in Seq(S), NEW r \in Seq(S), NEW s, NEW f, NEW g,
         Selects(f, q, s, S), Selects(g, r, s, S), Len(q) <= Len(r),
         \A i \in 1..Len(q) : q[i] = r[i]
  PROVE  f[Len(q)] = g[Len(q)]
<1> DEFINE Same == {k \in 0..Len(q) : f[k] = g[k]}
<1>1. Len(q) \in Nat /\ Len(r) \in Nat
  OBVIOUS
<1>2. 0 \in Same
  BY <1>1 DEF Selects
<1>3. ASSUME NEW i \in 0..Len(q) - 1, i \in Same
      PROVE  i + 1 \in Same
  <2>1. i + 1 \in 1..Len(q) /\ i + 1 \in 1..Len(r) /\ (i + 1) - 1 = i
    BY <1>1
  <2> QED BY <1>3, <2>1 DEF Selects
<1> HIDE DEF Same
<1>4. \A i \in 0..Len(q) : i \in Same
  BY <1>1, <1>2, <1>3, SetInduction
<1> QED BY <1>1, <1>4 DEF Same

\* An element appended is selected or not.
LEMMA OfSlotAppend ==
  ASSUME NEW S, NEW q \in Seq(S), NEW e \in S, NEW s
  PROVE  /\ OfSlot(q, s) \in Seq(S)
         /\ OfSlot(Append(q, e), s)
              = IF e.slot = s THEN Append(OfSlot(q, s), e) ELSE OfSlot(q, s)
<1> DEFINE r == Append(q, e)
<1>1. /\ Len(q) \in Nat
      /\ r \in Seq(S) /\ Len(r) = Len(q) + 1 /\ r[Len(q) + 1] = e
      /\ \A i \in 1..Len(q) : q[i] = r[i]
  OBVIOUS
<1> HIDE DEF r
<1>2. PICK f : Selects(f, q, s, S) /\ OfSlot(q, s) = f[Len(q)]
  BY OfSlotSelects, Zenon
<1>3. PICK g : Selects(g, r, s, S) /\ OfSlot(r, s) = g[Len(r)]
  BY <1>1, OfSlotSelects, Zenon
<1>4. g[Len(q)] = f[Len(q)]
  BY <1>1, <1>2, <1>3, SelectsAlike
<1>5. Len(r) \in 1..Len(r) /\ Len(r) - 1 = Len(q)
  BY <1>1
<1>6. g[Len(r)] = IF e.slot = s THEN Append(g[Len(q)], e) ELSE g[Len(q)]
  BY <1>1, <1>3, <1>5 DEF Selects
<1>7. f[Len(q)] \in Seq(S)
  BY <1>1, <1>2 DEF Selects
<1> QED BY <1>2, <1>3, <1>4, <1>6, <1>7 DEF r

\* Of no messages none is selected.
LEMMA OfSlotEmpty ==
  ASSUME NEW s
  PROVE  OfSlot(<<>>, s) = <<>>
<1>1. <<>> \in Seq({}) /\ Len(<<>>) = 0
  OBVIOUS
<1>2. PICK f : Selects(f, <<>>, s, {}) /\ OfSlot(<<>>, s) = f[Len(<<>>)]
  BY <1>1, OfSlotSelects, Zenon
<1> QED BY <1>1, <1>2 DEF Selects

\* The head, when it is selected, is the head of what is selected.
LEMMA OfSlotHead ==
  ASSUME NEW S, NEW q \in Seq(S), q # <<>>, NEW s
  PROVE  IF Head(q).slot = s
         THEN /\ OfSlot(q, s) # <<>>
              /\ Head(OfSlot(q, s)) = Head(q)
              /\ Tail(OfSlot(q, s)) = OfSlot(Tail(q), s)
         ELSE OfSlot(q, s) = OfSlot(Tail(q), s)
<1> DEFINE h == Head(q)
           t == Tail(q)
<1>1. /\ t \in Seq(S) /\ Len(t) \in Nat /\ Len(q) = Len(t) + 1
      /\ h \in S /\ q[1] = h
      /\ \A i \in 1..Len(t) : q[i + 1] = t[i]
  OBVIOUS
<1> HIDE DEF h, t
<1>2. PICK f : Selects(f, q, s, S) /\ OfSlot(q, s) = f[Len(q)]
  BY OfSlotSelects, Zenon
<1>3. PICK g : Selects(g, t, s, S) /\ OfSlot(t, s) = g[Len(t)]
  BY <1>1, OfSlotSelects, Zenon
<1> DEFINE Put(u) == IF h.slot = s THEN <<h>> \o u ELSE u
           Same == {k \in 0..Len(t) : f[k + 1] = Put(g[k])}
<1>4. 0 \in Same
  <2>1. f[1] = IF h.slot = s THEN Append(<<>>, h) ELSE <<>>
    <3>1. 1 \in 1..Len(q) /\ 1 - 1 = 0
      BY <1>1
    <3> QED BY <1>1, <1>2, <3>1 DEF Selects
  <2>2. g[0] = <<>>
    BY <1>3 DEF Selects
  <2>3. Append(<<>>, h) = <<h>> \o <<>>
    <3> HIDE DEF Put, Same
    <3> QED BY <1>1
  <2>4. 0 + 1 = 1 /\ 0 \in 0..Len(t)
    BY <1>1
  <2>5. f[1] = Put(g[0])
    BY <2>1, <2>2, <2>3, Zenon
  <2> QED BY <2>4, <2>5, Zenon
<1>5. ASSUME NEW i \in 0..Len(t) - 1, i \in Same
      PROVE  i + 1 \in Same
  <2>1. /\ i + 1 \in 1..Len(t) /\ i + 2 \in 1..Len(q) /\ i + 1 \in 0..Len(t)
        /\ (i + 1) - 1 = i /\ (i + 2) - 1 = i + 1 /\ (i + 1) + 1 = i + 2 /\ i \in 0..Len(t)
    BY <1>1
  <2>2. q[i + 2] = t[i + 1] /\ t[i + 1] \in S
    BY <1>1, <2>1
  <2>3. f[i + 2] = IF t[i + 1].slot = s THEN Append(f[i + 1], t[i + 1]) ELSE f[i + 1]
    <3> HIDE DEF Put, Same
    <3> QED BY <1>2, <2>1, <2>2 DEF Selects
  <2>4. g[i + 1] = IF t[i + 1].slot = s THEN Append(g[i], t[i + 1]) ELSE g[i]
    <3> HIDE DEF Put, Same
    <3> QED BY <1>3, <2>1 DEF Selects
  <2>5. g[i] \in Seq(S)
    <3> HIDE DEF Put, Same
    <3> QED BY <1>3, <2>1 DEF Selects
  <2>6. \A u \in Seq(S), e \in S : Append(<<h>> \o u, e) = <<h>> \o Append(u, e)
    BY <1>1
  <2>7. f[i + 1] = Put(g[i])
    BY <1>5
  <2>8. f[i + 2] = Put(g[i + 1])
    BY <2>2, <2>3, <2>4, <2>5, <2>6, <2>7, Zenon
  <2> QED BY <2>1, <2>8
<1>6. Len(t) \in Same
  <2> HIDE DEF Same
  <2>1. \A i \in 0..Len(t) : i \in Same
    BY <1>1, <1>4, <1>5, SetInduction
  <2> QED BY <1>1, <2>1
<1>7. OfSlot(q, s) = Put(OfSlot(t, s))
  BY <1>1, <1>2, <1>3, <1>6
<1>8. OfSlot(t, s) \in Seq(S)
  BY <1>1, <1>3 DEF Selects
<1>9. ASSUME NEW u \in Seq(S)
      PROVE  <<h>> \o u # <<>> /\ Head(<<h>> \o u) = h /\ Tail(<<h>> \o u) = u
  BY <1>1
<1> QED BY <1>7, <1>8, <1>9, Zenon DEF h, t

-----------------------------------------------------------------------------
(* The command in progress. *)

\* A command of slot s is in progress while its exchange runs or the event that
\* ends it waits; the slot keeps its bSeq, and is busy except in the round that
\* follows its card's removal.
Underway(s) ==
  /\ cur[s] = NoCmd <=> (exch[s] = "none" /\ slot[s].event = "none")
  /\ exch[s] = "running" => slot[s].event = "none"
  /\ cur[s] # NoCmd => cur[s].slot = s /\ cur[s].seq = slot[s].seq
  /\ cur[s] # NoCmd /\ ~slot[s].busy =>
       pc = "events" /\ turn <= s /\ slot[s].event # "none"

EInv == \A s \in Slots : Underway(s)

\* Slots are numbers.
LEMMA SlotNumbers ==
  /\ Slots \subseteq Nat /\ NoSlot \notin Slots
  /\ \A s, r \in Slots : s <= r /\ s # r => s + 1 <= r
  /\ \A s \in Slots : 0 <= s
  /\ \A s, r \in Slots : s + 1 \notin Slots /\ s <= r => r = s
  BY NrAssumption DEF Slots, NoSlot

\* What is kept for slot s stays.
Untouched(s) ==
  /\ cur'[s] = cur[s] /\ exch'[s] = exch[s]
  /\ slot'[s].event = slot[s].event /\ slot'[s].busy = slot[s].busy
  /\ slot'[s].seq = slot[s].seq

\* The main loop does not leave the round of events.
LEMMA UntouchedUnderway ==
  ASSUME NEW s \in Slots, Underway(s), Untouched(s),
         (pc' = pc /\ turn' = turn) \/ pc # "events"
  PROVE  Underway(s)'
  BY DEF Underway, Untouched

\* The round of events goes on past a slot without an event, or ends.
LEMMA PassedUnderway ==
  ASSUME TypeOK, NEW s \in Slots, Underway(s), Untouched(s), pc = "events", NextTurn,
         s = turn => slot[s].event = "none"
  PROVE  Underway(s)'
<1>1. turn \in Slots
  BY DEF TypeOK
<1>2. CASE cur[s] # NoCmd /\ ~slot[s].busy
  <2>1. turn <= s /\ slot[s].event # "none" /\ s # turn
    BY <1>2 DEF Underway
  <2>2. turn + 1 <= s
    BY <1>1, <2>1, SlotNumbers
  <2>3. turn + 1 \in Slots
    BY <1>1, <2>1, SlotNumbers
  <2>4. turn' = turn + 1 /\ pc' = pc
    BY <2>3 DEF NextTurn
  <2> QED BY <2>2, <2>4 DEF Underway, Untouched
<1>3. CASE ~(cur[s] # NoCmd /\ ~slot[s].busy)
  BY <1>3 DEF Underway, Untouched
<1> QED BY <1>2, <1>3

\* A command a slot accepts meets no other.
LEMMA AcceptsIdle ==
  ASSUME NEW s \in Slots, Underway(s), Accepts(s), pc = "feed"
  PROVE  cur[s] = NoCmd /\ exch[s] = "none" /\ slot[s].event = "none"
  BY DEF Underway, Accepts

\* A message for a slot is a command.
LEMMA IsCommand ==
  ASSUME TypeOK, Feed, Msg.slot \in Slots
  PROVE  Msg # NoCmd /\ Msg \in Messages
<1>1. NoCmd.slot \notin Slots
  BY SlotNumbers DEF NoCmd
<1> QED BY <1>1, Fed

\* Slot s answers at once, without a command that may be in progress.
AnsweredAtOnce(s) ==
  /\ \E ok \in BOOLEAN : (ok => cur[s] = NoCmd) /\ inq' = Append(inq, Answer(s, Msg.seq, ok))
  /\ cur' = cur

\* Slot s makes the message its command.
Accepted(s) ==
  cur[s] = NoCmd /\ cur' = [cur EXCEPT ![s] = Msg] /\ inq' = inq

\* What a handler of a message for slot s does.
LEMMA HandledUnderway ==
  ASSUME TypeOK, EInv, HandleOut, NEW s \in Slots, s = Msg.slot
  PROVE  /\ \A r \in Slots : Underway(r)'
         /\ AnsweredAtOnce(s) \/ Accepted(s)
<1>0. /\ Feed /\ pc = "feed" /\ pc' = "detect" /\ HandleForSlot(s)
      /\ slot \in [Slots -> CcidSlots] /\ slot[s] \in CcidSlots /\ Underway(s)
      /\ cur \in [Slots -> Messages \cup {NoCmd}]
      /\ exch \in [Slots -> {"none", "running"}]
      /\ Msg # NoCmd
  BY IsCommand DEF HandleOut, TypeOK, EInv, Feed
<1>1. ASSUME NEW sl \in CcidSlots, slot' = [slot EXCEPT ![s] = sl],
             exch' = exch, cur' = cur, sl.event = slot[s].event, sl.busy = slot[s].busy,
             sl.seq = slot[s].seq \/ Accepts(s)
      PROVE  \A r \in Slots : Underway(r)'
  <2> SUFFICES ASSUME NEW r \in Slots PROVE Underway(r)'
    OBVIOUS
  <2>1. Underway(r) /\ exch'[r] = exch[r] /\ cur'[r] = cur[r]
    BY <1>1 DEF EInv
  <2>2. CASE r = s /\ sl.seq # slot[s].seq
    <3>1. slot'[r] = sl
      BY <1>0, <1>1, <2>2
    <3>2. cur[r] = NoCmd /\ exch[r] = "none" /\ slot[r].event = "none"
      BY <1>0, <1>1, <2>2, AcceptsIdle
    <3> QED BY <2>1, <2>2, <3>1, <3>2, <1>1 DEF Underway
  <2>3. CASE r # s \/ sl.seq = slot[s].seq
    <3>1. slot'[r].event = slot[r].event /\ slot'[r].busy = slot[r].busy
          /\ slot'[r].seq = slot[r].seq
      BY <1>0, <1>1, <2>3
    <3>2. Untouched(r)
      BY <2>1, <3>1 DEF Untouched
    <3> QED BY <1>0, <2>1, <3>2, UntouchedUnderway
  <2> QED BY <2>2, <2>3
<1>2. ASSUME NEW sl \in CcidSlots, NEW ok \in BOOLEAN, AnswerNow(s, sl, ok),
             sl.event = slot[s].event, sl.busy = slot[s].busy,
             sl.seq = slot[s].seq \/ Accepts(s), ok => Accepts(s)
      PROVE  (\A r \in Slots : Underway(r)') /\ AnsweredAtOnce(s)
  <2>1. /\ slot' = [slot EXCEPT ![s] = sl] /\ exch' = exch /\ cur' = cur
        /\ inq' = Append(inq, Answer(s, Msg.seq, ok))
    BY <1>2 DEF AnswerNow, Send
  <2>2. ok => cur[s] = NoCmd
    BY <1>0, <1>2, AcceptsIdle
  <2>3. AnsweredAtOnce(s)
    BY <2>1, <2>2 DEF AnsweredAtOnce
  <2> QED BY <1>1, <1>2, <2>1, <2>3
<1>3. ASSUME NEW sl \in CcidSlots, Start(s, sl), Accepts(s),
             sl.event = slot[s].event, sl.busy, sl.seq = Msg.seq
      PROVE  (\A r \in Slots : Underway(r)') /\ Accepted(s)
  <2>1. cur[s] = NoCmd /\ exch[s] = "none" /\ slot[s].event = "none"
    BY <1>0, <1>3, AcceptsIdle
  <2>2. Accepted(s)
    BY <1>3, <2>1 DEF Start, Accepted
  <2>3. ASSUME NEW r \in Slots PROVE Underway(r)'
    <3>1. CASE r = s
      <4>1. slot'[r] = sl /\ exch'[r] = "running" /\ cur'[r] = Msg
        BY <1>0, <1>3, <3>1 DEF Start
      <4>2. Msg.slot = s
        OBVIOUS
      <4> QED BY <1>0, <1>3, <2>1, <3>1, <4>1, <4>2 DEF Underway
    <3>2. CASE r # s
      <4>1. slot'[r] = slot[r] /\ exch'[r] = exch[r] /\ cur'[r] = cur[r]
        BY <1>0, <1>3, <3>2 DEF Start
      <4>2. Untouched(r) /\ Underway(r)
        BY <4>1 DEF Untouched, EInv
      <4> QED BY <1>0, <4>2, UntouchedUnderway
    <3> QED BY <3>1, <3>2
  <2> QED BY <2>2, <2>3
<1>4. CASE RejectCmd(s) \/ HandleShort(s)
  BY <1>0, <1>2, <1>4 DEF RejectCmd, HandleShort
<1>5. CASE HandleUnaltering(s)
  <2>1. PICK outcome \in Outcomes : Accepts(s) /\ AnswerNow(s, slot[s], outcome[2])
    BY <1>5 DEF HandleUnaltering
  <2>2. outcome[2] \in BOOLEAN
    BY DEF Outcomes
  <2> QED BY <1>0, <1>2, <2>1, <2>2
<1>6. CASE HandleUnknown(s)
  <2>1. slot' = [slot EXCEPT ![s] = slot[s]] /\ exch' = exch /\ cur' = cur
        /\ inq' = Append(inq, Answer(s, Msg.seq, FALSE))
    BY <1>0, <1>6 DEF HandleUnknown
  <2>2. AnsweredAtOnce(s)
    BY <2>1 DEF AnsweredAtOnce
  <2> QED BY <1>0, <1>1, <2>1, <2>2
<1>7. CASE HandleParameters(s)
  <2>1. PICK ok \in BOOLEAN : /\ Accepts(s)
          /\ AnswerNow(s, IF ok THEN [slot[s] EXCEPT !.seq = Msg.seq] ELSE slot[s], ok)
    BY <1>7 DEF HandleParameters
  <2> DEFINE sl == IF ok THEN [slot[s] EXCEPT !.seq = Msg.seq] ELSE slot[s]
  <2>2. Msg.seq \in Seqs
    BY <1>0, ForSlot
  <2>3. sl \in CcidSlots /\ sl.event = slot[s].event /\ sl.busy = slot[s].busy
    BY <1>0, <2>2 DEF CcidSlots
  <2>4. AnswerNow(s, sl, ok)
    BY <2>1
  <2> HIDE DEF sl
  <2> QED BY <1>2, <2>1, <2>3, <2>4
<1>8. CASE HandleIccPowerOff(s)
  <2> DEFINE sl == [slot[s] EXCEPT !.powered = FALSE]
  <2>1. sl \in CcidSlots /\ sl.event = slot[s].event /\ sl.busy = slot[s].busy
        /\ sl.seq = slot[s].seq
    BY <1>0 DEF CcidSlots
  <2>2. Accepts(s) /\ AnswerNow(s, sl, TRUE)
    BY <1>8 DEF HandleIccPowerOff
  <2> HIDE DEF sl
  <2> QED BY <1>2, <2>1, <2>2
<1>9. CASE HandleIccPowerOn(s) \/ HandleXfrBlock(s)
  <2>0. Msg.seq \in Seqs
    BY <1>0, ForSlot
  <2>1. PICK sl \in CcidSlots : /\ Start(s, sl) /\ Accepts(s)
                                /\ sl.event = slot[s].event /\ sl.busy /\ sl.seq = Msg.seq
    <3> DEFINE on == [slot[s] EXCEPT !.busy = TRUE, !.powered = TRUE, !.seq = Msg.seq]
               xfr == [slot[s] EXCEPT !.busy = TRUE, !.seq = Msg.seq]
    <3>1. on \in CcidSlots /\ on.event = slot[s].event /\ on.busy /\ on.seq = Msg.seq
      BY <1>0, <2>0 DEF CcidSlots
    <3>2. xfr \in CcidSlots /\ xfr.event = slot[s].event /\ xfr.busy /\ xfr.seq = Msg.seq
      BY <1>0, <2>0 DEF CcidSlots
    <3>3. Accepts(s) /\ (Start(s, on) \/ Start(s, xfr))
      BY <1>9 DEF HandleIccPowerOn, HandleXfrBlock
    <3> HIDE DEF on, xfr
    <3> QED BY <3>1, <3>2, <3>3
  <2> QED BY <1>3, <2>1
<1>10. CASE RejectXfrBlock(s)
  <2>0. Msg.seq \in Seqs
    BY <1>0, ForSlot
  <2>1. PICK sq \in {slot[s].seq, Msg.seq} :
          Send(s, [slot[s] EXCEPT !.seq = sq], Answer(s, Msg.seq, FALSE), IccStatus(slot[s]))
    BY <1>10 DEF RejectXfrBlock
  <2> DEFINE sl == [slot[s] EXCEPT !.seq = sq]
  <2>2. sl \in CcidSlots /\ sl.event = slot[s].event /\ sl.busy = slot[s].busy
    BY <1>0, <2>0 DEF CcidSlots
  <2>3. slot' = [slot EXCEPT ![s] = sl] /\ inq' = Append(inq, Answer(s, Msg.seq, FALSE))
    BY <2>1 DEF Send
  <2>4. exch' = exch /\ cur' = cur /\ Accepts(s)
    BY <1>10 DEF RejectXfrBlock
  <2> HIDE DEF sl
  <2>5. AnsweredAtOnce(s)
    BY <2>3, <2>4 DEF AnsweredAtOnce
  <2> QED BY <1>1, <2>2, <2>3, <2>4, <2>5
<1> QED
  BY <1>0, <1>4, <1>5, <1>6, <1>7, <1>8, <1>9, <1>10 DEF HandleForSlot

-----------------------------------------------------------------------------
(* What CcidExchange sees of a slot. *)

\* An answer as CcidExchange sees it, and a queue of them.
Brief(a) == [seq |-> a.seq, ok |-> a.ok]
InBrief(q) == [i \in 1..Len(q) |-> Brief(q[i])]

\* Brief answers queue as the answers do.
LEMMA BriefQueue ==
  ASSUME NEW q \in Seq(Answers)
  PROVE  /\ \A a \in Answers : InBrief(Append(q, a)) = Append(InBrief(q), Brief(a))
         /\ q # <<>> => InBrief(q) # <<>> /\ InBrief(Tail(q)) = Tail(InBrief(q))
         /\ q = <<>> => InBrief(q) = <<>>
<1> DEFINE T == {Brief(a) : a \in Answers}
<1>1. ASSUME NEW r \in Seq(Answers)
      PROVE  InBrief(r) \in Seq(T) /\ Len(InBrief(r)) = Len(r)
             /\ \A i \in 1..Len(r) : InBrief(r)[i] = Brief(r[i])
  <2>1. Len(r) \in Nat /\ \A i \in 1..Len(r) : r[i] \in Answers
    OBVIOUS
  <2>2. \A i \in 1..Len(r) : Brief(r[i]) \in T
    BY <2>1
  <2> HIDE DEF T
  <2> QED BY <2>1, <2>2 DEF InBrief
<1>2. ASSUME NEW a \in Answers
      PROVE  InBrief(Append(q, a)) = Append(InBrief(q), Brief(a))
  <2>0. Brief(a) \in T
    OBVIOUS
  <2> HIDE DEF T
  <2>1. Append(q, a) \in Seq(Answers) /\ Len(Append(q, a)) = Len(q) + 1 /\ Len(q) \in Nat
    OBVIOUS
  <2>2. /\ Append(InBrief(q), Brief(a)) \in Seq(T)
        /\ Len(Append(InBrief(q), Brief(a))) = Len(q) + 1
    BY <1>1, <2>0
  <2>3. InBrief(Append(q, a)) \in Seq(T) /\ Len(InBrief(Append(q, a))) = Len(q) + 1
    BY <1>1, <2>1
  <2>4. ASSUME NEW i \in 1..Len(q) + 1
        PROVE  InBrief(Append(q, a))[i] = Append(InBrief(q), Brief(a))[i]
    <3>1. InBrief(Append(q, a))[i] = Brief(Append(q, a)[i])
      BY <1>1, <2>1
    <3>2. CASE i = Len(q) + 1
      <4>1. Append(q, a)[i] = a
        BY <3>2
      <4>2. Append(InBrief(q), Brief(a))[i] = Brief(a)
        BY <1>1, <2>0, <3>2
      <4> QED BY <3>1, <4>1, <4>2
    <3>3. CASE i \in 1..Len(q)
      <4>1. Append(q, a)[i] = q[i]
        BY <3>3
      <4>2. Append(InBrief(q), Brief(a))[i] = InBrief(q)[i]
        BY <1>1, <2>0, <3>3
      <4> QED BY <1>1, <3>1, <3>3, <4>1, <4>2
    <3>4. i = Len(q) + 1 \/ i \in 1..Len(q)
      BY <2>1
    <3> QED BY <3>2, <3>3, <3>4, Zenon
  <2> QED BY <2>2, <2>3, <2>4, SeqEqual
<1>3. CASE q # <<>>
  <2> HIDE DEF T
  <2>1. Tail(q) \in Seq(Answers) /\ Len(Tail(q)) = Len(q) - 1 /\ Len(q) \in Nat \ {0}
    BY <1>3
  <2>2. InBrief(q) # <<>> /\ Tail(InBrief(q)) \in Seq(T) /\ Len(Tail(InBrief(q))) = Len(q) - 1
    BY <1>1, <2>1
  <2>3. InBrief(Tail(q)) \in Seq(T) /\ Len(InBrief(Tail(q))) = Len(q) - 1
    BY <1>1, <2>1
  <2>4. ASSUME NEW i \in 1..Len(q) - 1
        PROVE  InBrief(Tail(q))[i] = Tail(InBrief(q))[i]
    <3>1. InBrief(Tail(q))[i] = Brief(Tail(q)[i])
      BY <1>1, <2>1
    <3>2. Tail(q)[i] = q[i + 1] /\ i + 1 \in 1..Len(q)
      BY <2>1
    <3>3. Tail(InBrief(q))[i] = InBrief(q)[i + 1]
      BY <1>1, <2>1
    <3> QED BY <1>1, <3>1, <3>2, <3>3
  <2>5. InBrief(Tail(q)) = Tail(InBrief(q))
    BY <2>2, <2>3, <2>4, SeqEqual
  <2> QED BY <1>2, <1>3, <2>2, <2>5
<1>4. CASE q = <<>>
  <2>1. InBrief(q) \in Seq(T) /\ Len(InBrief(q)) = 0
    BY <1>1, <1>4
  <2>2. InBrief(q) = <<>>
    <3> HIDE DEF T
    <3> QED BY <2>1
  <2> QED BY <1>2, <1>4, <2>2
<1> QED BY <1>3, <1>4

\* What CcidExchange sees of slot s does not change.
LEMMA NothingSeen ==
  ASSUME NEW s \in Slots, OfSlot(outq', s) = OfSlot(outq, s),
         OfSlot(inq', s) = OfSlot(inq, s), cur'[s] = cur[s]
  PROVE  UNCHANGED Exchange(s)!exchangeVars
  BY DEF Exchange!exchangeVars

\* An answer is queued for its slot alone.
LEMMA AnswerSeen ==
  ASSUME TypeOK, NEW a \in Answers, inq' = Append(inq, a), NEW s \in Slots
  PROVE  IF a.slot = s
         THEN InBrief(OfSlot(inq', s)) = Append(InBrief(OfSlot(inq, s)), Brief(a))
         ELSE OfSlot(inq', s) = OfSlot(inq, s)
<1>1. inq \in Seq(Answers)
  BY DEF TypeOK
<1>2. /\ OfSlot(inq, s) \in Seq(Answers)
      /\ OfSlot(Append(inq, a), s)
           = IF a.slot = s THEN Append(OfSlot(inq, s), a) ELSE OfSlot(inq, s)
  BY <1>1, OfSlotAppend
<1> QED BY <1>2, BriefQueue

\* A message taken is taken from its slot alone.
LEMMA TakenSeen ==
  ASSUME TypeOK, Feed, NEW s \in Slots
  PROVE  IF Msg.slot = s
         THEN /\ OfSlot(outq, s) # <<>> /\ Head(OfSlot(outq, s)) = Msg
              /\ OfSlot(outq', s) = Tail(OfSlot(outq, s))
         ELSE OfSlot(outq', s) = OfSlot(outq, s)
<1>1. outq \in Seq(Messages) /\ outq # <<>> /\ outq' = Tail(outq)
  BY DEF TypeOK, Feed
<1>2. IF Head(outq).slot = s
      THEN /\ OfSlot(outq, s) # <<>> /\ Head(OfSlot(outq, s)) = Head(outq)
           /\ Tail(OfSlot(outq, s)) = OfSlot(Tail(outq), s)
      ELSE OfSlot(outq, s) = OfSlot(Tail(outq), s)
  BY <1>1, OfSlotHead
<1>3. OfSlot(outq', s) = OfSlot(Tail(outq), s) /\ Msg = Head(outq)
  BY <1>1 DEF Msg
<1> QED BY <1>2, <1>3

\* A message of the host is submitted to its slot, and to no other.
LEMMA SubmitSeen ==
  ASSUME TypeOK, NEW m \in Messages, Submit(m), NEW s \in Slots
  PROVE  Exchange(s)!Next \/ UNCHANGED Exchange(s)!exchangeVars
<1>1. outq \in Seq(Messages) /\ outq' = Append(outq, m) /\ inq' = inq /\ cur' = cur
  BY DEF TypeOK, Submit
<1>2. OfSlot(Append(outq, m), s)
        = IF m.slot = s THEN Append(OfSlot(outq, s), m) ELSE OfSlot(outq, s)
  BY <1>1, OfSlotAppend
<1>3. CASE m.slot = s
  <2>1. Exchange(s)!Submit
    BY <1>1, <1>2, <1>3 DEF Exchange!Submit
  <2> QED BY <2>1 DEF Exchange!Next
<1>4. CASE m.slot # s
  BY <1>1, <1>2, <1>4, NothingSeen
<1> QED BY <1>3, <1>4

\* An answer is collected from its slot, and from no other.
LEMMA CollectSeen ==
  ASSUME TypeOK, Collect, NEW s \in Slots
  PROVE  Exchange(s)!Next \/ UNCHANGED Exchange(s)!exchangeVars
<1>1. inq \in Seq(Answers) /\ inq # <<>> /\ inq' = Tail(inq) /\ outq' = outq /\ cur' = cur
  BY DEF TypeOK, Collect
<1>3. CASE Head(inq).slot = s
  <2>1. OfSlot(inq, s) # <<>> /\ OfSlot(inq', s) = Tail(OfSlot(inq, s))
    BY <1>1, <1>3, OfSlotHead, Zenon
  <2>2. OfSlot(inq, s) \in Seq(Answers)
    <3>1. Head(inq) \in Answers
      BY <1>1
    <3> QED BY <1>1, <3>1, OfSlotAppend, Zenon
  <2>3. InBrief(OfSlot(inq, s)) # <<>>
        /\ InBrief(OfSlot(inq', s)) = Tail(InBrief(OfSlot(inq, s)))
    BY <2>1, <2>2, BriefQueue
  <2>4. Exchange(s)!Collect
    BY <1>1, <2>3 DEF Exchange!Collect, InBrief, Brief
  <2> QED BY <2>4 DEF Exchange!Next
<1>4. CASE Head(inq).slot # s
  <2>1. OfSlot(inq', s) = OfSlot(inq, s)
    BY <1>1, <1>4, OfSlotHead, Zenon
  <2> QED BY <1>1, <2>1, NothingSeen
<1> QED BY <1>3, <1>4

\* A message for slot s, handled.
LEMMA HandledSeen ==
  ASSUME TypeOK, Feed, NEW r \in Slots, Msg.slot = r, AnsweredAtOnce(r) \/ Accepted(r),
         NEW s \in Slots
  PROVE  Exchange(s)!Next \/ UNCHANGED Exchange(s)!exchangeVars
<1>0. Msg.seq \in Seqs /\ cur \in [Slots -> Messages \cup {NoCmd}]
  BY ForSlot DEF TypeOK
<1>1. CASE AnsweredAtOnce(r)
  <2>1. PICK ok \in BOOLEAN :
          (ok => cur[r] = NoCmd) /\ inq' = Append(inq, Answer(r, Msg.seq, ok))
    BY <1>1 DEF AnsweredAtOnce
  <2>2. Answer(r, Msg.seq, ok) \in Answers
    BY <1>0 DEF Answer, Answers
  <2>3. /\ Answer(r, Msg.seq, ok).slot = r
        /\ Brief(Answer(r, Msg.seq, ok)) = [seq |-> Msg.seq, ok |-> ok]
    BY DEF Answer, Brief
  <2>4. cur' = cur
    BY <1>1 DEF AnsweredAtOnce
  <2>5. CASE s = r
    <3>1. InBrief(OfSlot(inq', s)) = Append(InBrief(OfSlot(inq, s)), [seq |-> Msg.seq, ok |-> ok])
      BY <2>1, <2>2, <2>3, <2>5, AnswerSeen
    <3>2. /\ OfSlot(outq, s) # <<>> /\ Head(OfSlot(outq, s)) = Msg
          /\ OfSlot(outq', s) = Tail(OfSlot(outq, s))
      BY <2>5, TakenSeen
    <3>3. Exchange(s)!AnswerNow
      BY <2>1, <2>4, <2>5, <3>1, <3>2 DEF Exchange!AnswerNow, InBrief, Brief
    <3> QED BY <3>3 DEF Exchange!Next
  <2>6. CASE s # r
    BY <2>1, <2>2, <2>3, <2>4, <2>6, AnswerSeen, TakenSeen, NothingSeen
  <2> QED BY <2>5, <2>6
<1>2. CASE Accepted(r)
  <2>1. cur[r] = NoCmd /\ cur' = [cur EXCEPT ![r] = Msg] /\ inq' = inq
    BY <1>2 DEF Accepted
  <2>2. CASE s = r
    <3>1. /\ OfSlot(outq, s) # <<>> /\ Head(OfSlot(outq, s)) = Msg
          /\ OfSlot(outq', s) = Tail(OfSlot(outq, s))
      BY <2>2, TakenSeen
    <3>2. cur'[s] = Msg
      BY <1>0, <2>1, <2>2
    <3>3. Exchange(s)!Accept
      BY <2>1, <2>2, <3>1, <3>2 DEF Exchange!Accept
    <3> QED BY <3>3 DEF Exchange!Next
  <2>3. CASE s # r
    <3>1. cur'[s] = cur[s]
      BY <1>0, <2>1, <2>3
    <3> QED BY <2>1, <2>3, <3>1, TakenSeen, NothingSeen
  <2> QED BY <2>2, <2>3
<1> QED BY <1>1, <1>2

\* A message for no slot, dropped or answered.
LEMMA StrayUnseen ==
  ASSUME TypeOK, HandleRunt \/ HandleBadSlot, NEW s \in Slots
  PROVE  UNCHANGED Exchange(s)!exchangeVars
<1>1. Feed /\ Msg \in Messages /\ cur' = cur
  BY Fed DEF HandleRunt, HandleBadSlot
<1>2. Msg.slot = NoSlot /\ Msg.seq \in Seqs \cup {NoSeq}
  <2>1. CASE Msg = Runt
    BY <2>1 DEF Runt
  <2>2. CASE Msg \in [slot : Slots \cup {NoSlot}, seq : Seqs, runt : {FALSE}]
    BY <2>2 DEF HandleRunt, HandleBadSlot
  <2> QED BY <1>1, <2>1, <2>2 DEF Messages
<1>3. Msg.slot # s
  BY <1>2, SlotNumbers
<1>4. OfSlot(outq', s) = OfSlot(outq, s)
  BY <1>1, <1>3, TakenSeen
<1>5. OfSlot(inq', s) = OfSlot(inq, s)
  <2>1. CASE HandleRunt
    BY <2>1 DEF HandleRunt
  <2>2. CASE HandleBadSlot
    <3>1. inq' = Append(inq, Answer(Msg.slot, Msg.seq, FALSE))
      BY <2>2 DEF HandleBadSlot
    <3>2. Answer(Msg.slot, Msg.seq, FALSE) \in Answers
          /\ Answer(Msg.slot, Msg.seq, FALSE).slot # s
      BY <1>2, <1>3 DEF Answer, Answers
    <3> QED BY <3>1, <3>2, AnswerSeen
  <2> QED BY <2>1, <2>2
<1> QED BY <1>1, <1>4, <1>5, NothingSeen

\* The answer to the command in progress.
LEMMA AnswerEventSeen ==
  ASSUME TypeOK, EInv, AnswerEvent, NEW s \in Slots
  PROVE  Underway(s)' /\ (Exchange(s)!Next \/ UNCHANGED Exchange(s)!exchangeVars)
<1> DEFINE ok == slot[turn].event = "done"
           sl == [slot[turn] EXCEPT !.event = "none", !.busy = FALSE, !.powered = @ /\ ok]
<1>1. /\ turn \in Slots /\ slot[turn] \in CcidSlots /\ ok \in BOOLEAN
      /\ slot \in [Slots -> CcidSlots]
      /\ cur \in [Slots -> Messages \cup {NoCmd}] /\ Underway(turn) /\ Underway(s)
  BY DEF TypeOK, EInv
<1>2. sl \in CcidSlots /\ sl.seq = slot[turn].seq /\ sl.event = "none"
  BY <1>1 DEF CcidSlots
<1>3. /\ slot' = [slot EXCEPT ![turn] = sl]
      /\ inq' = Append(inq, Answer(turn, sl.seq, ok))
  BY DEF AnswerEvent, Send
<1>4. /\ exch' = exch /\ outq' = outq /\ pc = "events" /\ NextTurn
      /\ cur' = [cur EXCEPT ![turn] = NoCmd] /\ slot[turn].event # "none"
  BY DEF AnswerEvent
<1> HIDE DEF sl, ok
<1>5. cur[turn] # NoCmd /\ cur[turn].seq = sl.seq /\ exch[turn] = "none"
  BY <1>1, <1>2, <1>4 DEF Underway, TypeOK
<1>6. /\ Answer(turn, sl.seq, ok) \in Answers /\ Answer(turn, sl.seq, ok).slot = turn
      /\ Brief(Answer(turn, sl.seq, ok)) = [seq |-> sl.seq, ok |-> ok]
  BY <1>1, <1>2 DEF Answer, Answers, Brief, CcidSlots
<1>7. CASE s = turn
  <2>1. cur'[s] = NoCmd /\ slot'[s] = sl
    BY <1>1, <1>3, <1>4, <1>7
  <2>2. InBrief(OfSlot(inq', s)) = Append(InBrief(OfSlot(inq, s)), [seq |-> sl.seq, ok |-> ok])
    BY <1>3, <1>6, <1>7, AnswerSeen
  <2>3. Exchange(s)!Finish
    BY <1>1, <1>4, <1>5, <1>7, <2>1, <2>2 DEF Exchange!Finish, InBrief, Brief
  <2>4. Underway(s)'
    BY <1>2, <1>4, <1>5, <1>7, <2>1 DEF Underway
  <2> QED BY <2>3, <2>4 DEF Exchange!Next
<1>8. CASE s # turn
  <2>1. cur'[s] = cur[s] /\ slot'[s] = slot[s]
    BY <1>1, <1>3, <1>4, <1>8
  <2>2. OfSlot(inq', s) = OfSlot(inq, s)
    BY <1>3, <1>6, <1>8, AnswerSeen
  <2>3. Untouched(s)
    BY <1>4, <2>1 DEF Untouched
  <2>4. Underway(s)'
    BY <1>1, <1>4, <1>8, <2>3, PassedUnderway
  <2> QED BY <1>4, <2>1, <2>2, <2>4, NothingSeen
<1> QED BY <1>7, <1>8

\* A removal ends what it cuts.
LEMMA CardDetectUnderway ==
  ASSUME TypeOK, EInv, CardDetect, NEW s \in Slots
  PROVE  Underway(s)'
<1>1. PICK level \in [Slots -> BOOLEAN] :
        LET cut == {r \in Slots : slot[r].present /\ ~level[r] /\ exch[r] = "running"}
        IN  /\ slot' = [r \in Slots |->
                          [Detected(slot[r], level[r]) EXCEPT
                             !.event = IF r \in cut THEN "failed" ELSE @]]
            /\ exch' = [r \in Slots |-> IF r \in cut THEN "none" ELSE exch[r]]
            /\ told' = [r \in Slots |->
                          IF slot[r].present # level[r] THEN "unsure" ELSE told[r]]
  BY DEF CardDetect
<1> DEFINE removed == slot[s].present /\ ~level[s]
<1>2. /\ slot[s] \in CcidSlots /\ level[s] \in BOOLEAN /\ exch[s] \in {"none", "running"}
      /\ Underway(s) /\ pc = "detect" /\ pc' = "events" /\ turn' = 0 /\ cur' = cur /\ turn' <= s
  BY SlotNumbers DEF TypeOK, EInv, CardDetect
<1>3. Detected(slot[s], level[s]) \in CcidSlots
      /\ Detected(slot[s], level[s]).event = slot[s].event
      /\ Detected(slot[s], level[s]).seq = slot[s].seq
      /\ Detected(slot[s], level[s]).busy = (slot[s].busy /\ ~removed)
  BY <1>2 DEF Detected, CcidSlots
<1>4. CASE removed /\ exch[s] = "running"
  <2>1. /\ slot'[s] = [Detected(slot[s], level[s]) EXCEPT !.event = "failed"]
        /\ exch'[s] = "none"
    BY <1>1, <1>4
  <2>2. slot'[s].event = "failed" /\ slot'[s].seq = slot[s].seq
    BY <1>3, <2>1 DEF CcidSlots
  <2> QED BY <1>2, <1>4, <2>1, <2>2 DEF Underway
<1>5. CASE ~(removed /\ exch[s] = "running")
  <2>1. /\ slot'[s] = [Detected(slot[s], level[s]) EXCEPT !.event = @]
        /\ exch'[s] = exch[s]
    BY <1>1, <1>5
  <2>2. slot'[s].event = slot[s].event /\ slot'[s].seq = slot[s].seq
        /\ slot'[s].busy = (slot[s].busy /\ ~removed)
    BY <1>3, <2>1 DEF CcidSlots
  <2>3. cur[s] # NoCmd => slot[s].busy
    BY <1>2 DEF Underway
  <2> QED BY <1>2, <1>5, <2>1, <2>2, <2>3 DEF Underway
<1> QED BY <1>4, <1>5

\* The end of an exchange is noted.
LEMMA ReportUnderway ==
  ASSUME TypeOK, EInv, NEW r \in Slots, Report(r), NEW s \in Slots
  PROVE  Underway(s)'
<1>1. PICK event \in {"done", "failed"} : slot' = [slot EXCEPT ![r].event = event]
  BY DEF Report
<1>2. /\ slot[s] \in CcidSlots /\ slot \in [Slots -> CcidSlots] /\ Underway(s)
      /\ exch \in [Slots -> {"none", "running"}]
  BY DEF TypeOK, EInv
<1>3. exch[r] = "running" /\ exch' = [exch EXCEPT ![r] = "none"]
      /\ cur' = cur /\ pc' = pc /\ turn' = turn
  BY DEF Report
<1>4. CASE s = r
  <2>1. slot'[s] = [slot[s] EXCEPT !.event = event] /\ exch'[s] = "none"
    BY <1>1, <1>2, <1>3, <1>4
  <2>2. slot'[s].event = event /\ slot'[s].seq = slot[s].seq /\ slot'[s].busy = slot[s].busy
    BY <1>2, <2>1 DEF CcidSlots
  <2> QED BY <1>2, <1>3, <1>4, <2>1, <2>2 DEF Underway
<1>5. CASE s # r
  <2>1. Untouched(s)
    BY <1>1, <1>2, <1>3, <1>5 DEF Untouched
  <2> QED BY <1>2, <1>3, <2>1, UntouchedUnderway
<1> QED BY <1>4, <1>5

\* Every step keeps the invariant, and is one of CcidExchange or unseen by it.
LEMMA ExchangeStep ==
  ASSUME TypeOK, EInv, [Next]_vars, NEW s \in Slots
  PROVE  Underway(s)' /\ (Exchange(s)!Next \/ UNCHANGED Exchange(s)!exchangeVars)
<1>0. Underway(s)
  BY DEF EInv
<1>1. CASE Collect \/ FeedNothing \/ HandleRunt \/ HandleBadSlot
           \/ (\E m \in Messages : Submit(m)) \/ UNCHANGED vars
  <2>1. Untouched(s) /\ ((pc' = pc /\ turn' = turn) \/ pc # "events")
    BY <1>1 DEF Collect, FeedNothing, HandleRunt, HandleBadSlot, Feed, Submit, vars, Untouched
  <2>2. Underway(s)'
    BY <1>0, <2>1, UntouchedUnderway
  <2>3. CASE FeedNothing \/ UNCHANGED vars
    BY <2>2, <2>3, NothingSeen DEF FeedNothing, vars
  <2> QED BY <1>1, <2>2, <2>3, CollectSeen, SubmitSeen, StrayUnseen
<1>2. CASE NoEvent
  <2>1. Untouched(s) /\ outq' = outq /\ inq' = inq /\ cur' = cur
    BY <1>2 DEF NoEvent, Untouched
  <2>2. Underway(s)'
    BY <1>0, <1>2, <2>1, PassedUnderway DEF NoEvent
  <2> QED BY <2>1, <2>2, NothingSeen
<1>3. CASE HandleOut
  <2>1. Feed /\ Msg.slot \in Slots
    BY <1>3 DEF HandleOut
  <2>2. Underway(s)' /\ (AnsweredAtOnce(Msg.slot) \/ Accepted(Msg.slot))
    BY <1>3, <2>1, HandledUnderway
  <2> QED BY <2>1, <2>2, HandledSeen
<1>4. CASE CardDetect
  <2>1. outq' = outq /\ inq' = inq /\ cur' = cur
    BY <1>4 DEF CardDetect
  <2> QED BY <1>4, <2>1, CardDetectUnderway, NothingSeen
<1>5. ASSUME NEW r \in Slots, Report(r)
      PROVE  Underway(s)' /\ UNCHANGED Exchange(s)!exchangeVars
  <2>1. outq' = outq /\ inq' = inq /\ cur' = cur
    BY <1>5 DEF Report
  <2> QED BY <1>5, <2>1, ReportUnderway, NothingSeen
<1> QED
  BY <1>1, <1>2, <1>3, <1>4, <1>5, AnswerEventSeen DEF Next, MainLoop

\* Each slot keeps the promise of CcidExchange: its messages are answered once,
\* in their order or, for the one command in progress, later, whatever the other
\* slots are sent through the queues and the main loop they share.
THEOREM EverySlotImplementsExchange == Spec => SlotsImplementExchange
<1>1. Init => EInv /\ \A s \in Slots : Exchange(s)!Init
  <2> SUFFICES ASSUME Init, NEW s \in Slots
               PROVE  Underway(s) /\ Exchange(s)!Init
    BY DEF EInv
  <2>1. Underway(s)
    BY DEF Init, Underway
  <2>2. outq = <<>> /\ inq = <<>> /\ cur[s] = NoCmd
    BY DEF Init
  <2>3. OfSlot(outq, s) = <<>> /\ OfSlot(inq, s) = <<>>
    BY <2>2, OfSlotEmpty
  <2>4. InBrief(OfSlot(inq, s)) = <<>>
    <3>1. <<>> \in Seq(Answers)
      OBVIOUS
    <3> QED BY <2>3, <3>1, BriefQueue
  <2>5. Exchange(s)!Init
    BY <2>2, <2>3, <2>4 DEF Exchange!Init, InBrief, Brief
  <2> QED BY <2>1, <2>5
<1>2. TypeOK /\ EInv /\ [Next]_vars
        => EInv' /\ [\A s \in Slots : Exchange(s)!Next \/ UNCHANGED Exchange(s)!exchangeVars]_vars
  BY ExchangeStep DEF EInv
<1> QED
  BY <1>1, <1>2, TypeCorrect, PTL DEF Spec, SlotsImplementExchange

=============================================================================
