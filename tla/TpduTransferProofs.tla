------------------------- MODULE TpduTransferProofs -------------------------
(***************************************************************************)
(* Theorems of TpduTransfer, for every length of a transfer, with a card   *)
(* that takes or sends its data either at once or byte by byte.            *)
(***************************************************************************)
EXTENDS TpduTransfer, SequenceTheorems, TLAPS

\* What the theorems assume of the card.
Unmixed == "mixed" \notin Ways

ReaderType ==
  [state : ReaderStates, cmd : BOOLEAN, p3 : 0..(Full - 1), next : 0..Full,
   tx : Seq(Hdr..Full), threshold : 1..Full, ring : Seq(Bytes), buf : Seq(Bytes)]

CardType ==
  [state : CardStates, done : 0..Full, one : BOOLEAN, got : Seq(1..Full),
   sent : Seq(Bytes)]

\* How many bytes of data the exchange has.
Total == IF reader.cmd \/ reader.p3 > 0 THEN reader.p3 ELSE Full

-----------------------------------------------------------------------------
(* The inductive invariant: reader and card in each phase of an exchange. *)

\* The data: what the card has taken and sent.
Data ==
  /\ reader.cmd => reader.p3 > 0
  /\ card.done <= Total
  /\ card.got = IF reader.cmd THEN Body(card.done) ELSE <<>>
  /\ card.state \in {"take", "take1"} => reader.cmd
  /\ card.state \in {"send", "send1"} => ~reader.cmd /\ card.done < Total

\* The reader listens for single bytes and has told the slot of all it heard.
Listening == reader.tx = <<>> /\ reader.threshold = 1 /\ reader.ring = <<>>
Told == reader.buf = card.sent

TxHdr ==
  /\ reader.tx = <<Hdr>> /\ reader.ring = <<>> /\ reader.buf = <<>> /\ reader.next = 0
  /\ card = Silent

InProcedure ==
  /\ Listening /\ Told /\ card.state \in {"proc", "mute"}
  /\ card.sent = IF reader.cmd THEN <<>> ELSE Body(card.done)
  /\ reader.cmd => reader.next = card.done
  /\ ~card.one => card.done = 0
  /\ card.done = Total => ~reader.cmd

TxRemaining ==
  /\ reader.cmd /\ reader.tx = Body(reader.p3) /\ reader.ring = <<>> /\ Told
  /\ card.state = "take" /\ card.done = 0

TxSingle ==
  /\ reader.cmd /\ reader.ring = <<>>
  /\ \/ /\ reader.tx = <<card.done + 1>> /\ reader.next = card.done
        /\ card.state = "take1" /\ card.done < Total
        /\ Told /\ card.sent = <<>> /\ card.one
     \/ /\ Listening /\ card.done = Total
        /\ card.state \in {"proc", "mute", "sw2", "end"}

RxRemaining ==
  /\ ~reader.cmd /\ reader.tx = <<>> /\ reader.buf = <<>>
  /\ reader.threshold = Total /\ Total > 1
  /\ reader.ring = Body(card.done) /\ card.sent = Body(card.done)
  /\ card.state \in {"send", "mute"} /\ card.done < Total

InRxSingle ==
  /\ ~reader.cmd /\ Listening /\ Told /\ card.done < Total
  /\ card.sent = Body(card.done)
  /\ card.state \in {"send", "send1", "mute"}
  /\ card.state = "send" => Total = 1
  /\ card.state = "send1" => card.one

InSW1 ==
  /\ Listening /\ Told /\ card.state \in {"proc", "mute"} /\ card.done = Total

InSW2 == Listening /\ Told /\ card.state \in {"sw2", "mute"}

IsDone == reader.tx = <<>> /\ reader.ring = <<>> /\ Told /\ card.state = "end"

IsInit ==
  reader.tx = <<>> /\ reader.ring = <<>> /\ card.state \in {"header", "end", "mute"}

IsReset == reader.tx = <<>> /\ reader.threshold = 1 /\ card.state # "header"

Phase ==
  CASE reader.state = "INIT" -> IsInit
    [] reader.state = "TX_HDR" -> TxHdr
    [] reader.state = "PROCEDURE" -> InProcedure
    [] reader.state = "TX_REMAINING" -> TxRemaining
    [] reader.state = "TX_SINGLE" -> TxSingle
    [] reader.state = "RX_REMAINING" -> RxRemaining
    [] reader.state = "RX_SINGLE" -> InRxSingle
    [] reader.state = "SW1" -> InSW1
    [] reader.state = "SW2" -> InSW2
    [] reader.state = "DONE" -> IsDone
    [] reader.state = "RESET" -> IsReset
    [] OTHER -> FALSE

Types == reader \in ReaderType /\ card \in CardType

IInv == Types /\ Data /\ Phase

-----------------------------------------------------------------------------
(* Lemmas on the data. *)

\* The first n bytes of the data, as the sequences they are elements of.
LEMMA BodyType ==
  ASSUME NEW n \in 0..Full
  PROVE  /\ Body(n) \in Seq(1..Full) /\ Body(n) \in Seq(Hdr..Full)
         /\ Body(n) \in Seq(Bytes) /\ Len(Body(n)) = n
         /\ \A i \in 1..n : Body(n)[i] = i
<1>1. 1..n \subseteq 1..Full /\ 1..n \subseteq Hdr..Full /\ 1..n \subseteq Bytes
  BY FullAssumption DEF Bytes, Hdr, Stale
<1>2. n \in Nat
  OBVIOUS
<1>3. Body(n) \in [1..n -> 1..Full] /\ Body(n) \in [1..n -> Hdr..Full]
        /\ Body(n) \in [1..n -> Bytes]
  BY <1>1 DEF Body
<1> QED
  BY <1>2, <1>3 DEF Body

\* Sending the next byte lengthens what was sent by it.
LEMMA BodyGrows ==
  ASSUME NEW n \in 0..(Full - 1)
  PROVE  /\ Append(Body(n), n + 1) = Body(n + 1)
         /\ Body(n) \o <<n + 1>> = Body(n + 1)
<1>1. n \in 0..Full /\ n + 1 \in 0..Full /\ n + 1 \in 1..Full
  BY FullAssumption
<1>2. Body(n) \in Seq(1..Full) /\ Len(Body(n)) = n
  BY <1>1, BodyType
<1>3. Body(n + 1) \in Seq(1..Full) /\ Len(Body(n + 1)) = n + 1
  BY <1>1, BodyType
<1>4. Append(Body(n), n + 1) \in Seq(1..Full) /\ Len(Append(Body(n), n + 1)) = n + 1
  BY <1>1, <1>2
<1>5. \A i \in 1..(n + 1) : Append(Body(n), n + 1)[i] = Body(n + 1)[i]
  BY <1>1, <1>2 DEF Body
<1>6. Append(Body(n), n + 1) = Body(n + 1)
  BY <1>1, <1>3, <1>4, <1>5, SeqEqual
<1>7. Body(n) \o <<n + 1>> = Append(Body(n), n + 1)
  BY <1>1, <1>2, AppendIsConcat
<1> QED
  BY <1>6, <1>7

\* No byte sent, and the whole of what was sent.
LEMMA BodyEnds ==
  /\ Body(0) = <<>>
  /\ \A n \in 0..Full : <<>> \o Body(n) = Body(n)
<1>1. Body(0) = <<>>
  BY DEF Body
<1>2. ASSUME NEW n \in 0..Full
      PROVE  <<>> \o Body(n) = Body(n)
  BY BodyType, ConcatEmptySeq
<1> QED
  BY <1>1, <1>2

-----------------------------------------------------------------------------
(* The invariant holds at first and after every step. *)

\* The reader idle, the card not yet asked.
LEMMA Begins == Init => IInv
<1> SUFFICES ASSUME Init PROVE IInv
  OBVIOUS
<1>1. Full \in Nat /\ 0 \in 0..Full /\ 0 \in 0..(Full - 1) /\ 1 \in 1..Full
  BY FullAssumption
<1>2. Types
  BY <1>1 DEF Init, Silent, Types, ReaderType, CardType, ReaderStates, CardStates
<1>3. Data
  BY <1>1 DEF Init, Silent, Data, Total
<1>4. Phase
  BY DEF Init, Silent, Phase, IsInit
<1> QED
  BY <1>2, <1>3, <1>4 DEF IInv

\* A TPDU is taken from the slot.
LEMMA Starts ==
  ASSUME IInv, NEW cmd \in BOOLEAN, NEW p3 \in 0..(Full - 1), Start(cmd, p3)
  PROVE  IInv'
<1>1. Full \in Nat /\ p3 \in Nat /\ 0 \in 0..Full /\ Hdr \in Hdr..Full
  BY FullAssumption DEF Hdr
<1>2. <<Hdr>> \in Seq(Hdr..Full)
  BY <1>1
<1>3. Types'
  <2>a. reader' = [state |-> "TX_HDR", cmd |-> cmd, p3 |-> p3, next |-> 0,
                   tx |-> <<Hdr>>, threshold |-> reader.threshold,
                   ring |-> reader.ring, buf |-> <<>>]
    BY DEF IInv, Types, Start, ReaderType
  <2>b. reader.threshold \in 1..Full /\ reader.ring \in Seq(Bytes)
    BY DEF IInv, Types, ReaderType
  <2>1. reader' \in ReaderType
    BY <1>1, <1>2, <2>a, <2>b DEF ReaderType, ReaderStates
  <2>2. card' \in CardType
    BY <1>1 DEF Start, Silent, CardType, CardStates
  <2> QED
    BY <2>1, <2>2 DEF Types
<1>4. reader'.cmd = cmd /\ reader'.p3 = p3 /\ reader'.ring = reader.ring
      /\ reader'.tx = <<Hdr>> /\ reader'.buf = <<>> /\ reader'.next = 0
      /\ reader'.state = "TX_HDR" /\ card' = Silent
  BY DEF IInv, Types, ReaderType, Start
<1>5. Data'
  BY <1>1, <1>4, BodyEnds DEF Data, Total, Silent, Start
<1>6. reader.ring = <<>>
  BY DEF IInv, Phase, IsInit, Start
<1>7. Phase'
  BY <1>4, <1>6 DEF Phase, TxHdr
<1> QED
  BY <1>3, <1>5, <1>7 DEF IInv

\* The fields of the reader, and of the card.
LEMMA Fields ==
  ASSUME Types
  PROVE  /\ reader.state \in ReaderStates /\ reader.cmd \in BOOLEAN
         /\ reader.p3 \in 0..(Full - 1) /\ reader.next \in 0..Full
         /\ reader.tx \in Seq(Hdr..Full) /\ reader.threshold \in 1..Full
         /\ reader.ring \in Seq(Bytes) /\ reader.buf \in Seq(Bytes)
         /\ reader = [state |-> reader.state, cmd |-> reader.cmd, p3 |-> reader.p3,
                      next |-> reader.next, tx |-> reader.tx,
                      threshold |-> reader.threshold, ring |-> reader.ring,
                      buf |-> reader.buf]
         /\ card.state \in CardStates /\ card.done \in 0..Full
         /\ card.one \in BOOLEAN /\ card.got \in Seq(1..Full)
         /\ card.sent \in Seq(Bytes)
         /\ card = [state |-> card.state, done |-> card.done, one |-> card.one,
                    got |-> card.got, sent |-> card.sent]
BY DEF Types, ReaderType, CardType

\* The header is out: the card looks at it.
LEMMA HeaderSent ==
  ASSUME IInv, ReaderSent, reader.state = "TX_HDR"
  PROVE  IInv'
<1>1. Full \in Nat /\ Full > 1 /\ 0 \in 0..Full /\ 1 \in 1..Full
  BY FullAssumption
<1>2. TxHdr /\ Types /\ Data
  BY DEF IInv, Phase
<1>3. reader' = [state |-> "PROCEDURE", cmd |-> reader.cmd, p3 |-> reader.p3,
                 next |-> 0, tx |-> <<>>, threshold |-> 1, ring |-> <<>>,
                 buf |-> <<>>]
  BY <1>2, Fields DEF TxHdr, ReaderSent, TxDone, AwaitByte
<1>4. card' = [state |-> "proc", done |-> 0, one |-> FALSE, got |-> <<>>,
               sent |-> <<>>]
  BY <1>2 DEF TxHdr, ReaderSent, AfterTx, Silent
<1>5. Types'
  BY <1>1, <1>2, <1>3, <1>4, Fields
     DEF Types, ReaderType, CardType, ReaderStates, CardStates
<1>6. Total' = Total /\ Total > 0 /\ Total \in 0..Full
  BY <1>1, <1>2, <1>3, Fields DEF Total, Data
<1>7. Data'
  BY <1>1, <1>2, <1>3, <1>4, <1>6, BodyEnds DEF Data
<1>8. Phase'
  BY <1>1, <1>3, <1>4, <1>6, BodyEnds DEF Phase, InProcedure, Listening, Told
<1> QED
  BY <1>5, <1>7, <1>8 DEF IInv

\* The whole body is out.
LEMMA BodySent ==
  ASSUME IInv, ReaderSent, reader.state = "TX_REMAINING"
  PROVE  IInv'
<1>1. Full \in Nat /\ Full > 1 /\ 0 \in 0..Full /\ 1 \in 1..Full
  BY FullAssumption
<1>2. TxRemaining /\ Types /\ Data
  BY DEF IInv, Phase
<1>3. reader' = [state |-> "SW1", cmd |-> reader.cmd, p3 |-> reader.p3,
                 next |-> reader.next, tx |-> <<>>, threshold |-> 1,
                 ring |-> <<>>, buf |-> card.sent]
  BY <1>2, Fields DEF TxRemaining, Told, ReaderSent, TxDone, AwaitByte
<1>4. Total = reader.p3 /\ Total \in 1..Full /\ Total' = Total
  BY <1>1, <1>2, <1>3, Fields DEF Total, TxRemaining, Data
<1>5. Body(reader.p3) # <<Hdr>> /\ Len(Body(reader.p3)) = Total
      /\ Body(reader.p3) \in Seq(1..Full)
  <2>1. Body(reader.p3)[1] = 1
    BY <1>4 DEF Body
  <2> QED
    BY <2>1, <1>4, BodyType DEF Hdr
<1>6. card' = [state |-> "proc", done |-> Total, one |-> card.one,
               got |-> Body(Total), sent |-> card.sent]
  <2>1. card.got = <<>> /\ card.done = 0 /\ card.state = "take"
    BY <1>2, BodyEnds DEF TxRemaining, Data
  <2>2. card' = [card EXCEPT !.state = "proc", !.got = @ \o Body(reader.p3),
                             !.done = @ + Len(Body(reader.p3))]
    BY <1>2, <1>5, <2>1 DEF ReaderSent, AfterTx, TxRemaining
  <2>3. <<>> \o Body(reader.p3) = Body(Total) /\ 0 + Len(Body(reader.p3)) = Total
    BY <1>4, <1>5, BodyEnds
  <2> QED
    BY <1>2, <2>1, <2>2, <2>3, Fields
<1>7. Types'
  BY <1>1, <1>2, <1>3, <1>4, <1>5, <1>6, Fields
     DEF Types, ReaderType, CardType, ReaderStates, CardStates
<1>8. Data'
  BY <1>1, <1>2, <1>3, <1>4, <1>6 DEF Data, TxRemaining
<1>9. Phase'
  BY <1>3, <1>4, <1>6 DEF Phase, InSW1, Listening, Told
<1> QED
  BY <1>7, <1>8, <1>9 DEF IInv

\* One byte of the body is out.
LEMMA ByteSent ==
  ASSUME IInv, ReaderSent, reader.state = "TX_SINGLE"
  PROVE  IInv'
<1>1. Full \in Nat /\ Full > 1 /\ 0 \in 0..Full /\ 1 \in 1..Full
  BY FullAssumption
<1>2. Types /\ Data /\ TxSingle
  BY DEF IInv, Phase
<1>3. /\ reader.cmd /\ reader.ring = <<>> /\ reader.tx = <<card.done + 1>>
      /\ reader.next = card.done /\ card.state = "take1" /\ card.done < Total
      /\ reader.buf = <<>> /\ card.sent = <<>> /\ card.one
  BY <1>2 DEF TxSingle, Listening, Told, ReaderSent
<1>4. reader' = [state |-> IF card.done + 1 < reader.p3 THEN "PROCEDURE"
                           ELSE "TX_SINGLE",
                 cmd |-> reader.cmd, p3 |-> reader.p3, next |-> card.done + 1,
                 tx |-> <<>>, threshold |-> 1, ring |-> <<>>, buf |-> <<>>]
  BY <1>2, <1>3, Fields DEF ReaderSent, TxDone, TxSingleDone, AwaitByte
<1>5. Total = reader.p3 /\ Total \in 1..Full /\ Total' = Total
  BY <1>1, <1>2, <1>3, <1>4, Fields DEF Total, Data
<1>6. card.done \in 0..(Full - 1) /\ card.done + 1 \in 0..Full
  BY <1>1, <1>2, <1>3, <1>5, Fields
<1>7. card' = [state |-> "proc", done |-> card.done + 1, one |-> TRUE,
               got |-> Body(card.done + 1), sent |-> <<>>]
  <2>1. <<card.done + 1>> # <<Hdr>> /\ Len(<<card.done + 1>>) = 1
    BY <1>6 DEF Hdr
  <2>2. card' = [card EXCEPT !.state = "proc", !.got = @ \o <<card.done + 1>>,
                             !.done = @ + Len(<<card.done + 1>>)]
    BY <1>3, <2>1 DEF ReaderSent, AfterTx
  <2>3. card.got = Body(card.done) /\ card.one = TRUE
    BY <1>2, <1>3, Fields DEF Data
  <2>4. Body(card.done) \o <<card.done + 1>> = Body(card.done + 1)
    BY <1>6, BodyGrows
  <2> QED
    BY <1>2, <1>3, <2>1, <2>2, <2>3, <2>4, Fields
<1>8. Types'
  BY <1>1, <1>2, <1>4, <1>6, <1>7, BodyType, Fields
     DEF Types, ReaderType, CardType, ReaderStates, CardStates
<1>9. Data'
  BY <1>1, <1>3, <1>4, <1>5, <1>6, <1>7 DEF Data
<1>10. Phase'
  <2>1. CASE card.done + 1 < reader.p3
    BY <1>1, <1>3, <1>4, <1>5, <1>6, <1>7, <2>1 DEF Phase, InProcedure, Listening, Told
  <2>2. CASE ~(card.done + 1 < reader.p3)
    BY <1>1, <1>3, <1>4, <1>5, <1>6, <1>7, <2>2 DEF Phase, TxSingle, Listening
  <2> QED
    BY <2>1, <2>2
<1> QED
  BY <1>8, <1>9, <1>10 DEF IInv

-----------------------------------------------------------------------------
(* A byte of the card. *)

\* What the card may say in its state, and how it goes on.
LEMMA Spoken ==
  ASSUME Types, Data, Unmixed, NEW b \in MaySend
  PROVE  \/ /\ card.state = "proc" /\ b = NULL /\ AfterByte(b) = card
         \/ /\ card.state = "proc" /\ b = SW1
            /\ AfterByte(b) = [state |-> "sw2", done |-> card.done, one |-> card.one,
                               got |-> card.got, sent |-> Append(card.sent, b)]
         \/ /\ card.state = "proc" /\ b = INS /\ card.done < Total /\ ~card.one
            /\ AfterByte(b) = [state |-> IF reader.cmd THEN "take" ELSE "send",
                               done |-> card.done, one |-> card.one,
                               got |-> card.got, sent |-> card.sent]
         \/ /\ card.state = "proc" /\ b = INSX /\ card.done < Total
            /\ AfterByte(b) = [state |-> IF reader.cmd THEN "take1" ELSE "send1",
                               done |-> card.done, one |-> TRUE,
                               got |-> card.got, sent |-> card.sent]
         \/ /\ card.state \in {"send", "send1"} /\ b = card.done + 1
            /\ AfterByte(b) = [state |-> IF card.state = "send" /\ Total - card.done > 1
                                         THEN "send" ELSE "proc",
                               done |-> card.done + 1, one |-> card.one,
                               got |-> card.got, sent |-> Append(card.sent, b)]
         \/ /\ card.state = "sw2" /\ b = SW2
            /\ AfterByte(b) = [state |-> "end", done |-> card.done, one |-> card.one,
                               got |-> card.got, sent |-> Append(card.sent, b)]
<1>1. Full \in Nat /\ Full > 1
  BY FullAssumption
<1>2. Total \in 1..Full /\ Left = Total - card.done /\ card.done \in 0..Total
  BY <1>1, Fields DEF Total, Left, Data
<1>3. NULL = Full + 1 /\ INS = Full + 2 /\ INSX = Full + 3 /\ SW1 = Full + 4
      /\ SW2 = Full + 5
  BY DEF NULL, INS, INSX, SW1, SW2
<1>4. CASE card.state = "proc"
  <2>1. MaySend =
          {NULL, SW1}
            \cup (IF Left > 0 /\ (card.one => "mixed" \in Ways) THEN {INS} ELSE {})
            \cup (IF \/ Left > 1
                     \/ Left = 1 /\ (reader.cmd => "last_single" \in Ways)
                  THEN {INSX} ELSE {})
    BY <1>4 DEF MaySend
  <2>a. b \in {NULL, SW1, INS, INSX}
    BY <2>1
  <2>b. b = INS => Left > 0 /\ (card.one => "mixed" \in Ways)
    BY <1>1, <1>3, <2>1
  <2>c. b = INSX => Left > 1 \/ Left = 1
    BY <1>1, <1>3, <2>1
  <2>d. b \in {INS, INSX} => card.done < Total
    BY <1>2, <2>b, <2>c
  <2>e. b = INS => ~card.one
    BY <2>b, Zenon DEF Unmixed
  <2>2. CASE b = NULL
    <3>1. AfterByte(b) = card
      BY <1>1, <1>3, <2>2 DEF AfterByte
    <3> QED
      BY <1>4, <2>2, <3>1
  <2>3. CASE b = SW1
    <3>1. AfterByte(b) = [card EXCEPT !.state = "sw2", !.sent = Append(@, b)]
      BY <1>1, <1>3, <2>3 DEF AfterByte
    <3> QED
      BY <1>4, <2>3, <3>1, Fields
  <2>4. CASE b = INS
    <3>1. AfterByte(b) = [card EXCEPT !.state = IF reader.cmd THEN "take" ELSE "send"]
      BY <1>1, <1>3, <2>4 DEF AfterByte
    <3>2. card.done < Total /\ ~card.one
      BY <2>d, <2>e, <2>4
    <3> QED
      BY <1>4, <2>4, <3>1, <3>2, Fields
  <2>5. CASE b = INSX
    <3>1. AfterByte(b) = [card EXCEPT !.state = IF reader.cmd THEN "take1" ELSE "send1",
                                      !.one = TRUE]
      BY <1>1, <1>3, <2>5 DEF AfterByte
    <3>2. card.done < Total
      BY <2>d, <2>5
    <3> QED
      BY <1>4, <2>5, <3>1, <3>2, Fields
  <2> QED
    BY <2>a, <2>2, <2>3, <2>4, <2>5
<1>5. CASE card.state \in {"send", "send1"}
  <2>1. b = card.done + 1 /\ card.done < Total
    BY <1>5 DEF MaySend, Data
  <2>2. b # NULL /\ b # SW1 /\ b # SW2 /\ b # INS /\ b # INSX
    BY <1>1, <1>2, <1>3, <2>1
  <2>3. AfterByte(b) =
          [card EXCEPT !.done = b, !.sent = Append(@, b),
                       !.state = IF card.state = "send" /\ Total - card.done > 1
                                 THEN "send" ELSE "proc"]
    BY <1>2, <2>2 DEF AfterByte
  <2> QED
    BY <1>5, <2>1, <2>3, Fields
<1>6. CASE card.state = "sw2"
  <2>1. b = SW2
    BY <1>6 DEF MaySend
  <2>2. AfterByte(b) = [card EXCEPT !.state = "end", !.sent = Append(@, b)]
    BY <1>1, <1>3, <2>1 DEF AfterByte
  <2> QED
    BY <1>6, <2>1, <2>2, Fields
<1> QED
  BY <1>4, <1>5, <1>6, Fields DEF CardStates, MaySend

\* The bytes the card may say, and how long the data may be.
LEMMA Ranges ==
  ASSUME Types, Data, Unmixed, NEW b \in MaySend
  PROVE  /\ b \in Bytes /\ Total \in 1..Full /\ card.done \in 0..Total
         /\ Append(card.sent, b) \in Seq(Bytes)
<1>1. Full \in Nat /\ Full > 1
  BY FullAssumption
<1>2. Total \in 1..Full /\ card.done \in 0..Total
  BY <1>1, Fields DEF Total, Data
<1>3. b \in Bytes
  <2>1. NULL \in Bytes /\ INS \in Bytes /\ INSX \in Bytes /\ SW1 \in Bytes
        /\ SW2 \in Bytes /\ 0..Full \subseteq Bytes
    BY <1>1 DEF Bytes, Hdr, Stale, NULL, INS, INSX, SW1, SW2
  <2>2. card.state \in {"send", "send1"} => card.done + 1 \in 0..Full
    BY <1>1, <1>2 DEF Data
  <2> QED
    BY <2>1, <2>2, Spoken
<1> QED
  BY <1>2, <1>3, Fields

\* Whatever the card says, its data stays what it is to be.
LEMMA CardKeepsData ==
  ASSUME Types, Data, Unmixed, NEW b \in MaySend, card' = AfterByte(b),
         reader'.cmd = reader.cmd, reader'.p3 = reader.p3
  PROVE  card' \in CardType /\ Data' /\ Total' = Total /\ card'.state # "header"
<1>1. Full \in Nat /\ Full > 1
  BY FullAssumption
<1>2. Total \in 1..Full /\ card.done \in 0..Total /\ Total' = Total
  BY <1>1, Fields DEF Total, Data
<1>3. Append(card.sent, b) \in Seq(Bytes)
  BY Ranges
<1>4. card' \in CardType /\ Data' /\ card'.state # "header"
  <2>1. CASE card.state = "proc" /\ b = NULL /\ AfterByte(b) = card
    BY <1>2, <2>1 DEF Data, Types
  <2>2. CASE /\ card.state = "proc" /\ b = SW1
             /\ AfterByte(b) = [state |-> "sw2", done |-> card.done, one |-> card.one,
                                got |-> card.got, sent |-> Append(card.sent, b)]
    BY <1>2, <1>3, <2>2, Fields DEF Data, CardType, CardStates
  <2>3. CASE /\ card.state = "proc" /\ b = INS /\ card.done < Total
             /\ AfterByte(b) = [state |-> IF reader.cmd THEN "take" ELSE "send",
                                done |-> card.done, one |-> card.one,
                                got |-> card.got, sent |-> card.sent]
    BY <1>2, <2>3, Fields DEF Data, CardType, CardStates
  <2>4. CASE /\ card.state = "proc" /\ b = INSX /\ card.done < Total
             /\ AfterByte(b) = [state |-> IF reader.cmd THEN "take1" ELSE "send1",
                                done |-> card.done, one |-> TRUE,
                                got |-> card.got, sent |-> card.sent]
    BY <1>2, <2>4, Fields DEF Data, CardType, CardStates
  <2>5. CASE /\ card.state \in {"send", "send1"} /\ b = card.done + 1
             /\ AfterByte(b) = [state |-> IF card.state = "send" /\ Total - card.done > 1
                                          THEN "send" ELSE "proc",
                                done |-> card.done + 1, one |-> card.one,
                                got |-> card.got, sent |-> Append(card.sent, b)]
    <3>1. card.done < Total /\ card.done + 1 \in 0..Full /\ card.done + 1 <= Total
          /\ reader.cmd = FALSE
      BY <1>1, <1>2, <2>5, Fields DEF Data
    <3> DEFINE st == IF card.state = "send" /\ Total - card.done > 1 THEN "send"
                     ELSE "proc"
    <3>2. card' = [state |-> st, done |-> card.done + 1, one |-> card.one,
                   got |-> card.got, sent |-> Append(card.sent, b)]
      BY <2>5, Zenon
    <3>3. st \in {"send", "proc"} /\ (st = "send" => card.done + 1 < Total)
      BY <1>1, <1>2
    <3> HIDE DEF st
    <3>4. card' \in CardType
      BY <1>3, <3>1, <3>2, <3>3, Fields DEF CardType, CardStates
    <3>5. Data'
      <4>1. card'.done = card.done + 1 /\ card'.got = card.got /\ card'.got = <<>>
            /\ reader'.cmd = FALSE
        BY <3>1, <3>2 DEF Data
      <4> QED
        BY <1>2, <3>1, <3>2, <3>3, <4>1 DEF Data
    <3> QED
      BY <3>2, <3>3, <3>4, <3>5
  <2>6. CASE /\ card.state = "sw2" /\ b = SW2
             /\ AfterByte(b) = [state |-> "end", done |-> card.done, one |-> card.one,
                                got |-> card.got, sent |-> Append(card.sent, b)]
    BY <1>2, <1>3, <2>6, Fields DEF Data, CardType, CardStates
  <2> QED
    BY <2>1, <2>2, <2>3, <2>4, <2>5, <2>6, Spoken
<1> QED
  BY <1>2, <1>4

\* At threshold 1 and with an empty buffer, each byte is reported alone.
LEMMA HeardAlone ==
  ASSUME Types, Listening, NEW b \in Bytes
  PROVE  Rx(reader, b) = Single(reader, b)
<1>1. Append(reader.ring, b) = <<b>> /\ Tail(<<b>>) = <<>> /\ Head(<<b>>) = b
  BY DEF Listening
<1>2. Rx(reader, b) = Single([reader EXCEPT !.ring = <<>>], b)
  BY <1>1 DEF Rx, Listening
<1>3. [reader EXCEPT !.ring = <<>>] = reader
  BY Fields DEF Listening
<1> QED
  BY <1>2, <1>3

\* Nothing has changed.
LEMMA Stutters ==
  ASSUME IInv, UNCHANGED vars
  PROVE  IInv'
BY DEF vars, IInv, Types, Data, Total, Phase, TxHdr, InProcedure, TxRemaining,
   TxSingle, RxRemaining, InRxSingle, InSW1, InSW2, IsDone, IsInit, IsReset,
   Listening, Told

\* PROCEDURE: NULL, a status byte, or one byte or all the card asks for.
LEMMA HearsProcedure ==
  ASSUME IInv, Unmixed, NEW b \in MaySend, card' = AfterByte(b),
         reader' = Rx(reader, b), reader.tx = <<>>, reader.state = "PROCEDURE"
  PROVE  IInv'
<1>1. Full \in Nat /\ Full > 1 /\ 0 \in 0..Full /\ 1 \in 1..Full
  BY FullAssumption
<1>2. /\ InProcedure /\ Types /\ Data /\ Listening /\ card.state \in {"proc", "mute"}
      /\ reader.threshold = 1 /\ reader.ring = <<>> /\ reader.buf = card.sent
  BY DEF IInv, Phase, InProcedure, Listening, Told
<1>3. b \in Bytes /\ Total \in 1..Full /\ Append(card.sent, b) \in Seq(Bytes)
  BY <1>2, Ranges
<1>4. reader' = Procedure(reader, b)
  BY <1>2, <1>3, HeardAlone DEF Single
<1>5. NULL = Full + 1 /\ INS = Full + 2 /\ INSX = Full + 3 /\ SW1 = Full + 4
  BY DEF NULL, INS, INSX, SW1
<1>6. CASE card.state = "proc" /\ b = NULL /\ AfterByte(b) = card
  <2>1. reader' = [reader EXCEPT !.threshold = 1, !.state = "PROCEDURE"]
    BY <1>1, <1>4, <1>5, <1>6 DEF Procedure, AwaitByte
  <2>2. reader' = reader /\ card' = card
    BY <1>2, <1>6, <2>1, Fields
  <2> QED
    BY <2>2, Stutters DEF vars
<1>7. CASE /\ card.state = "proc" /\ b = SW1
           /\ AfterByte(b) = [state |-> "sw2", done |-> card.done, one |-> card.one,
                              got |-> card.got, sent |-> Append(card.sent, b)]
  <2>1. reader' = [[reader EXCEPT !.buf = Append(@, b)] EXCEPT !.threshold = 1, !.state = "SW2"]
    BY <1>1, <1>4, <1>5, <1>7 DEF Procedure, AwaitByte
  <2>2. reader' = [state |-> "SW2", cmd |-> reader.cmd, p3 |-> reader.p3,
                   next |-> reader.next, tx |-> <<>>, threshold |-> 1,
                   ring |-> <<>>, buf |-> Append(card.sent, b)]
    BY <1>2, <2>1, Fields
  <2>3. card' \in CardType /\ Data'
    BY <1>2, <2>2, CardKeepsData
  <2>4. reader' \in ReaderType
    BY <1>1, <1>2, <1>3, <2>2, Fields DEF ReaderType, ReaderStates
  <2>5. Phase'
    BY <1>7, <2>2 DEF Phase, InSW2, Listening, Told
  <2> QED
    BY <2>3, <2>4, <2>5 DEF IInv, Types
<1>8. CASE /\ card.state = "proc" /\ b = INS /\ card.done < Total /\ ~card.one
           /\ AfterByte(b) = [state |-> IF reader.cmd THEN "take" ELSE "send",
                              done |-> card.done, one |-> card.one,
                              got |-> card.got, sent |-> card.sent]
  <2>1. card.done = 0
    BY <1>2, <1>8 DEF InProcedure
  <2>2. CASE reader.cmd
    <3>1. reader' = [reader EXCEPT !.state = "TX_REMAINING", !.tx = Rest(reader)]
      BY <1>1, <1>4, <1>5, <1>8, <2>2 DEF Procedure
    <3>2. reader' = [state |-> "TX_REMAINING", cmd |-> reader.cmd, p3 |-> reader.p3,
                     next |-> reader.next, tx |-> Body(reader.p3), threshold |-> 1,
                     ring |-> <<>>, buf |-> card.sent]
      BY <1>2, <3>1, Fields DEF Rest
    <3>3. card' \in CardType /\ Data'
      BY <1>2, <3>2, CardKeepsData
    <3>4. reader' \in ReaderType
      BY <1>1, <1>2, <3>2, Fields, BodyType DEF ReaderType, ReaderStates
    <3>5. Phase'
      BY <1>8, <2>1, <2>2, <3>2 DEF Phase, TxRemaining, Told
    <3> QED
      BY <3>3, <3>4, <3>5 DEF IInv, Types
  <2>3. CASE ~reader.cmd
    <3>1. reader' = [reader EXCEPT !.threshold = Expected(reader),
                       !.state = IF Expected(reader) = 1 THEN "RX_SINGLE"
                                 ELSE "RX_REMAINING"]
      BY <1>1, <1>4, <1>5, <1>8, <2>3 DEF Procedure
    <3>2. Expected(reader) = Total
      BY <1>1, <2>3, Fields, <1>2 DEF Expected, Total
    <3>3. reader' = [state |-> IF Total = 1 THEN "RX_SINGLE" ELSE "RX_REMAINING",
                     cmd |-> reader.cmd, p3 |-> reader.p3,
                     next |-> reader.next, tx |-> <<>>, threshold |-> Total,
                     ring |-> <<>>, buf |-> card.sent]
      BY <1>2, <3>1, <3>2, Fields
    <3>4. card' \in CardType /\ Data' /\ Total' = Total
      BY <1>2, <3>3, CardKeepsData
    <3>5. reader' \in ReaderType
      BY <1>1, <1>2, <1>3, <3>3, Fields DEF ReaderType, ReaderStates
    <3>6. card.sent = <<>> /\ card.sent = Body(card.done)
      BY <1>2, <2>1, <2>3, BodyEnds DEF InProcedure
    <3>7. Phase'
      BY <1>3, <1>8, <2>1, <2>3, <3>3, <3>4, <3>6
         DEF Phase, RxRemaining, InRxSingle, Listening, Told
    <3> QED
      BY <3>4, <3>5, <3>7 DEF IInv, Types
  <2> QED
    BY <2>2, <2>3
<1>9. CASE /\ card.state = "proc" /\ b = INSX /\ card.done < Total
           /\ AfterByte(b) = [state |-> IF reader.cmd THEN "take1" ELSE "send1",
                              done |-> card.done, one |-> TRUE,
                              got |-> card.got, sent |-> card.sent]
  <2>1. CASE reader.cmd
    <3>1. reader' = [reader EXCEPT !.state = "TX_SINGLE", !.tx = NextByte(reader)]
      BY <1>1, <1>4, <1>5, <1>9, <2>1 DEF Procedure
    <3>2. reader.next = card.done /\ card.done + 1 \in Hdr..Full /\ card.sent = <<>>
      BY <1>1, <1>2, <1>3, <1>9, <2>1, Fields DEF InProcedure, Hdr
    <3>3. reader' = [state |-> "TX_SINGLE", cmd |-> reader.cmd, p3 |-> reader.p3,
                     next |-> reader.next, tx |-> <<card.done + 1>>, threshold |-> 1,
                     ring |-> <<>>, buf |-> card.sent]
      BY <1>2, <3>1, <3>2, Fields DEF NextByte
    <3>4. card' \in CardType /\ Data' /\ Total' = Total
      BY <1>2, <3>3, CardKeepsData
    <3>5. reader' \in ReaderType
      BY <1>1, <1>2, <3>2, <3>3, Fields DEF ReaderType, ReaderStates
    <3>6. Phase'
      BY <1>9, <2>1, <3>2, <3>3, <3>4 DEF Phase, TxSingle, Told
    <3> QED
      BY <3>4, <3>5, <3>6 DEF IInv, Types
  <2>2. CASE ~reader.cmd
    <3>1. reader' = [reader EXCEPT !.threshold = 1, !.state = "RX_SINGLE"]
      BY <1>1, <1>4, <1>5, <1>9, <2>2 DEF Procedure, AwaitByte
    <3>2. reader' = [state |-> "RX_SINGLE", cmd |-> reader.cmd, p3 |-> reader.p3,
                     next |-> reader.next, tx |-> <<>>, threshold |-> 1,
                     ring |-> <<>>, buf |-> card.sent]
      BY <1>2, <3>1, Fields
    <3>3. card' \in CardType /\ Data' /\ Total' = Total
      BY <1>2, <3>2, CardKeepsData
    <3>4. reader' \in ReaderType
      BY <1>1, <1>2, <3>2, Fields DEF ReaderType, ReaderStates
    <3>5. card.sent = Body(card.done)
      BY <1>2, <2>2 DEF InProcedure
    <3>6. Phase'
      BY <1>9, <2>2, <3>2, <3>3, <3>5 DEF Phase, InRxSingle, Listening, Told
    <3> QED
      BY <3>3, <3>4, <3>6 DEF IInv, Types
  <2> QED
    BY <2>1, <2>2
<1> QED
  BY <1>2, <1>6, <1>7, <1>8, <1>9, Spoken

\* TX_SINGLE after the last byte: the reader takes no notice any more.
LEMMA HearsNothing ==
  ASSUME IInv, Unmixed, NEW b \in MaySend, card' = AfterByte(b),
         reader' = Rx(reader, b), reader.tx = <<>>, reader.state = "TX_SINGLE"
  PROVE  IInv'
<1>1. Full \in Nat /\ Full > 1 /\ 0 \in 0..Full /\ 1 \in 1..Full
  BY FullAssumption
<1>2. /\ Types /\ Data /\ Listening /\ reader.cmd /\ reader.ring = <<>>
      /\ card.done = Total /\ card.state \in {"proc", "mute", "sw2", "end"}
  BY DEF IInv, Phase, TxSingle
<1>3. reader' = reader
  BY <1>2, Ranges, HeardAlone DEF Single
<1>4. card' \in CardType /\ Data' /\ Total' = Total
  BY <1>2, <1>3, CardKeepsData
<1>5. card'.state \in {"proc", "mute", "sw2", "end"} /\ card'.done = card.done
  BY <1>2, Ranges, Spoken
<1>6. Phase'
  BY <1>2, <1>3, <1>4, <1>5 DEF Phase, TxSingle, Listening
<1> QED
  BY <1>2, <1>3, <1>4, <1>6 DEF IInv, Types

\* RX_REMAINING: the bytes gather in the buffer until the last is there.
LEMMA HearsData ==
  ASSUME IInv, Unmixed, NEW b \in MaySend, card' = AfterByte(b),
         reader' = Rx(reader, b), reader.tx = <<>>, reader.state = "RX_REMAINING"
  PROVE  IInv'
<1>1. Full \in Nat /\ Full > 1 /\ 0 \in 0..Full /\ 1 \in 1..Full
  BY FullAssumption
<1>2. /\ Types /\ Data /\ RxRemaining /\ reader.buf = <<>> /\ ~reader.cmd
      /\ reader.threshold = Total /\ Total > 1 /\ reader.ring = Body(card.done)
      /\ card.sent = Body(card.done) /\ card.done < Total
  BY DEF IInv, Phase, RxRemaining
<1>3. b \in Bytes /\ Total \in 1..Full /\ card.done \in 0..Total
      /\ card.done \in 0..(Full - 1)
  BY <1>1, <1>2, Ranges
<1>4. /\ card.state = "send" /\ b = card.done + 1
      /\ AfterByte(b) = [state |-> IF Total - card.done > 1 THEN "send" ELSE "proc",
                         done |-> card.done + 1, one |-> card.one,
                         got |-> card.got, sent |-> Append(card.sent, b)]
  BY <1>2, Spoken DEF RxRemaining
<1>5. Append(reader.ring, b) = Body(card.done + 1) /\ Append(card.sent, b) = Body(card.done + 1)
      /\ Len(Body(card.done + 1)) = card.done + 1 /\ Body(card.done + 1) \in Seq(Bytes)
      /\ card.done + 1 \in 0..Full
  <2>1. card.done + 1 \in 0..Full
    BY <1>1, <1>3
  <2> QED
    BY <1>2, <1>3, <1>4, <2>1, BodyGrows, BodyType
<1>6. CASE card.done + 1 < Total
  <2>1. reader' = [reader EXCEPT !.ring = Body(card.done + 1)]
    BY <1>1, <1>2, <1>3, <1>5, <1>6 DEF Rx
  <2>2. reader' = [state |-> "RX_REMAINING", cmd |-> reader.cmd, p3 |-> reader.p3,
                   next |-> reader.next, tx |-> <<>>, threshold |-> Total,
                   ring |-> Body(card.done + 1), buf |-> <<>>]
    BY <1>2, <2>1, Fields
  <2>3. card' \in CardType /\ Data' /\ Total' = Total
    BY <1>2, <2>2, CardKeepsData
  <2>4. reader' \in ReaderType
    BY <1>1, <1>2, <1>3, <1>5, <2>2, Fields DEF ReaderType, ReaderStates
  <2>5. card' = [state |-> "send", done |-> card.done + 1, one |-> card.one,
                 got |-> card.got, sent |-> Body(card.done + 1)]
    <3>1. Total - card.done > 1
      BY <1>1, <1>3, <1>6
    <3> QED
      BY <1>4, <1>5, <3>1
  <2>6. Phase'
    BY <1>2, <1>6, <2>2, <2>3, <2>5 DEF Phase, RxRemaining
  <2> QED
    BY <2>3, <2>4, <2>6 DEF IInv, Types
<1>7. CASE ~(card.done + 1 < Total)
  <2>1. card.done + 1 = Total
    BY <1>2, <1>3, <1>7
  <2>2. Collected([reader EXCEPT !.ring = Body(Total)]) = Body(Total)
    <3> DEFINE r == [reader EXCEPT !.ring = Body(Total)]
    <3>1. r.buf = <<>> /\ r.ring = Body(Total)
      BY <1>2, Fields
    <3>2. Len(r.buf) = 0 /\ Len(r.ring) = Total /\ DOMAIN r.ring = 1..Total
      BY <1>5, <2>1, <3>1 DEF Body
    <3>3. \A i \in 1..Total : r.ring[i] = i /\ i \in DOMAIN r.ring
      BY <3>1, <3>2 DEF Body
    <3> HIDE DEF r
    <3>4. DOMAIN r.buf = {}
      BY <3>1
    <3>5. Len(r.buf) + Len(r.ring) = Total
      BY <1>3, <3>2
    <3>6. Collected(r) = [i \in 1..Total |->
             CASE i \in DOMAIN r.ring -> r.ring[i]
               [] i \in DOMAIN r.buf \ DOMAIN r.ring -> r.buf[i]
               [] OTHER -> Stale]
      BY <3>5 DEF Collected
    <3>7. Collected(r) = [i \in 1..Total |-> i]
      BY <3>3, <3>4, <3>6
    <3> QED
      BY <3>7 DEF Body, r
  <2>3. reader' = AwaitByte([[reader EXCEPT !.ring = Body(Total)] EXCEPT
                               !.buf = Body(Total), !.ring = <<>>], "SW1")
    <3>1. reader' = Complete([reader EXCEPT !.ring = Body(Total)])
      <4>1. /\ Append(reader.ring, b) = Body(Total) /\ Len(Body(Total)) = Total
            /\ reader.threshold # 1 /\ reader.threshold > 1
            /\ Len(Body(Total)) >= reader.threshold
        BY <1>1, <1>2, <1>3, <1>5, <2>1
      <4> QED
        BY <4>1 DEF Rx
    <3>2. [reader EXCEPT !.ring = Body(Total)].state = "RX_REMAINING"
      BY <1>2, Fields
    <3> QED
      BY <2>2, <3>1, <3>2 DEF Complete
  <2>4. reader' = [state |-> "SW1", cmd |-> reader.cmd, p3 |-> reader.p3,
                   next |-> reader.next, tx |-> <<>>, threshold |-> 1,
                   ring |-> <<>>, buf |-> Body(Total)]
    BY <1>2, <2>3, Fields DEF AwaitByte
  <2>5. card' \in CardType /\ Data' /\ Total' = Total
    BY <1>2, <2>4, CardKeepsData
  <2>6. reader' \in ReaderType
    BY <1>1, <1>2, <1>3, <1>5, <2>1, <2>4, Fields DEF ReaderType, ReaderStates
  <2>7. card' = [state |-> "proc", done |-> Total, one |-> card.one,
                 got |-> card.got, sent |-> Body(Total)]
    <3>1. ~(Total - card.done > 1)
      BY <1>1, <1>3, <2>1
    <3> QED
      BY <1>4, <1>5, <2>1, <3>1
  <2>8. Phase'
    BY <2>4, <2>5, <2>7 DEF Phase, InSW1, Listening, Told
  <2> QED
    BY <2>5, <2>6, <2>8 DEF IInv, Types
<1> QED
  BY <1>6, <1>7

\* RX_SINGLE: the byte asked for, the last one or not.
LEMMA HearsByte ==
  ASSUME IInv, Unmixed, NEW b \in MaySend, card' = AfterByte(b),
         reader' = Rx(reader, b), reader.tx = <<>>, reader.state = "RX_SINGLE"
  PROVE  IInv'
<1>1. Full \in Nat /\ Full > 1 /\ 0 \in 0..Full /\ 1 \in 1..Full
  BY FullAssumption
<1>2. /\ Types /\ Data /\ Listening /\ InRxSingle /\ ~reader.cmd /\ card.done < Total
      /\ card.sent = Body(card.done) /\ reader.buf = card.sent /\ reader.ring = <<>>
  BY DEF IInv, Phase, InRxSingle, Listening, Told
<1>3. b \in Bytes /\ Total \in 1..Full /\ card.done \in 0..Total
      /\ card.done \in 0..(Full - 1)
  BY <1>1, <1>2, Ranges
<1>4. /\ card.state \in {"send", "send1"} /\ b = card.done + 1
      /\ AfterByte(b) = [state |-> IF card.state = "send" /\ Total - card.done > 1
                                   THEN "send" ELSE "proc",
                         done |-> card.done + 1, one |-> card.one,
                         got |-> card.got, sent |-> Append(card.sent, b)]
  BY <1>2, Spoken DEF InRxSingle
<1>5. Append(card.sent, b) = Body(card.done + 1) /\ Len(Body(card.done + 1)) = card.done + 1
      /\ Body(card.done + 1) \in Seq(Bytes)
  <2>1. card.done + 1 \in 0..Full
    BY <1>1, <1>3
  <2> QED
    BY <1>2, <1>3, <1>4, <2>1, BodyGrows, BodyType
<1>6. reader' = [state |-> IF card.done + 1 = reader.p3 THEN "SW1" ELSE "PROCEDURE",
                 cmd |-> reader.cmd, p3 |-> reader.p3,
                 next |-> reader.next, tx |-> <<>>, threshold |-> 1,
                 ring |-> <<>>, buf |-> Body(card.done + 1)]
  <2>1. reader' = RxSingle(reader, b)
    BY <1>2, <1>3, HeardAlone DEF Single
  <2>2. reader' = AwaitByte([reader EXCEPT !.buf = Body(card.done + 1)],
                            IF card.done + 1 = reader.p3 THEN "SW1" ELSE "PROCEDURE")
    BY <1>2, <1>5, <2>1 DEF RxSingle
  <2> QED
    BY <1>2, <2>2, Fields DEF AwaitByte
<1>7. card' = [state |-> "proc", done |-> card.done + 1, one |-> card.one,
               got |-> card.got, sent |-> Body(card.done + 1)]
  <2>1. ~(card.state = "send" /\ Total - card.done > 1)
    BY <1>2, <1>3 DEF InRxSingle
  <2> QED
    BY <1>4, <1>5, <2>1
<1>8. card' \in CardType /\ Data' /\ Total' = Total
  BY <1>2, <1>6, CardKeepsData
<1>9. reader' \in ReaderType
  BY <1>1, <1>2, <1>5, <1>6, Fields DEF ReaderType, ReaderStates
<1>10. Phase'
  <2>1. CASE card.done + 1 = reader.p3
    <3>1. card.done + 1 = Total
      BY <1>1, <1>2, <1>3, <2>1 DEF Total
    <3> QED
      BY <1>6, <1>7, <1>8, <2>1, <3>1 DEF Phase, InSW1, Listening, Told
  <2>2. CASE card.done + 1 # reader.p3
    <3>1. card.one
      <4>1. Total = 1 => reader.p3 = 1
        BY <1>1, <1>2, Fields DEF Total
      <4>2. card.state # "send"
        BY <1>2, <1>3, <2>2, <4>1 DEF InRxSingle
      <4> QED
        BY <1>2, <1>4, <4>2 DEF InRxSingle
    <3> QED
      BY <1>2, <1>6, <1>7, <2>2, <3>1 DEF Phase, InProcedure, Listening, Told
  <2> QED
    BY <2>1, <2>2
<1> QED
  BY <1>8, <1>9, <1>10 DEF IInv, Types

\* SW1: a NULL, or the first status byte.
LEMMA HearsSW1 ==
  ASSUME IInv, Unmixed, NEW b \in MaySend, card' = AfterByte(b),
         reader' = Rx(reader, b), reader.tx = <<>>, reader.state = "SW1"
  PROVE  IInv'
<1>1. Full \in Nat /\ Full > 1 /\ 0 \in 0..Full /\ 1 \in 1..Full
  BY FullAssumption
<1>2. /\ Types /\ Data /\ Listening /\ card.state \in {"proc", "mute"}
      /\ card.done = Total /\ reader.buf = card.sent
      /\ reader.threshold = 1 /\ reader.ring = <<>>
  BY DEF IInv, Phase, InSW1, Listening, Told
<1>3. b \in Bytes /\ Total \in 1..Full /\ Append(card.sent, b) \in Seq(Bytes)
  BY <1>2, Ranges
<1>4. reader' = IF b = NULL THEN AwaitByte(reader, "SW1")
                ELSE AwaitByte([reader EXCEPT !.buf = Append(@, b)], "SW2")
  BY <1>2, <1>3, HeardAlone DEF Single
<1>5. NULL # SW1
  BY <1>1 DEF NULL, SW1
<1>6. CASE b = NULL /\ AfterByte(b) = card
  <2>1. reader' = [reader EXCEPT !.threshold = 1, !.state = "SW1"]
    BY <1>4, <1>6 DEF AwaitByte
  <2>2. reader' = reader /\ card' = card
    BY <1>2, <1>6, <2>1, Fields
  <2> QED
    BY <2>2, Stutters DEF vars
<1>7. CASE /\ b = SW1
           /\ AfterByte(b) = [state |-> "sw2", done |-> card.done, one |-> card.one,
                              got |-> card.got, sent |-> Append(card.sent, b)]
  <2>1. reader' = [state |-> "SW2", cmd |-> reader.cmd, p3 |-> reader.p3,
                   next |-> reader.next, tx |-> <<>>, threshold |-> 1,
                   ring |-> <<>>, buf |-> Append(card.sent, b)]
    BY <1>2, <1>4, <1>5, <1>7, Fields DEF AwaitByte
  <2>2. card' \in CardType /\ Data'
    BY <1>2, <2>1, CardKeepsData
  <2>3. reader' \in ReaderType
    BY <1>1, <1>2, <1>3, <2>1, Fields DEF ReaderType, ReaderStates
  <2>4. Phase'
    BY <1>7, <2>1 DEF Phase, InSW2, Listening, Told
  <2> QED
    BY <2>2, <2>3, <2>4 DEF IInv, Types
<1>8. \/ b = NULL /\ AfterByte(b) = card
      \/ /\ b = SW1
         /\ AfterByte(b) = [state |-> "sw2", done |-> card.done, one |-> card.one,
                            got |-> card.got, sent |-> Append(card.sent, b)]
  <2>1. ~(card.done < Total)
    BY <1>1, <1>2, <1>3
  <2> QED
    BY <1>2, <2>1, Spoken
<1> QED
  BY <1>6, <1>7, <1>8

\* SW2: the second status byte, the exchange is done.
LEMMA HearsSW2 ==
  ASSUME IInv, Unmixed, NEW b \in MaySend, card' = AfterByte(b),
         reader' = Rx(reader, b), reader.tx = <<>>, reader.state = "SW2"
  PROVE  IInv'
<1>1. Full \in Nat /\ Full > 1 /\ 0 \in 0..Full /\ 1 \in 1..Full
  BY FullAssumption
<1>2. /\ Types /\ Data /\ Listening /\ card.state \in {"sw2", "mute"}
      /\ reader.buf = card.sent /\ reader.threshold = 1 /\ reader.ring = <<>>
  BY DEF IInv, Phase, InSW2, Listening, Told
<1>3. b \in Bytes /\ Append(card.sent, b) \in Seq(Bytes)
  BY <1>2, Ranges
<1>4. reader' = [reader EXCEPT !.buf = Append(@, b), !.state = "DONE"]
  BY <1>2, <1>3, HeardAlone DEF Single
<1>5. reader' = [state |-> "DONE", cmd |-> reader.cmd, p3 |-> reader.p3,
                 next |-> reader.next, tx |-> <<>>, threshold |-> 1,
                 ring |-> <<>>, buf |-> Append(card.sent, b)]
  BY <1>2, <1>4, Fields
<1>6. card' \in CardType /\ Data'
  BY <1>2, <1>5, CardKeepsData
<1>7. reader' \in ReaderType
  BY <1>1, <1>2, <1>3, <1>5, Fields DEF ReaderType, ReaderStates
<1>8. card'.state = "end" /\ card'.sent = Append(card.sent, b)
  BY <1>2, Spoken
<1>9. Phase'
  BY <1>5, <1>8 DEF Phase, IsDone, Told
<1> QED
  BY <1>6, <1>7, <1>9 DEF IInv, Types

\* RESET: nobody takes what the card still says out of the buffer.
LEMMA HearsLate ==
  ASSUME IInv, Unmixed, NEW b \in MaySend, card' = AfterByte(b),
         reader' = Rx(reader, b), reader.tx = <<>>, reader.state = "RESET"
  PROVE  IInv'
<1>1. Full \in Nat /\ Full > 1 /\ 0 \in 0..Full /\ 1 \in 1..Full
  BY FullAssumption
<1>2. Types /\ Data /\ reader.threshold = 1 /\ card.state # "header"
  BY DEF IInv, Phase, IsReset
<1>3. b \in Bytes
  BY <1>2, Ranges
<1>4. Tail(Append(reader.ring, b)) \in Seq(Bytes)
  <2>1. Append(reader.ring, b) \in Seq(Bytes) /\ Append(reader.ring, b) # <<>>
    BY <1>2, <1>3, Fields, AppendProperties
  <2> QED
    BY <2>1, HeadTailProperties
<1>5. reader' = [reader EXCEPT !.ring = Tail(Append(reader.ring, b))]
  <2>1. [reader EXCEPT !.ring = Tail(Append(reader.ring, b))].state = "RESET"
    BY <1>2, Fields
  <2> QED
    BY <1>2, <2>1 DEF Rx, Single
<1>6. reader' = [state |-> "RESET", cmd |-> reader.cmd, p3 |-> reader.p3,
                 next |-> reader.next, tx |-> <<>>, threshold |-> 1,
                 ring |-> Tail(Append(reader.ring, b)), buf |-> reader.buf]
  BY <1>2, <1>5, Fields
<1>7. card' \in CardType /\ Data' /\ card'.state # "header"
  BY <1>2, <1>6, CardKeepsData
<1>8. reader' \in ReaderType
  BY <1>1, <1>2, <1>4, <1>6, Fields DEF ReaderType, ReaderStates
<1>9. Phase'
  BY <1>6, <1>7 DEF Phase, IsReset
<1> QED
  BY <1>7, <1>8, <1>9 DEF IInv, Types

-----------------------------------------------------------------------------
(* The other steps. *)

\* Bytes from the card, in whichever state they find the reader.
LEMMA Hears ==
  ASSUME IInv, Unmixed, CardSends
  PROVE  IInv'
<1>1. PICK b \in MaySend : card' = AfterByte(b) /\ reader' = Rx(reader, b)
  BY DEF CardSends
<1>2. reader.tx = <<>> /\ Types /\ Data /\ Phase
  BY DEF CardSends, IInv
<1>3. card.state \in {"proc", "send", "send1", "sw2"}
  BY <1>2, Spoken
<1>4. reader.state \in {"PROCEDURE", "TX_SINGLE", "RX_REMAINING", "RX_SINGLE", "SW1",
                        "SW2", "RESET"}
  BY <1>2, <1>3, Fields
     DEF Phase, ReaderStates, IsInit, TxHdr, Silent, TxRemaining, IsDone
<1> QED
  BY <1>1, <1>2, <1>4, HearsProcedure, HearsNothing, HearsData, HearsByte, HearsSW1,
     HearsSW2, HearsLate

\* A transmission ends.
LEMMA Sends ==
  ASSUME IInv, ReaderSent
  PROVE  IInv'
<1>1. reader.state \in {"TX_HDR", "TX_REMAINING", "TX_SINGLE"}
  BY Fields DEF IInv, Phase, Types, ReaderSent, ReaderStates, InProcedure, RxRemaining,
     InRxSingle, InSW1, InSW2, IsDone, IsInit, IsReset, Listening
<1> QED
  BY <1>1, HeaderSent, BodySent, ByteSent

\* The card falls silent.
LEMMA Stops ==
  ASSUME IInv, CardStops
  PROVE  IInv'
<1>1. Types /\ Data /\ Phase /\ reader' = reader
  BY DEF IInv, CardStops
<1>2. card' = [state |-> "mute", done |-> card.done, one |-> card.one,
               got |-> card.got, sent |-> card.sent]
  BY <1>1, Fields DEF CardStops
<1>3. Types'
  BY <1>1, <1>2, Fields DEF Types, CardType, CardStates
<1>4. Total' = Total
  BY <1>1 DEF Total
<1>5. Data'
  BY <1>1, <1>2, <1>4 DEF Data
<1>6. Phase'
  BY <1>1, <1>2, <1>4 DEF CardStops, Phase, TxHdr, InProcedure, TxRemaining, TxSingle,
     RxRemaining, InRxSingle, InSW1, InSW2, IsDone, IsInit, IsReset, Listening, Told,
     Silent
<1> QED
  BY <1>3, <1>5, <1>6 DEF IInv

\* The wait time ends an exchange, or its answer is handed over.
LEMMA Ends ==
  ASSUME IInv, WaitTimeExpires \/ Handed
  PROVE  IInv'
<1>1. Types /\ Data /\ Phase /\ card' = card /\ 1 \in 1..Full
  BY FullAssumption DEF IInv, WaitTimeExpires, Handed
<1>2. Total' = Total /\ Data'
  <2>1. reader'.cmd = reader.cmd /\ reader'.p3 = reader.p3
    BY <1>1, Fields DEF WaitTimeExpires, Handed
  <2> QED
    BY <1>1, <2>1 DEF Total, Data
<1>3. CASE WaitTimeExpires
  <2>1. reader' = [state |-> "RESET", cmd |-> reader.cmd, p3 |-> reader.p3,
                   next |-> reader.next, tx |-> <<>>, threshold |-> 1,
                   ring |-> reader.ring, buf |-> reader.buf]
    BY <1>1, <1>3, Fields DEF WaitTimeExpires
  <2>2. Types'
    BY <1>1, <2>1, Fields DEF Types, ReaderType, ReaderStates
  <2>3. card.state # "header"
    BY <1>1, <1>3 DEF WaitTimeExpires, Busy, Phase, TxHdr, InProcedure, TxRemaining,
       TxSingle, RxRemaining, InRxSingle, InSW1, InSW2
  <2>4. Phase'
    BY <1>1, <2>1, <2>3 DEF Phase, IsReset
  <2> QED
    BY <1>2, <2>2, <2>4 DEF IInv
<1>4. CASE Handed
  <2>1. IsDone
    BY <1>1, <1>4 DEF Phase, Handed
  <2>2. reader' = [state |-> "INIT", cmd |-> reader.cmd, p3 |-> reader.p3,
                   next |-> reader.next, tx |-> <<>>, threshold |-> reader.threshold,
                   ring |-> <<>>, buf |-> reader.buf]
    BY <1>1, <1>4, <2>1, Fields DEF Handed, IsDone
  <2>3. Types'
    BY <1>1, <2>1, <2>2, Fields DEF Types, ReaderType, ReaderStates
  <2>4. Phase'
    BY <1>1, <2>1, <2>2 DEF Phase, IsInit, IsDone
  <2> QED
    BY <1>2, <2>3, <2>4 DEF IInv
<1> QED
  BY <1>3, <1>4

\* After a failed exchange the card is powered off and on again.
LEMMA Reactivates ==
  ASSUME IInv, Reactivate
  PROVE  IInv'
<1>1. Types /\ Data /\ IsReset
  BY DEF IInv, Phase, Reactivate
<1>2. reader' = [state |-> "INIT", cmd |-> reader.cmd, p3 |-> reader.p3,
                 next |-> reader.next, tx |-> <<>>, threshold |-> 1,
                 ring |-> <<>>, buf |-> reader.buf]
  BY <1>1, Fields DEF Reactivate, Reactivated, IsReset
<1>3. card' = [state |-> "mute", done |-> card.done, one |-> card.one,
               got |-> card.got, sent |-> card.sent]
  BY <1>1, Fields DEF Reactivate
<1>4. Types'
  BY <1>1, <1>2, <1>3, Fields, FullAssumption
     DEF Types, ReaderType, ReaderStates, CardType, CardStates
<1>5. Total' = Total
  BY <1>2 DEF Total
<1>6. Data'
  BY <1>1, <1>2, <1>3, <1>5 DEF Data
<1>7. Phase'
  BY <1>2, <1>3 DEF Phase, IsInit
<1> QED
  BY <1>4, <1>6, <1>7 DEF IInv

\* The induction.
LEMMA Invariance == Unmixed /\ Spec => []IInv
<1> SUFFICES ASSUME Unmixed PROVE Spec => []IInv
  OBVIOUS
<1>1. IInv /\ [Next]_vars => IInv'
  BY Starts, Hears, Sends, Stops, Ends, Reactivates, Stutters DEF Next
<1> QED
  BY Begins, <1>1, PTL DEF Spec

-----------------------------------------------------------------------------
(* A card that does not ask for the last byte of a body alone. *)

NoneAlone == "last_single" \notin Ways

\* Then TX_SINGLE is left for PROCEDURE when the byte is sent.
Alone ==
  reader.state = "TX_SINGLE" => reader.tx # <<>> /\ reader.next + 1 < reader.p3

\* A byte that is no procedure byte does not lead to TX_SINGLE.
LEMMA OnlyFromProcedure ==
  ASSUME reader \in ReaderType, NEW b,
         reader.state # "PROCEDURE", reader.state # "TX_SINGLE"
  PROVE  Rx(reader, b).state # "TX_SINGLE"
<1> DEFINE Calm(r) == /\ DOMAIN r = DOMAIN reader
                      /\ r.state # "PROCEDURE" /\ r.state # "TX_SINGLE"
<1>1. \A v : /\ Calm([reader EXCEPT !.ring = v])
             /\ [reader EXCEPT !.ring = v].state = reader.state
  BY DEF ReaderType
<1>2. \A r, c : Calm(r) => Single(r, c).state # "TX_SINGLE"
  BY DEF Single, RxSingle, AwaitByte, ReaderType
<1>3. \A r : Calm(r) => Complete(r).state # "TX_SINGLE"
  BY DEF Complete, AwaitByte, ReaderType
<1> HIDE DEF Calm
<1>4. \A v : [reader EXCEPT !.ring = v].state # "TX_SINGLE"
  BY <1>1
<1> QED
  BY <1>1, <1>2, <1>3, <1>4 DEF Rx

\* The reader enters TX_SINGLE with at least two bytes to go.
LEMMA HearsAlone ==
  ASSUME IInv, Unmixed, NoneAlone, Alone, CardSends
  PROVE  Alone'
<1>1. PICK b \in MaySend : reader' = Rx(reader, b)
  BY DEF CardSends
<1>2. reader.tx = <<>> /\ reader.state # "TX_SINGLE" /\ Types
  BY DEF CardSends, Alone, IInv
<1>3. CASE reader.state = "PROCEDURE"
  <2>1. /\ Listening /\ (reader.cmd => reader.next = card.done)
        /\ card.state \in {"proc", "mute"}
    BY <1>2, <1>3 DEF IInv, Phase, InProcedure
  <2>2. b \in Bytes
    BY Ranges DEF IInv
  <2>3. reader' = Procedure(reader, b)
    BY <1>1, <1>2, <1>3, <2>1, <2>2, HeardAlone DEF Single
  <2>4. reader'.state = "TX_SINGLE" =>
          b = INSX /\ reader.cmd
          /\ reader' = [reader EXCEPT !.state = "TX_SINGLE", !.tx = NextByte(reader)]
    BY <1>2, <1>3, <2>3 DEF Procedure, AwaitByte, Types, ReaderType
  <2>5. ASSUME b = INSX, reader.cmd
        PROVE  card.done + 1 < reader.p3
    <3>1. Full \in Nat /\ NULL = Full + 1 /\ INS = Full + 2 /\ INSX = Full + 3
          /\ SW1 = Full + 4
      BY FullAssumption DEF NULL, INS, INSX, SW1
    <3>2. ~(Left = 1 /\ (reader.cmd => "last_single" \in Ways))
      BY <2>5 DEF NoneAlone
    <3>3. Left > 1
      BY <2>1, <2>5, <3>1, <3>2 DEF MaySend
    <3>4. Left = reader.p3 - card.done /\ reader.p3 \in 0..Full /\ card.done \in 0..Full
      BY <1>2, <2>5, <3>1, Fields DEF Left, Types, CardType, ReaderType
    <3> QED
      BY <3>1, <3>3, <3>4
  <2>6. \/ reader.next + 1 < reader.p3 /\ NextByte(reader) # <<>>
        \/ ~(b = INSX /\ reader.cmd)
    BY <2>1, <2>5 DEF NextByte
  <2> QED
    BY <1>2, <2>4, <2>6 DEF Alone, Types, ReaderType
<1>4. CASE reader.state # "PROCEDURE"
  BY <1>1, <1>2, <1>4, OnlyFromProcedure DEF Types, Alone
<1> QED
  BY <1>3, <1>4

\* TX_SINGLE is left when its byte is sent.
LEMMA SendsAlone ==
  ASSUME IInv, Alone, ReaderSent
  PROVE  Alone'
<1>1. reader' = [TxDone(reader) EXCEPT !.tx = <<>>] /\ reader \in ReaderType
  BY DEF ReaderSent, IInv, Types
<1>2. reader.state \in {"TX_HDR", "TX_REMAINING", "TX_SINGLE"}
  BY DEF ReaderSent, IInv, Types, ReaderType, ReaderStates, Phase, InProcedure,
     Listening, RxRemaining, InRxSingle, InSW1, InSW2, IsDone, IsInit, IsReset
<1>3. TxDone(reader).state # "TX_SINGLE" /\ DOMAIN TxDone(reader) = DOMAIN reader
  BY <1>1, <1>2 DEF Alone, TxDone, TxSingleDone, AwaitByte, ReaderType
<1>4. reader'.state # "TX_SINGLE"
  BY <1>1, <1>3
<1> QED
  BY <1>4 DEF Alone

\* The induction.
LEMMA Accompanied == Unmixed /\ NoneAlone /\ Spec => []Alone
<1> SUFFICES ASSUME Unmixed, NoneAlone PROVE Spec => []Alone
  OBVIOUS
<1>1. Init => Alone
  BY DEF Init, Alone
<1>2. IInv /\ Alone /\ [Next]_vars => Alone'
  <2> SUFFICES ASSUME IInv, Alone, [Next]_vars PROVE Alone'
    OBVIOUS
  <2>1. ASSUME UNCHANGED reader
        PROVE  Alone'
    BY <2>1 DEF Alone
  <2>2. ASSUME NEW cmd \in BOOLEAN, NEW p3 \in 0..(Full - 1), Start(cmd, p3)
        PROVE  Alone'
    BY <2>2 DEF Start, Alone, IInv, Types, ReaderType
  <2>3. ASSUME WaitTimeExpires \/ Handed \/ Reactivate
        PROVE  Alone'
    BY <2>3 DEF WaitTimeExpires, Handed, Reactivate, Reactivated, Alone, IInv, Types, ReaderType
  <2> QED
    BY <2>1, <2>2, <2>3, HearsAlone, SendsAlone DEF Next, CardStops, vars
<1> QED
  BY <1>1, <1>2, Invariance, PTL DEF Spec

-----------------------------------------------------------------------------
(* The theorems. *)

\* Every field of reader and card has its type, for any length of a transfer.
THEOREM TypeCorrect == Unmixed /\ Spec => []TypeOK
<1>1. IInv => TypeOK
  BY Fields DEF IInv, TypeOK
<1> QED
  BY <1>1, Invariance, PTL

\* A body of any length reaches the card in order and whole, whether it asks for
\* the bytes one by one or for all of them: iso7816_fsm.c:1367, 1392.
THEOREM BodyIsDelivered == Unmixed /\ Spec => []CardGetsBody
<1>1. IInv => CardGetsBody
  <2> SUFFICES ASSUME IInv PROVE CardGetsBody
    OBVIOUS
  <2>1. Types /\ Data /\ Phase /\ reader.p3 \in 0..Full /\ Full \in Nat
    BY Fields, FullAssumption DEF IInv
  <2>2. CASE reader.cmd
    <3>1. card.got = Body(card.done) /\ Total = reader.p3 /\ card.done \in 0..reader.p3
      BY <2>1, <2>2, Fields DEF Data, Total
    <3>2. SubSeq(Body(reader.p3), 1, card.done) = Body(card.done)
      BY <2>1, <3>1, BodyType DEF Body
    <3>3. SubSeq(Body(card.done), 1, card.done) = Body(card.done)
      BY <2>1, <3>1, BodyType DEF Body
    <3>4. Len(Body(card.done)) = card.done /\ Len(Body(reader.p3)) = reader.p3
      BY <2>1, <3>1, BodyType
    <3>5. IsPrefix(card.got, Body(reader.p3))
      BY <3>1, <3>2, <3>3, <3>4 DEF IsPrefix
    <3>6. reader.state = "SW1" => card.done = Total
      BY <2>1 DEF Phase, InSW1
    <3> QED
      BY <3>1, <3>5, <3>6 DEF CardGetsBody
  <2>3. CASE ~reader.cmd
    <3>1. card.got = <<>>
      BY <2>1, <2>3 DEF Data
    <3>2. Body(reader.p3) \in Seq(1..Full) /\ Len(Body(reader.p3)) \in Nat
      BY <2>1, BodyType
    <3>3. SubSeq(Body(reader.p3), 1, 0) = <<>> /\ SubSeq(<<>>, 1, 0) = <<>>
      BY <3>2
    <3>4. IsPrefix(card.got, Body(reader.p3))
      BY <3>1, <3>2, <3>3 DEF IsPrefix
    <3> QED
      BY <2>3, <3>4 DEF CardGetsBody
  <2> QED
    BY <2>2, <2>3
<1> QED
  BY <1>1, Invariance, PTL

\* What is handed to the host is all that the card sent in this exchange and
\* nothing of an earlier one: iso7816_fsm.c:1288, 1470.
THEOREM AnswerIsWhole == Unmixed /\ Spec => []HostGetsAnswer
<1>1. IInv => HostGetsAnswer
  BY DEF IInv, Phase, IsDone, Told, HostGetsAnswer
<1> QED
  BY <1>1, Invariance, PTL

\* Reader and card never both talk, and the threshold is that of the bytes the card
\* is to send: iso7816_fsm.c:1374, 1378, 1384, 1475.
THEOREM TurnsAreTaken == Unmixed /\ Spec => []TakesTurns
<1>1. IInv => TakesTurns
  <2> SUFFICES ASSUME IInv PROVE TakesTurns
    OBVIOUS
  <2>1. Types /\ Data /\ Phase
    BY DEF IInv
  <2>2. reader.tx # <<>> => card.state = CASE reader.state = "TX_HDR" -> "header"
                                           [] reader.state = "TX_REMAINING" -> "take"
                                           [] reader.state = "TX_SINGLE" -> "take1"
    BY <2>1, Fields DEF ReaderStates, Phase, TxHdr, Silent, InProcedure, TxRemaining,
       TxSingle, RxRemaining, InRxSingle, InSW1, InSW2, IsDone, IsInit, IsReset, Listening
  <2>3. ASSUME card.state = "send", Busy
        PROVE  reader.threshold = Len(reader.ring) + (IF Left = 0 THEN 1 ELSE Left)
    <3>1. Full \in Nat /\ Total \in 1..Full /\ card.done \in 0..(Full - 1)
          /\ card.done < Total /\ Left = Total - card.done
      BY <2>1, <2>3, Fields, FullAssumption DEF Data, Total, Left
    <3>2. RxRemaining \/ InRxSingle
      BY <2>1, <2>3, Fields DEF ReaderStates, Busy, Phase, TxHdr, Silent, InProcedure,
         TxRemaining, TxSingle, InSW1, InSW2
    <3>3. CASE RxRemaining
      <4>1. Len(reader.ring) = card.done /\ reader.threshold = Total
        <5>1. card.done \in 0..Full
          BY <3>1
        <5> QED
          BY <3>3, <5>1, BodyType DEF RxRemaining
      <4> QED
        BY <3>1, <4>1
    <3>4. CASE InRxSingle
      <4>1. reader.threshold = 1 /\ Len(reader.ring) = 0 /\ Total = 1
        BY <2>3, <3>4 DEF InRxSingle, Listening
      <4> QED
        BY <3>1, <4>1
    <3> QED
      BY <3>2, <3>3, <3>4
  <2>4. card.state \in {"proc", "sw2"} /\ Busy => reader.threshold = 1
    BY <2>1, Fields DEF ReaderStates, Busy, Phase, TxHdr, Silent, InProcedure, Listening,
       TxRemaining, TxSingle, RxRemaining, InRxSingle, InSW1, InSW2
  <2> QED
    BY <2>2, <2>3, <2>4 DEF TakesTurns
<1> QED
  BY <1>1, Invariance, PTL

\* The reader hears every status if no card asks for the last byte of a body alone,
\* after which the change to SW1 is refused: iso7816_fsm.c:1448, 1634.
THEOREM EveryStatusIsHeard ==
  Unmixed /\ NoneAlone /\ Spec => []StatusIsHeard
<1>1. IInv /\ Alone => StatusIsHeard
  <2> SUFFICES ASSUME IInv, Alone, card.state = "sw2", Busy PROVE reader.state = "SW2"
    BY DEF StatusIsHeard
  <2>1. Types /\ Phase /\ reader.state \in ReaderStates
    BY Fields DEF IInv
  <2>2. reader.state # "TX_SINGLE"
    BY <2>1 DEF Alone, Phase, TxSingle, Listening
  <2> QED
    BY <2>1, <2>2 DEF ReaderStates, Busy, Phase, TxHdr, Silent, InProcedure,
       TxRemaining, RxRemaining, InRxSingle, InSW1
<1> QED
  BY <1>1, Invariance, Accompanied, PTL

=============================================================================
