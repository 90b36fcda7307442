--------------------------- MODULE AtrParserProofs ----------------------------
(***************************************************************************)
(* Theorems of AtrParser, for a buffer of every size and for cards of      *)
(* every number of interface bytes, protocols and historical bytes.        *)
(*                                                                         *)
(* The parser of iso7816_fsm.c keeps no plan of the ATR: a state, the y    *)
(* bits of the last T0 or TD, a count and the protocols seen. The          *)
(* invariant says that these suffice: in every state what the parser       *)
(* expects is exactly what the card has left to send.                      *)
(***************************************************************************)
EXTENDS AtrParser, DataInduction

\* The roles a byte of a card has in its ATR; the parser does not see them.
Roles == {"TS", "T0", "TA", "TB", "TC", "TD", "H", "TCK", "garbled"}

\* The bytes a card sends, in either convention.
Bytes == [role : Roles, y : SUBSET (1..4), n : Nat]

\* A group of interface bytes, and the protocol its TD announced.
Group == [t : Protocols \cup {0}, y : Ys]

\* The groups a card may have: the first belongs to no TD byte.
CardGroups == {gs \in Seq(Group) : gs # <<>> /\ gs[1].t = 0
                                   /\ \A i \in 2..Len(gs) : gs[i].t \in Protocols}

\* What follows the last group: k historical bytes, and TCK if it is there.
Hist(k) == [i \in 1..k |-> Byte("H", {}, 0)]

Tck(gs) == When(\E i \in 1..Len(gs) : gs[i].t # 0, Byte("TCK", {}, 0))

Closing(gs, k) == Hist(k) \o Tck(gs)

\* The interface bytes of group g, each a sequence of at most one.
TA(gs, g) == When(1 \in gs[g].y, Byte("TA", {}, 0))
TB(gs, g) == When(2 \in gs[g].y, Byte("TB", {}, 0))
TC(gs, g) == When(3 \in gs[g].y, Byte("TC", {}, 0))
TDByte(gs, g) == Byte("TD", IF g < Len(gs) THEN Announced(gs, g + 1) ELSE {},
                            IF g < Len(gs) THEN gs[g + 1].t ELSE 0)
TD(gs, g) == When(g < Len(gs), TDByte(gs, g))

\* The interface bytes of group g from TA, TB, TC, TD, and after TD.
From(gs, g) ==
  <<TA(gs, g) \o TB(gs, g) \o TC(gs, g) \o TD(gs, g),
    TB(gs, g) \o TC(gs, g) \o TD(gs, g),
    TC(gs, g) \o TD(gs, g),
    TD(gs, g),
    <<>> >>

\* The interface byte j of group g where it is announced.
IByte(gs, g, j) == <<Byte("TA", {}, 0), Byte("TB", {}, 0), Byte("TC", {}, 0), TDByte(gs, g)>>[j]

\* rest[g] is what the card sends from group g to the end of the ATR.
IsRest(rest, gs, k) ==
  /\ rest \in [1..Len(gs)+1 -> Seq(Bytes)]
  /\ rest[Len(gs)+1] = Closing(gs, k)
  /\ \A i \in 1..Len(gs) : rest[i] = Interface(gs, i) \o rest[i+1]

-----------------------------------------------------------------------------
(* The ATR of a card, byte by byte. *)

\* A byte of a card has the type of one.
LEMMA ByteType ==
  ASSUME NEW role \in Roles, NEW y \in SUBSET (1..4), NEW n \in Nat
  PROVE  Byte(role, y, n) \in Bytes
  BY DEF Byte, Bytes

\* A group announces TD exactly if it is not the last.
LEMMA GroupTypes ==
  ASSUME NEW gs \in CardGroups, NEW i \in 1..Len(gs)
  PROVE  /\ Len(gs) \in Nat \ {0}
         /\ gs[i].y \subseteq 1..3
         /\ Announced(gs, i) \in SUBSET (1..4)
         /\ 4 \in Announced(gs, i) <=> i < Len(gs)
         /\ gs[i].t \in Nat
<1>1. gs \in Seq(Group) /\ gs # <<>>
  BY DEF CardGroups
<1>2. gs[i] \in Group /\ Len(gs) \in Nat \ {0}
  BY <1>1
<1>3. gs[i].y \in Ys /\ gs[i].t \in Nat
  <2>1. gs[i].y \in Ys /\ gs[i].t \in Protocols \cup {0}
    BY <1>2 DEF Group
  <2>2. \A p \in Protocols \cup {0} : p \in Nat
    BY ProtocolAssumption
  <2> QED BY <2>1, <2>2, Zenon
<1>4. gs[i].y \subseteq 1..3
  BY <1>3, YAssumption
<1> QED BY <1>2, <1>3, <1>4 DEF Announced

\* The interface bytes of a group are bytes, TA, TB, TC and TD in this order.
LEMMA InterfaceTypes ==
  ASSUME NEW gs \in CardGroups, NEW g \in 1..Len(gs)
  PROVE  /\ TDByte(gs, g) \in Bytes
         /\ TA(gs, g) \in Seq(Bytes) /\ TB(gs, g) \in Seq(Bytes)
         /\ TC(gs, g) \in Seq(Bytes) /\ TD(gs, g) \in Seq(Bytes)
         /\ Interface(gs, g) \in Seq(Bytes)
         /\ Interface(gs, g) = From(gs, g)[1]
<1>1. Byte("TA", {}, 0) \in Bytes /\ Byte("TB", {}, 0) \in Bytes /\ Byte("TC", {}, 0) \in Bytes
  BY DEF Byte, Bytes, Roles
<1>2. TDByte(gs, g) \in Bytes
  <2>1. CASE g < Len(gs)
    <3>1. g + 1 \in 1..Len(gs)
      BY <2>1
    <3>2. Announced(gs, g+1) \in SUBSET (1..4) /\ gs[g+1].t \in Nat
      BY <3>1, GroupTypes
    <3> QED BY <3>2, <2>1, ByteType DEF TDByte, Roles
  <2>2. CASE ~ (g < Len(gs))
    BY <2>2, ByteType DEF TDByte, Roles
  <2> QED BY <2>1, <2>2
<1>3. /\ TA(gs, g) \in Seq(Bytes) /\ TB(gs, g) \in Seq(Bytes)
      /\ TC(gs, g) \in Seq(Bytes) /\ TD(gs, g) \in Seq(Bytes)
  <2> HIDE DEF Byte, TDByte, Bytes
  <2> QED BY <1>1, <1>2 DEF TA, TB, TC, TD, When
<1>4. Interface(gs, g) = TA(gs, g) \o TB(gs, g) \o TC(gs, g) \o TD(gs, g)
  BY DEF Interface, TA, TB, TC, TD, TDByte
<1>5. TA(gs, g) \o TB(gs, g) \o TC(gs, g) \o TD(gs, g) \in Seq(Bytes)
  BY <1>3
<1> QED BY <1>2, <1>3, <1>4, <1>5 DEF From

\* From byte j on, group g is byte j if it is announced, and what comes after.
LEMMA FromUnfolds ==
  ASSUME NEW gs \in CardGroups, NEW g \in 1..Len(gs)
  PROVE  /\ \A j \in 1..5 : From(gs, g)[j] \in Seq(Bytes)
         /\ From(gs, g)[5] = <<>>
         /\ \A j \in 1..4 : IByte(gs, g, j) \in Bytes
         /\ \A j \in 1..4 : j \in Announced(gs, g) =>
              From(gs, g)[j] = <<IByte(gs, g, j)>> \o From(gs, g)[j+1]
         /\ \A j \in 1..4 : j \notin Announced(gs, g) => From(gs, g)[j] = From(gs, g)[j+1]
<1> DEFINE A == TA(gs, g)
           B == TB(gs, g)
           C == TC(gs, g)
           D == TD(gs, g)
<1>1. A \in Seq(Bytes) /\ B \in Seq(Bytes) /\ C \in Seq(Bytes) /\ D \in Seq(Bytes)
  BY InterfaceTypes
<1>2. /\ From(gs, g)[1] = A \o B \o C \o D /\ From(gs, g)[2] = B \o C \o D
      /\ From(gs, g)[3] = C \o D /\ From(gs, g)[4] = D /\ From(gs, g)[5] = <<>>
  BY DEF From
<1>3. /\ IByte(gs, g, 1) = Byte("TA", {}, 0) /\ IByte(gs, g, 2) = Byte("TB", {}, 0)
      /\ IByte(gs, g, 3) = Byte("TC", {}, 0) /\ IByte(gs, g, 4) = TDByte(gs, g)
  BY DEF IByte
<1>4. \A j \in 1..4 : IByte(gs, g, j) \in Bytes
  <2>1. Byte("TA", {}, 0) \in Bytes /\ Byte("TB", {}, 0) \in Bytes /\ Byte("TC", {}, 0) \in Bytes
    BY DEF Byte, Bytes, Roles
  <2> QED BY <1>3, <2>1, InterfaceTypes
<1>5. /\ A = IF 1 \in Announced(gs, g) THEN <<IByte(gs, g, 1)>> ELSE <<>>
      /\ B = IF 2 \in Announced(gs, g) THEN <<IByte(gs, g, 2)>> ELSE <<>>
      /\ C = IF 3 \in Announced(gs, g) THEN <<IByte(gs, g, 3)>> ELSE <<>>
      /\ D = IF 4 \in Announced(gs, g) THEN <<IByte(gs, g, 4)>> ELSE <<>>
  <2>1. /\ 1 \in Announced(gs, g) <=> 1 \in gs[g].y
        /\ 2 \in Announced(gs, g) <=> 2 \in gs[g].y
        /\ 3 \in Announced(gs, g) <=> 3 \in gs[g].y
    BY DEF Announced
  <2>2. 4 \in Announced(gs, g) <=> g < Len(gs)
    BY GroupTypes
  <2> QED BY <1>3, <2>1, <2>2 DEF TA, TB, TC, TD, When
<1> HIDE DEF A, B, C, D
<1>6. /\ A \o B \o C \o D = A \o (B \o C \o D)
      /\ B \o C \o D = B \o (C \o D)
      /\ D = D \o <<>>
      /\ A \o B \o C \o D \in Seq(Bytes) /\ B \o C \o D \in Seq(Bytes) /\ C \o D \in Seq(Bytes)
      /\ \A q \in Seq(Bytes) : <<>> \o q = q
  <2>1. /\ A \o B \o C \o D = A \o (B \o C \o D)
        /\ A \o B \o C \o D \in Seq(Bytes)
    BY <1>1
  <2>2. B \o C \o D = B \o (C \o D) /\ B \o C \o D \in Seq(Bytes)
    BY <1>1
  <2>3. D = D \o <<>> /\ C \o D \in Seq(Bytes)
    BY <1>1
  <2>4. \A q \in Seq(Bytes) : <<>> \o q = q
    OBVIOUS
  <2> QED BY <2>1, <2>2, <2>3, <2>4, Zenon
<1>7. <<>> \in Seq(Bytes)
  OBVIOUS
<1>8. /\ From(gs, g)[1] = A \o From(gs, g)[2] /\ From(gs, g)[2] = B \o From(gs, g)[3]
      /\ From(gs, g)[3] = C \o From(gs, g)[4] /\ From(gs, g)[4] = D \o From(gs, g)[5]
  BY <1>2, <1>6, Zenon
<1>9. \A j \in 1..5 : From(gs, g)[j] \in Seq(Bytes)
  <2>1. \A j \in 1..5 : j = 1 \/ j = 2 \/ j = 3 \/ j = 4 \/ j = 5
    OBVIOUS
  <2> QED BY <1>1, <1>2, <1>6, <1>7, <2>1, Zenon
<1>10. ASSUME NEW j \in 1..4
       PROVE  From(gs, g)[j] = IF j \in Announced(gs, g)
                               THEN <<IByte(gs, g, j)>> \o From(gs, g)[j+1]
                               ELSE From(gs, g)[j+1]
  <2>1. /\ From(gs, g)[2] \in Seq(Bytes) /\ From(gs, g)[3] \in Seq(Bytes)
        /\ From(gs, g)[4] \in Seq(Bytes) /\ From(gs, g)[5] \in Seq(Bytes)
    BY <1>9
  <2>2. CASE j = 1
    <3>1. j + 1 = 2
      BY <2>2
    <3> QED BY <3>1, <2>2, <2>1, <1>5, <1>6, <1>8, Zenon
  <2>3. CASE j = 2
    <3>1. j + 1 = 3
      BY <2>3
    <3> QED BY <3>1, <2>3, <2>1, <1>5, <1>6, <1>8, Zenon
  <2>4. CASE j = 3
    <3>1. j + 1 = 4
      BY <2>4
    <3> QED BY <3>1, <2>4, <2>1, <1>5, <1>6, <1>8, Zenon
  <2>5. CASE j = 4
    <3>1. j + 1 = 5
      BY <2>5
    <3> QED BY <3>1, <2>5, <2>1, <1>5, <1>6, <1>8, Zenon
  <2> QED BY <2>2, <2>3, <2>4, <2>5
<1> QED BY <1>2, <1>4, <1>9, <1>10, Zenon

\* The bytes after the last group are bytes.
LEMMA ClosingType ==
  ASSUME NEW gs, NEW k \in Nat
  PROVE  /\ Hist(k) \in Seq(Bytes) /\ Tck(gs) \in Seq(Bytes)
         /\ Closing(gs, k) \in Seq(Bytes)
         /\ Len(Hist(k)) = k
<1>1. Byte("H", {}, 0) \in Bytes /\ Byte("TCK", {}, 0) \in Bytes
  BY DEF Byte, Bytes, Roles
<1> HIDE DEF Byte, Bytes
<1>2. Hist(k) \in Seq(Bytes)
  BY <1>1 DEF Hist
<1>3. Tck(gs) \in Seq(Bytes)
  BY <1>1 DEF Tck, When
<1>4. Len(Hist(k)) = k
  BY DEF Hist
<1> HIDE DEF Hist, Tck
<1> QED BY <1>2, <1>3, <1>4 DEF Closing

\* The rests of an ATR are defined from the last group back to the first.
LEMMA RestExists ==
  ASSUME NEW gs \in CardGroups, NEW k \in Nat
  PROVE  \E rest : IsRest(rest, gs, k)
<1> DEFINE n == Len(gs)
           step == [i \in 1..n |-> [q \in Seq(Bytes) |-> Interface(gs, n+1-i) \o q]]
<1>1. n \in Nat \ {0}
  BY DEF CardGroups
<1>2. \A i \in 1..n : Interface(gs, i) \in Seq(Bytes)
  BY InterfaceTypes
<1> HIDE DEF n
<1>3. step \in [1..n -> [Seq(Bytes) -> Seq(Bytes)]]
  <2> SUFFICES ASSUME NEW i \in 1..n, NEW q \in Seq(Bytes)
               PROVE  Interface(gs, n+1-i) \o q \in Seq(Bytes)
    OBVIOUS
  <2>1. n+1-i \in 1..n
    BY <1>1
  <2> QED BY <2>1, <1>2
<1>4. Closing(gs, k) \in Seq(Bytes)
  BY ClosingType
<1>5. PICK f : Follows(f, n, Seq(Bytes), Closing(gs, k), step)
  <2>1. Steps(n, Seq(Bytes), Closing(gs, k), step)
    <3> HIDE DEF step
    <3> QED BY <1>1, <1>3, <1>4 DEF Steps
  <2> HIDE DEF step
  <2> QED BY <2>1, FiniteRecursion, Zenon
<1>6. /\ f \in [0..n -> Seq(Bytes)] /\ f[0] = Closing(gs, k)
      /\ \A i \in 1..n : f[i] = step[i][f[i-1]]
  BY <1>5 DEF Follows
<1> DEFINE rest == [i \in 1..n+1 |-> f[n+1-i]]
<1>7. rest \in [1..n+1 -> Seq(Bytes)]
  BY <1>1, <1>6
<1>8. rest[n+1] = Closing(gs, k)
  BY <1>1, <1>6
<1>9. ASSUME NEW i \in 1..n PROVE rest[i] = Interface(gs, i) \o rest[i+1]
  <2>1. n+1-i \in 1..n /\ (n+1-i)-1 \in 0..n /\ n+1-(i+1) = (n+1-i)-1 /\ n+1-(n+1-i) = i
    BY <1>1
  <2>2. rest[i] = f[n+1-i] /\ rest[i+1] = f[(n+1-i)-1]
    <3>1. i \in 1..n+1 /\ i+1 \in 1..n+1
      BY <1>1
    <3>2. rest[i] = f[n+1-i] /\ rest[i+1] = f[n+1-(i+1)]
      BY <3>1
    <3> QED BY <2>1, <3>2
  <2>3. f[n+1-i] = step[n+1-i][f[(n+1-i)-1]]
    BY <2>1, <1>6
  <2>4. f[(n+1-i)-1] \in Seq(Bytes)
    BY <2>1, <1>6
  <2>5. \A m \in 1..n : \A q \in Seq(Bytes) : step[m][q] = Interface(gs, n+1-m) \o q
    OBVIOUS
  <2> HIDE DEF step
  <2>6. step[n+1-i][f[(n+1-i)-1]] = Interface(gs, n+1-(n+1-i)) \o f[(n+1-i)-1]
    BY <2>1, <2>4, <2>5, Zenon
  <2> QED BY <2>1, <2>2, <2>3, <2>6, Zenon
<1>10. IsRest(rest, gs, k)
  <2> HIDE DEF rest
  <2> QED BY <1>7, <1>8, <1>9 DEF IsRest, n
<1> QED BY <1>10

\* An ATR is TS, T0 and the rest from the first group on: Atr's FlattenSeq.
LEMMA AtrUnfolds ==
  ASSUME NEW gs \in CardGroups, NEW k \in Nat, NEW rest, IsRest(rest, gs, k)
  PROVE  /\ rest[1] \in Seq(Bytes)
         /\ Byte("T0", Announced(gs, 1), k) \in Bytes
         /\ Atr(gs, k) = <<Byte("TS", {}, 0)>> \o (<<Byte("T0", Announced(gs, 1), k)>> \o rest[1])
<1> DEFINE n == Len(gs)
           seqs == [i \in 1..n |-> Interface(gs, i)]
<1>1. n \in Nat \ {0} /\ 1 \in 1..n /\ 1 \in 1..n+1 /\ n+1 \in 1..n+1
  BY DEF CardGroups
<1>2. AreSuffixes(rest, seqs, n, Bytes)
  <2>1. seqs \in [1..n -> Seq(Bytes)]
    BY InterfaceTypes
  <2>2. \A i \in 1..n : rest[i] = seqs[i] \o rest[i+1]
    BY DEF IsRest
  <2>3. rest \in [1..n+1 -> Seq(Bytes)]
    BY DEF IsRest
  <2> HIDE DEF n, seqs
  <2> QED BY <1>1, <2>1, <2>2, <2>3 DEF AreSuffixes
<1>3. FlattenSeq(seqs) \in Seq(Bytes) /\ FlattenSeq(seqs) \o rest[n+1] = rest[1]
  <2> HIDE DEF n, seqs
  <2> QED BY <1>2, FlattenSuffixes, Zenon
<1>4. rest[n+1] = Hist(k) \o Tck(gs)
  BY DEF IsRest, Closing
<1>5. rest[1] \in Seq(Bytes)
  <2>1. rest \in [1..n+1 -> Seq(Bytes)]
    BY DEF IsRest
  <2> HIDE DEF n
  <2> QED BY <2>1, <1>1
<1>6. Byte("T0", Announced(gs, 1), k) \in Bytes /\ Byte("TS", {}, 0) \in Bytes
  <2>1. Announced(gs, 1) \in SUBSET (1..4)
    BY <1>1, GroupTypes
  <2> QED BY <2>1, ByteType DEF Roles
<1> DEFINE ts == Byte("TS", {}, 0)
           t0 == Byte("T0", Announced(gs, 1), k)
           flat == FlattenSeq(seqs)
           h == Hist(k)
           t == Tck(gs)
<1>7. Atr(gs, k) = <<ts, t0>> \o flat \o h \o t
  BY DEF Atr, Hist, Tck
<1>8. ts \in Bytes /\ t0 \in Bytes /\ flat \in Seq(Bytes) /\ h \in Seq(Bytes) /\ t \in Seq(Bytes)
  BY <1>6, <1>3, ClosingType
<1>9. rest[1] = flat \o (h \o t)
  BY <1>3, <1>4, Zenon
<1> HIDE DEF ts, t0, flat, h, t, n, seqs, Bytes
<1>10. <<ts, t0>> \o flat \o h \o t = <<ts>> \o (<<t0>> \o (flat \o (h \o t)))
  <2>1. <<ts, t0>> \o flat \o h = <<ts, t0>> \o (flat \o h) /\ flat \o h \in Seq(Bytes)
    BY <1>8
  <2>2. flat \o h \o t = flat \o (h \o t) /\ flat \o (h \o t) \in Seq(Bytes)
    BY <1>8
  <2>3. <<ts, t0>> \o (flat \o h) \o t = <<ts, t0>> \o (flat \o h \o t)
    BY <1>8, <2>1
  <2>4. \A q \in Seq(Bytes) : <<ts, t0>> \o q = <<ts>> \o (<<t0>> \o q)
    <3>0. <<ts, t0>> = <<ts>> \o <<t0>>
      BY <1>8, PairIsConcat, Zenon
    <3>1. <<ts>> \in Seq(Bytes) /\ <<t0>> \in Seq(Bytes)
      BY <1>8
    <3>2. \A q \in Seq(Bytes) : (<<ts>> \o <<t0>>) \o q = <<ts>> \o (<<t0>> \o q)
      BY <3>1
    <3> QED BY <3>0, <3>2, Zenon
  <2> QED BY <2>1, <2>2, <2>3, <2>4, Zenon
<1>11. Atr(gs, k) = <<ts>> \o (<<t0>> \o rest[1])
  BY <1>7, <1>9, <1>10, Zenon
<1> QED BY <1>5, <1>6, <1>11 DEF ts, t0

-----------------------------------------------------------------------------
(* What the parser expects. *)

\* What atr_fsm_priv, and the card, may hold.
ReaderType == [state : States, hist : 0..MaxHist, y : SUBSET (1..4),
               protocols : SUBSET Protocols, atr : Seq(Bytes), convert : BOOLEAN]

CardType == [atr : Seq(Bytes), sent : Nat, inverse : BOOLEAN]

\* The protocols announced by the TD bytes up to the one before group g.
Seen(gs, g) == {gs[i].t : i \in 2..g}

\* Before byte j of group g: the interface bytes from j on are expected.
AtInterface(r, gs, k, rest, left, g, j) ==
  /\ r.state = WaitState[j] /\ j \in Announced(gs, g)
  /\ r.y = Announced(gs, g) /\ r.hist = k /\ r.protocols = Seen(gs, g)
  /\ left = From(gs, g)[j] \o rest[g+1]

\* What the ATR FSM expects is what the card has left to send.
Expected(r, gs, k, rest, left) ==
  \/ r.state = "WAIT_TS" /\ r.protocols = {} /\ left = Atr(gs, k)
  \/ /\ r.state = "WAIT_T0" /\ r.protocols = {}
     /\ left = <<Byte("T0", Announced(gs, 1), k)>> \o rest[1]
  \/ \E g \in 1..Len(gs), j \in 1..4 : AtInterface(r, gs, k, rest, left, g, j)
  \/ /\ r.state = "WAIT_HIST" /\ r.hist > 0 /\ r.protocols = Seen(gs, Len(gs))
     /\ left = Hist(r.hist) \o Tck(gs)
  \/ r.state = "WAIT_TCK" /\ left = Tck(gs)

\* The ATR FSM, after a byte read in r, reports the ATR if nothing is left and
\* expects what is left otherwise.
Outcome(a, r, gs, k, rest, left) ==
  /\ a.fsm \in ReaderType /\ a.fsm.atr = r.atr /\ a.fsm.convert = r.convert
  /\ a.fsm.state # "WAIT_TS"
  /\ a.done \in BOOLEAN
  /\ a.done => left = <<>>
  /\ ~a.done => left # <<>> /\ Expected(a.fsm, gs, k, rest, left)

\* The bytes a group does not announce are not sent: the next one is the least
\* announced, as the falling cases of atr_wait_tX_action have it.
LEMMA SkipsUnannounced ==
  ASSUME NEW gs \in CardGroups, NEW g \in 1..Len(gs), NEW i \in 0..4
  PROVE  /\ (\A j \in Announced(gs, g) : j <= i) => From(gs, g)[i+1] = <<>>
         /\ \A m \in Announced(gs, g) :
              m > i /\ (\A j \in Announced(gs, g) : j > i => m <= j)
                => From(gs, g)[i+1] = From(gs, g)[m]
<1> DEFINE A == Announced(gs, g)
           F(j) == From(gs, g)[j]
<1>1. A \in SUBSET (1..4)
  BY GroupTypes
<1>2. \A j \in 1..4 : j \notin A => F(j) = F(j+1)
  BY FromUnfolds
<1>3. F(5) = <<>>
  BY FromUnfolds
<1> HIDE DEF A, F
<1>4. /\ 1 \notin A => F(1) = F(2)
      /\ 2 \notin A => F(2) = F(3)
      /\ 3 \notin A => F(3) = F(4)
      /\ 4 \notin A => F(4) = F(5)
  BY <1>2
<1>5. i = 0 \/ i = 1 \/ i = 2 \/ i = 3 \/ i = 4
  OBVIOUS
<1>6. (\A j \in A : j <= i) => F(i+1) = F(5)
  <2> SUFFICES ASSUME \A j \in A : j <= i PROVE F(i+1) = F(5)
    OBVIOUS
  <2>1. /\ i < 1 => 1 \notin A
        /\ i < 2 => 2 \notin A
        /\ i < 3 => 3 \notin A
        /\ i < 4 => 4 \notin A
    OBVIOUS
  <2>2. CASE i = 0
    BY <2>1, <2>2, <1>4
  <2>3. CASE i = 1
    BY <2>1, <2>3, <1>4
  <2>4. CASE i = 2
    BY <2>1, <2>4, <1>4
  <2>5. CASE i = 3
    BY <2>1, <2>5, <1>4
  <2>6. CASE i = 4
    BY <2>6
  <2> QED BY <1>5, <2>2, <2>3, <2>4, <2>5, <2>6
<1>7. ASSUME NEW m \in A, m > i, \A j \in A : j > i => m <= j
      PROVE  F(i+1) = F(m)
  <2>1. m = 1 \/ m = 2 \/ m = 3 \/ m = 4
    BY <1>1
  <2>2. /\ i < 1 /\ 1 < m => 1 \notin A
        /\ i < 2 /\ 2 < m => 2 \notin A
        /\ i < 3 /\ 3 < m => 3 \notin A
    <3>1. \A j \in A : i < j /\ j < m => FALSE
      BY <1>1, <1>7, <2>1
    <3> QED BY <3>1
  <2>3. CASE i = 0
    <3>1. i + 1 = 1
      BY <2>3
    <3> QED BY <2>1, <2>2, <2>3, <3>1, <1>4
  <2>4. CASE i = 1
    <3>1. i + 1 = 2
      BY <2>4
    <3> QED BY <2>1, <2>2, <2>4, <3>1, <1>4, <1>7
  <2>5. CASE i = 2
    <3>1. i + 1 = 3
      BY <2>5
    <3> QED BY <2>1, <2>2, <2>5, <3>1, <1>4, <1>7
  <2>6. CASE i = 3
    <3>1. i + 1 = 4
      BY <2>6
    <3> QED BY <2>1, <2>6, <3>1, <1>7
  <2>7. CASE i = 4
    BY <2>7, <2>1, <1>7
  <2> QED BY <1>5, <2>3, <2>4, <2>5, <2>6, <2>7
<1> QED BY <1>3, <1>6, <1>7 DEF A, F

\* protocol_support > 1 exactly if the grammar has a TCK.
LEMMA TckAnnounced ==
  ASSUME NEW gs \in CardGroups, NEW r, r.protocols = Seen(gs, Len(gs))
  PROVE  /\ HasTck(r) => Tck(gs) = <<Byte("TCK", {}, 0)>>
         /\ ~HasTck(r) => Tck(gs) = <<>>
<1>1. Len(gs) \in Nat \ {0} /\ gs[1].t = 0
  BY DEF CardGroups
<1>2. HasTck(r) <=> \E i \in 1..Len(gs) : gs[i].t # 0
  <2>1. HasTck(r) <=> \E i \in 2..Len(gs) : gs[i].t # 0
    BY DEF HasTck, Seen
  <2> QED BY <2>1, <1>1
<1> QED BY <1>2 DEF Tck, When

\* Once the historical bytes are read, TCK is expected if and only if it comes.
LEMMA AfterHistExpected ==
  ASSUME NEW gs \in CardGroups, NEW k, NEW rest, NEW r \in ReaderType,
         r.protocols = Seen(gs, Len(gs)), r.state # "WAIT_TS"
  PROVE  Outcome(AfterHist(r), r, gs, k, rest, Tck(gs))
<1>1. CASE HasTck(r)
  <2>1. AfterHist(r) = [fsm |-> [r EXCEPT !.state = "WAIT_TCK"], done |-> FALSE]
    BY <1>1 DEF AfterHist, Going
  <2> DEFINE f == [r EXCEPT !.state = "WAIT_TCK"]
  <2>2. /\ f \in ReaderType /\ f.atr = r.atr /\ f.convert = r.convert
        /\ f.state = "WAIT_TCK"
    BY DEF ReaderType, States
  <2>3. Tck(gs) # <<>>
    BY <1>1, TckAnnounced
  <2>4. Expected(f, gs, k, rest, Tck(gs))
    BY <2>2 DEF Expected
  <2>5. AfterHist(r).fsm = f /\ AfterHist(r).done = FALSE
    BY <2>1
  <2> HIDE DEF f
  <2> QED BY <2>2, <2>3, <2>4, <2>5 DEF Outcome
<1>2. CASE ~HasTck(r)
  <2> DEFINE f == [r EXCEPT !.state = IF @ \in {"WAIT_HIST", "WAIT_TCK"} THEN "DONE" ELSE @]
  <2>1. AfterHist(r) = [fsm |-> f, done |-> TRUE]
    BY <1>2 DEF AfterHist, Finished
  <2>2. f \in ReaderType /\ f.atr = r.atr /\ f.convert = r.convert /\ f.state # "WAIT_TS"
    BY DEF ReaderType, States
  <2>3. Tck(gs) = <<>>
    BY <1>2, TckAnnounced
  <2>5. AfterHist(r).fsm = f /\ AfterHist(r).done = TRUE
    BY <2>1
  <2> HIDE DEF f
  <2> QED BY <2>2, <2>3, <2>5 DEF Outcome
<1> QED BY <1>1, <1>2

\* k + 1 historical bytes are one and k more.
LEMMA HistUnfolds ==
  ASSUME NEW h \in Nat
  PROVE  /\ Hist(0) = <<>>
         /\ Hist(h+1) = <<Byte("H", {}, 0)>> \o Hist(h)
<1> DEFINE b == Byte("H", {}, 0)
<1>1. b \in Bytes
  BY DEF Byte, Bytes, Roles
<1>2. Hist(0) = [i \in 1..0 |-> b] /\ Hist(h) = [i \in 1..h |-> b]
      /\ Hist(h+1) = [i \in 1..h+1 |-> b]
  BY DEF Hist
<1> HIDE DEF b, Bytes
<1>3. [i \in 1..0 |-> b] = <<>>
  OBVIOUS
<1>4. [i \in 1..h+1 |-> b] = <<b>> \o [i \in 1..h |-> b]
  <2> DEFINE p == [i \in 1..h+1 |-> b]
             q == <<b>> \o [i \in 1..h |-> b]
  <2>1. p \in Seq(Bytes) /\ q \in Seq(Bytes)
    BY <1>1
  <2>2. Len(p) = h + 1 /\ Len(q) = h + 1
    BY <1>1
  <2>3. \A i \in 1..h+1 : p[i] = q[i]
    BY <1>1
  <2> HIDE DEF p, q
  <2>4. p = q
    BY <2>1, <2>2, <2>3, SeqEqual
  <2> QED BY <2>4 DEF p, q
<1> QED BY <1>2, <1>3, <1>4 DEF b

\* After the interface byte i of group g the next announced one is expected,
\* or the bytes after the last group.
LEMMA AfterInterfaceExpected ==
  ASSUME NEW gs \in CardGroups, NEW k \in 0..MaxHist, NEW rest, IsRest(rest, gs, k),
         NEW g \in 1..Len(gs), NEW i \in 0..3, NEW r \in ReaderType,
         r.y = Announced(gs, g), r.hist = k, r.protocols = Seen(gs, g), r.state # "WAIT_TS",
         NEW left, left = From(gs, g)[i+1] \o rest[g+1]
  PROVE  Outcome(AfterInterface(r, i), r, gs, k, rest, left)
<1> DEFINE next == {j \in r.y : j > i}
<1>0. k \in Nat
  BY BoundAssumption
<1>1. r.y \in SUBSET (1..4) /\ (4 \in r.y <=> g < Len(gs)) /\ Len(gs) \in Nat \ {0}
  BY GroupTypes
<1>2. rest[g+1] \in Seq(Bytes)
  <2>1. g+1 \in 1..Len(gs)+1
    BY <1>1
  <2> QED BY <2>1 DEF IsRest
<1>3. CASE next # {}
  <2> DEFINE m == Min(next)
             f == [r EXCEPT !.state = WaitState[m]]
  <2>1. m \in next /\ \A j \in next : m <= j
    <3>1. next \in SUBSET Nat
      BY <1>1
    <3>2. \E x \in next : \A y \in next : x <= y
      <4> HIDE DEF next
      <4> QED BY <1>3, <3>1, LeastElement
    <3> QED BY <3>2 DEF Min
  <2>2. AfterInterface(r, i) = [fsm |-> f, done |-> FALSE]
    BY <1>3, Zenon DEF AfterInterface, Going
  <2> HIDE DEF m
  <2>3. m \in 1..4 /\ m \in Announced(gs, g) /\ m > i
    BY <2>1, <1>1
  <2>4. WaitState[m] \in States /\ WaitState[m] # "WAIT_TS"
    BY <2>3 DEF WaitState, States
  <2>5. /\ f \in ReaderType /\ f.atr = r.atr /\ f.convert = r.convert /\ f.y = r.y
        /\ f.hist = r.hist /\ f.protocols = r.protocols /\ f.state = WaitState[m]
    BY <2>4 DEF ReaderType
  <2>6. From(gs, g)[i+1] = From(gs, g)[m]
    <3>1. \A j \in Announced(gs, g) : j > i => m <= j
      BY <2>1
    <3>2. i \in 0..4
      OBVIOUS
    <3> QED BY <3>1, <3>2, <2>3, SkipsUnannounced, Zenon
  <2>7. left # <<>>
    <3>1. /\ From(gs, g)[m] = <<IByte(gs, g, m)>> \o From(gs, g)[m+1]
          /\ IByte(gs, g, m) \in Bytes
      BY <2>3, FromUnfolds
    <3>2. From(gs, g)[m+1] \in Seq(Bytes)
      <4>1. m + 1 \in 1..5
        BY <2>3
      <4> QED BY <4>1, FromUnfolds
    <3> DEFINE b == IByte(gs, g, m)
               q == From(gs, g)[m+1]
               t == rest[g+1]
    <3>3. b \in Bytes /\ q \in Seq(Bytes) /\ t \in Seq(Bytes)
      BY <3>1, <3>2, <1>2
    <3>4. left = (<<b>> \o q) \o t
      BY <3>1, <2>6, Zenon
    <3> HIDE DEF b, q, t, Bytes
    <3>5. Len((<<b>> \o q) \o t) > 0
      BY <3>3
    <3> QED BY <3>4, <3>5
  <2>8. AtInterface(f, gs, k, rest, left, g, m)
    <3> HIDE DEF f
    <3> QED BY <2>3, <2>5, <2>6, Zenon DEF AtInterface
  <2>9. AfterInterface(r, i).fsm = f /\ AfterInterface(r, i).done = FALSE
    BY <2>2
  <2> HIDE DEF f
  <2>10. Expected(f, gs, k, rest, left)
    BY <2>3, <2>8, Zenon DEF Expected
  <2> QED BY <2>4, <2>5, <2>7, <2>9, <2>10 DEF Outcome
<1>4. CASE next = {}
  <2>1. \A j \in Announced(gs, g) : j <= i
    BY <1>4, <1>1
  <2>2. From(gs, g)[i+1] = <<>>
    BY <2>1, SkipsUnannounced
  <2>3. left = rest[g+1]
    BY <2>2, <1>2
  <2>4. g = Len(gs)
    <3>1. 4 \notin r.y
      BY <1>4
    <3> QED BY <3>1, <1>1
  <2>5. left = Hist(k) \o Tck(gs)
    BY <2>3, <2>4 DEF IsRest, Closing
  <2>6. r.protocols = Seen(gs, Len(gs))
    BY <2>4
  <2>7. CASE k > 0
    <3> DEFINE f == [r EXCEPT !.state = "WAIT_HIST"]
    <3>1. AfterInterface(r, i) = [fsm |-> f, done |-> FALSE]
      <4>1. next = {} /\ r.hist > 0
        BY <1>4, <2>7
      <4> QED BY <4>1, Zenon DEF AfterInterface, Going
    <3>2. /\ f \in ReaderType /\ f.atr = r.atr /\ f.convert = r.convert
          /\ f.hist = k /\ f.protocols = r.protocols /\ f.state = "WAIT_HIST"
      BY DEF ReaderType, States
    <3>3. left # <<>>
      <4>1. Len(Hist(k)) = k /\ Hist(k) \in Seq(Bytes) /\ Tck(gs) \in Seq(Bytes)
        BY <1>0, ClosingType
      <4>2. Len(Hist(k) \o Tck(gs)) >= k
        BY <1>0, <4>1
      <4> QED BY <1>0, <4>2, <2>5, <2>7
    <3>4. AfterInterface(r, i).fsm = f /\ AfterInterface(r, i).done = FALSE
      BY <3>1
    <3> HIDE DEF f
    <3>5. Expected(f, gs, k, rest, left)
      BY <3>2, <2>5, <2>6, <2>7 DEF Expected
    <3> QED BY <3>2, <3>3, <3>4, <3>5 DEF Outcome
  <2>8. CASE ~(k > 0)
    <3>1. k = 0
      BY <2>8, BoundAssumption
    <3>2. AfterInterface(r, i) = AfterHist(r)
      <4>1. next = {} /\ ~(r.hist > 0)
        BY <1>4, <2>8
      <4> QED BY <4>1, Zenon DEF AfterInterface
    <3>3. left = Tck(gs)
      <4>1. Hist(0) = <<>>
        BY HistUnfolds
      <4>2. <<>> \o Tck(gs) = Tck(gs)
        BY <1>0, ClosingType, ConcatEmptySeq
      <4> QED BY <3>1, <4>1, <4>2, <2>5
    <3> QED BY <3>2, <3>3, <2>6, AfterHistExpected
  <2> QED BY <2>7, <2>8
<1> QED BY <1>3, <1>4

-----------------------------------------------------------------------------
(* A byte is read. *)

\* The byte raw was read by r and the bytes left are still to come.
Read(a, r, gs, k, rest, raw, left) ==
  /\ a.fsm \in ReaderType /\ a.fsm.atr = AppendByte(r.atr, raw)
  /\ a.fsm.convert = Swapped /\ a.fsm.state # "WAIT_TS"
  /\ a.done \in BOOLEAN
  /\ a.done => left = <<>>
  /\ ~a.done => left # <<>> /\ Expected(a.fsm, gs, k, rest, left)

\* atr_append_byte keeps a sequence of bytes one.
LEMMA AppendType ==
  ASSUME NEW atr \in Seq(Bytes), NEW b \in Bytes
  PROVE  AppendByte(atr, b) \in Seq(Bytes)
  BY DEF AppendByte

\* Whatever convention is remembered, TS is read and the conversion becomes the
\* card's (the restart of atr_wait_ts_action).
LEMMA ReadsTS ==
  ASSUME NEW gs \in CardGroups, NEW k \in 0..MaxHist, NEW rest, IsRest(rest, gs, k),
         NEW r \in ReaderType, inverse \in BOOLEAN, card.inverse \in BOOLEAN,
         NEW raw \in Bytes, NEW left \in Seq(Bytes),
         r.protocols = {}, Starts(Atr(gs, k), Bytes, raw, left)
  PROVE  Read(RxTS(r, raw), r, gs, k, rest, raw, left)
<1>1. k \in Nat
  BY BoundAssumption
<1>2. /\ rest[1] \in Seq(Bytes)
      /\ Byte("T0", Announced(gs, 1), k) \in Bytes
      /\ Atr(gs, k) = <<Byte("TS", {}, 0)>> \o (<<Byte("T0", Announced(gs, 1), k)>> \o rest[1])
  BY <1>1, AtrUnfolds
<1> DEFINE ts == Byte("TS", {}, 0)
           next == <<Byte("T0", Announced(gs, 1), k)>> \o rest[1]
<1>3. ts \in Bytes
  BY DEF Byte, Bytes, Roles
<1>4. next \in Seq(Bytes) /\ next # <<>>
  <2> DEFINE t0 == Byte("T0", Announced(gs, 1), k)
             q == rest[1]
  <2>1. t0 \in Bytes /\ q \in Seq(Bytes)
    BY <1>2
  <2> HIDE DEF t0, q, Bytes
  <2>2. <<t0>> \o q \in Seq(Bytes) /\ Len(<<t0>> \o q) > 0
    BY <2>1
  <2> QED BY <2>2 DEF t0, q
<1>5. left = next
  <2>1. Atr(gs, k) = <<ts>> \o next
    BY <1>2, Zenon
  <2> HIDE DEF ts, next, Bytes
  <2>2. Starts(Atr(gs, k), Bytes, ts, next)
    BY <1>3, <1>4, <2>1, Zenon DEF Starts
  <2> QED BY <2>2, SameHead, Zenon
<1>6. Convert(r) = Swapped
  <2>1. r.convert \in BOOLEAN /\ Swapped \in BOOLEAN
    BY DEF ReaderType, Swapped
  <2> QED BY <2>1 DEF Convert
<1>7. Decoded(raw, Convert(r)) = raw
  BY <1>6, Zenon DEF Decoded
<1> DEFINE f == [r EXCEPT !.convert = Convert(r), !.atr = AppendByte(@, raw), !.state = "WAIT_T0"]
<1>8. RxTS(r, raw).fsm = f /\ RxTS(r, raw).done = FALSE
  <2>1. RxTS(r, raw) = [fsm |-> f, done |-> FALSE]
    BY <1>7, Zenon DEF RxTS, Going
  <2> QED BY <2>1
<1>9. AppendByte(r.atr, raw) \in Seq(Bytes) /\ Swapped \in BOOLEAN
  BY AppendType DEF ReaderType, Swapped
<1>10. /\ f \in ReaderType /\ f.atr = AppendByte(r.atr, raw) /\ f.convert = Swapped
       /\ f.state = "WAIT_T0" /\ f.protocols = {}
  BY <1>6, <1>9 DEF ReaderType, States
<1> HIDE DEF f
<1>11. Expected(f, gs, k, rest, left)
  BY <1>5, <1>10 DEF Expected
<1> QED BY <1>4, <1>5, <1>8, <1>10, <1>11 DEF Read

\* What follows an interface byte that is read.
LEMMA InterfaceHead ==
  ASSUME NEW gs \in CardGroups, NEW k, NEW rest, IsRest(rest, gs, k),
         NEW g \in 1..Len(gs), NEW j \in 1..4, j \in Announced(gs, g),
         NEW raw \in Bytes, NEW left \in Seq(Bytes),
         Starts(From(gs, g)[j] \o rest[g+1], Bytes, raw, left)
  PROVE  raw = IByte(gs, g, j) /\ left = From(gs, g)[j+1] \o rest[g+1]
<1>1. Len(gs) \in Nat \ {0} /\ j+1 \in 1..5 /\ g+1 \in 1..Len(gs)+1
  BY GroupTypes
<1> DEFINE b == IByte(gs, g, j)
           q == From(gs, g)[j+1]
           t == rest[g+1]
<1>2. b \in Bytes /\ q \in Seq(Bytes)
  BY <1>1, FromUnfolds
<1>3. t \in Seq(Bytes)
  BY <1>1 DEF IsRest
<1>4. From(gs, g)[j] = <<b>> \o q
  BY FromUnfolds
<1>5. Starts((<<b>> \o q) \o t, Bytes, raw, left)
  BY <1>4, Zenon
<1> HIDE DEF b, q, t, Bytes
<1>6. (<<b>> \o q) \o t = <<b>> \o (q \o t) /\ q \o t \in Seq(Bytes)
  BY <1>2, <1>3
<1>7. raw = b /\ left = q \o t
  <2>1. Starts((<<b>> \o q) \o t, Bytes, b, q \o t)
    BY <1>2, <1>6, Zenon DEF Starts
  <2> QED BY <2>1, <1>5, SameHead, Zenon
<1> QED BY <1>7 DEF b, q, t

\* What is left at a group is the group from TA on and what is left after it.
LEMMA RestUnfolds ==
  ASSUME NEW gs \in CardGroups, NEW k, NEW rest, IsRest(rest, gs, k),
         NEW g \in 1..Len(gs)
  PROVE  rest[g] = From(gs, g)[1] \o rest[g+1]
  BY InterfaceTypes DEF IsRest

\* A step of the ATR FSM on a byte stored beforehand keeps what it promises.
LEMMA OutcomeRead ==
  ASSUME NEW a, NEW r1, NEW r, NEW gs, NEW k, NEW rest, NEW raw, NEW left,
         Outcome(a, r1, gs, k, rest, left),
         r1.atr = AppendByte(r.atr, raw), r1.convert = Swapped
  PROVE  Read(a, r, gs, k, rest, raw, left)
  BY Zenon DEF Outcome, Read

\* T0 announces the first group and the number of historical bytes.
LEMMA ReadsT0 ==
  ASSUME NEW gs \in CardGroups, NEW k \in 0..MaxHist, NEW rest, IsRest(rest, gs, k),
         NEW r \in ReaderType, NEW raw \in Bytes, NEW left \in Seq(Bytes),
         r.state = "WAIT_T0", r.protocols = {},
         Starts(<<Byte("T0", Announced(gs, 1), k)>> \o rest[1], Bytes, raw, left)
  PROVE  Outcome(AfterInterface([r EXCEPT !.hist = raw.n, !.y = raw.y], 0),
                 [r EXCEPT !.hist = raw.n, !.y = raw.y], gs, k, rest, left)
<1>0. k \in Nat
  BY BoundAssumption
<1>1. Len(gs) \in Nat \ {0} /\ 1 \in 1..Len(gs)
  BY DEF CardGroups
<1> DEFINE t0 == Byte("T0", Announced(gs, 1), k)
           q == rest[1]
<1>2. t0 \in Bytes /\ q \in Seq(Bytes)
  BY <1>0, AtrUnfolds
<1>3. raw = t0 /\ left = q
  <2>1. Starts(<<t0>> \o q, Bytes, t0, q)
    BY <1>2, Zenon DEF Starts
  <2> QED BY <2>1, SameHead, Zenon
<1>4. raw.n = k /\ raw.y = Announced(gs, 1)
  BY <1>3 DEF Byte
<1> DEFINE f == [r EXCEPT !.hist = raw.n, !.y = raw.y]
<1>5. Announced(gs, 1) \in SUBSET (1..4)
  BY <1>1, GroupTypes
<1>6. f \in ReaderType /\ f.y = Announced(gs, 1) /\ f.hist = k /\ f.protocols = {}
      /\ f.state # "WAIT_TS"
  BY <1>4, <1>5 DEF ReaderType
<1>7. Seen(gs, 1) = {}
  BY DEF Seen
<1>8. left = From(gs, 1)[0+1] \o rest[1+1]
  <2>1. rest[1] = From(gs, 1)[1] \o rest[1+1]
    <3>1. \A h \in 1..Len(gs) : rest[h] = From(gs, h)[1] \o rest[h+1]
      BY RestUnfolds
    <3> QED BY <1>1, <3>1, Zenon
  <2>2. 0+1 = 1
    OBVIOUS
  <2> QED BY <2>1, <2>2, <1>3, Zenon
<1> HIDE DEF f
<1>9. Outcome(AfterInterface(f, 0), f, gs, k, rest, left)
  <2>1. 0 \in 0..3
    OBVIOUS
  <2> QED BY <2>1, <1>1, <1>6, <1>7, <1>8, AfterInterfaceExpected, Zenon
<1> QED BY <1>9 DEF f

\* TD announces the next group and a protocol.
LEMMA ReadsTD ==
  ASSUME NEW gs \in CardGroups, NEW k \in 0..MaxHist, NEW rest, IsRest(rest, gs, k),
         NEW g \in 1..Len(gs), 4 \in Announced(gs, g),
         NEW r \in ReaderType, r.state = "WAIT_TD", r.hist = k, r.protocols = Seen(gs, g),
         NEW left, left = From(gs, g)[5] \o rest[g+1],
         NEW raw, raw = TDByte(gs, g)
  PROVE  Outcome(AfterInterface([r EXCEPT !.protocols = @ \cup {raw.n}, !.y = raw.y], 0),
                 [r EXCEPT !.protocols = @ \cup {raw.n}, !.y = raw.y], gs, k, rest, left)
<1>1. Len(gs) \in Nat \ {0} /\ g < Len(gs) /\ g + 1 \in 1..Len(gs)
  BY GroupTypes
<1>2. raw.n = gs[g+1].t /\ raw.y = Announced(gs, g+1)
  BY <1>1 DEF TDByte, Byte
<1>3. gs[g+1].t \in Protocols
  BY <1>1 DEF CardGroups
<1>4. Seen(gs, g+1) = Seen(gs, g) \cup {gs[g+1].t}
  BY <1>1 DEF Seen
<1> DEFINE f == [r EXCEPT !.protocols = @ \cup {raw.n}, !.y = raw.y]
<1>5. Announced(gs, g+1) \in SUBSET (1..4)
  BY <1>1, GroupTypes
<1>6. /\ f \in ReaderType /\ f.y = Announced(gs, g+1) /\ f.hist = k
      /\ f.protocols = Seen(gs, g+1) /\ f.state # "WAIT_TS"
  BY <1>2, <1>3, <1>4, <1>5 DEF ReaderType
<1>7. left = rest[g+1]
  <2>1. rest[g+1] \in Seq(Bytes)
    BY <1>1 DEF IsRest
  <2>2. From(gs, g)[5] = <<>>
    BY FromUnfolds
  <2> QED BY <2>1, <2>2
<1>8. left = From(gs, g+1)[0+1] \o rest[(g+1)+1]
  <2>1. rest[g+1] = From(gs, g+1)[1] \o rest[(g+1)+1]
    BY <1>1, RestUnfolds, Zenon
  <2>2. 0+1 = 1
    OBVIOUS
  <2> QED BY <2>1, <2>2, <1>7, Zenon
<1> HIDE DEF f
<1>9. Outcome(AfterInterface(f, 0), f, gs, k, rest, left)
  <2>1. 0 \in 0..3
    OBVIOUS
  <2> QED BY <2>1, <1>1, <1>6, <1>8, AfterInterfaceExpected, Zenon
<1> QED BY <1>9 DEF f

\* A historical byte leaves one less to come.
LEMMA ReadsHist ==
  ASSUME NEW gs \in CardGroups, NEW k \in 0..MaxHist, NEW rest, IsRest(rest, gs, k),
         NEW r \in ReaderType, NEW raw \in Bytes, NEW left \in Seq(Bytes),
         r.state = "WAIT_HIST", r.hist > 0, r.protocols = Seen(gs, Len(gs)),
         Starts(Hist(r.hist) \o Tck(gs), Bytes, raw, left)
  PROVE  Outcome(RxHist(r), r, gs, k, rest, left)
<1> DEFINE h == r.hist - 1
           f == [r EXCEPT !.hist = @ - 1]
<1>1. h \in 0..MaxHist /\ h \in Nat /\ h + 1 = r.hist
  BY BoundAssumption DEF ReaderType
<1>2. Hist(r.hist) = <<Byte("H", {}, 0)>> \o Hist(h)
  BY <1>1, HistUnfolds
<1>3. left = Hist(h) \o Tck(gs)
  <2> DEFINE b == Byte("H", {}, 0)
             q == Hist(h)
             t == Tck(gs)
  <2>1. b \in Bytes
    BY DEF Byte, Bytes, Roles
  <2>2. q \in Seq(Bytes) /\ t \in Seq(Bytes)
    BY <1>1, ClosingType
  <2>3. Starts((<<b>> \o q) \o t, Bytes, raw, left)
    BY <1>2, Zenon
  <2> HIDE DEF b, q, t, Bytes, h, f
  <2>4. (<<b>> \o q) \o t = <<b>> \o (q \o t) /\ q \o t \in Seq(Bytes)
    BY <2>1, <2>2
  <2>5. Starts((<<b>> \o q) \o t, Bytes, b, q \o t)
    BY <2>1, <2>4, Zenon DEF Starts
  <2>6. left = q \o t
    BY <2>3, <2>5, SameHead, Zenon
  <2> QED BY <2>6 DEF q, t
<1>4. /\ f \in ReaderType /\ f.atr = r.atr /\ f.convert = r.convert /\ f.hist = h
      /\ f.protocols = r.protocols /\ f.state = "WAIT_HIST"
  BY <1>1 DEF ReaderType
<1>5. RxHist(r) = IF f.hist = 0 THEN AfterHist(f) ELSE Going(f)
  BY Zenon DEF RxHist
<1> HIDE DEF f
<1>6. CASE h = 0
  <2>1. RxHist(r) = AfterHist(f)
    BY <1>4, <1>5, <1>6
  <2>2. left = Tck(gs)
    <3>1. Hist(0) = <<>>
      BY HistUnfolds
    <3>2. <<>> \o Tck(gs) = Tck(gs)
      BY <1>1, ClosingType, ConcatEmptySeq
    <3> QED BY <1>3, <1>6, <3>1, <3>2, Zenon
  <2>3. Outcome(AfterHist(f), f, gs, k, rest, left)
    BY <2>2, <1>4, AfterHistExpected
  <2> QED BY <2>1, <2>3, <1>4, Zenon DEF Outcome
<1>7. CASE h # 0
  <2>1. RxHist(r) = [fsm |-> f, done |-> FALSE]
    BY <1>4, <1>5, <1>7 DEF Going
  <2>2. left # <<>>
    <3>1. Len(Hist(h)) = h /\ Hist(h) \in Seq(Bytes) /\ Tck(gs) \in Seq(Bytes)
      BY <1>1, ClosingType
    <3> HIDE DEF h
    <3>2. Len(Hist(h) \o Tck(gs)) >= h
      BY <1>1, <3>1
    <3> QED BY <1>1, <1>3, <1>7, <3>2
  <2>3. RxHist(r).fsm = f /\ RxHist(r).done = FALSE
    BY <2>1
  <2>4. Expected(f, gs, k, rest, left)
    <3>1. f.hist > 0
      BY <1>1, <1>4, <1>7
    <3> QED BY <1>3, <1>4, <3>1 DEF Expected
  <2> QED BY <1>4, <2>2, <2>3, <2>4 DEF Outcome
<1> QED BY <1>6, <1>7

\* TCK is the last byte.
LEMMA ReadsTck ==
  ASSUME NEW gs \in CardGroups, NEW k, NEW rest,
         NEW r \in ReaderType, NEW raw \in Bytes, NEW left \in Seq(Bytes),
         r.state = "WAIT_TCK", Starts(Tck(gs), Bytes, raw, left)
  PROVE  Outcome(Finished(r), r, gs, k, rest, left)
<1>1. left = <<>>
  <2>1. Tck(gs) = <<Byte("TCK", {}, 0)>> \/ Tck(gs) = <<>>
    BY DEF Tck, When
  <2>2. Len(Tck(gs)) <= 1
    <3> DEFINE b == Byte("TCK", {}, 0)
    <3>1. Len(<<b>>) = 1 /\ Len(<<>>) = 0
      OBVIOUS
    <3>2. CASE Tck(gs) = <<b>>
      BY <3>1, <3>2
    <3>3. CASE Tck(gs) = <<>>
      BY <3>1, <3>3
    <3> QED BY <2>1, <3>2, <3>3
  <2>3. Len(<<raw>> \o left) = 1 + Len(left)
    OBVIOUS
  <2>4. Len(left) = 0
    BY <2>2, <2>3 DEF Starts
  <2> QED BY <2>4
<1> DEFINE f == [r EXCEPT !.state = IF @ \in {"WAIT_HIST", "WAIT_TCK"} THEN "DONE" ELSE @]
<1>2. Finished(r) = [fsm |-> f, done |-> TRUE]
  BY DEF Finished
<1>3. f \in ReaderType /\ f.atr = r.atr /\ f.convert = r.convert /\ f.state # "WAIT_TS"
  BY DEF ReaderType, States
<1>4. Finished(r).fsm = f /\ Finished(r).done = TRUE
  BY <1>2
<1> HIDE DEF f
<1> QED BY <1>1, <1>3, <1>4 DEF Outcome

\* A byte of the card is what the ATR FSM expects of it, in every state.
LEMMA ReadsByte ==
  ASSUME NEW gs \in CardGroups, NEW k \in 0..MaxHist, NEW rest, IsRest(rest, gs, k),
         reader \in ReaderType, inverse \in BOOLEAN, card.inverse \in BOOLEAN,
         reader.state # "WAIT_TS" => reader.convert = Swapped,
         NEW raw \in Bytes, NEW left \in Seq(Bytes), NEW all, Starts(all, Bytes, raw, left),
         Expected(reader, gs, k, rest, all)
  PROVE  Read(RxSingle(raw), reader, gs, k, rest, raw, left)
<1>1. CASE reader.state = "WAIT_TS"
  <2>1. reader.protocols = {} /\ all = Atr(gs, k)
    BY <1>1 DEF Expected, AtInterface, WaitState
  <2>2. RxSingle(raw) = RxTS(reader, raw)
    BY <1>1 DEF RxSingle, ReaderType
  <2> QED BY <2>1, <2>2, ReadsTS
<1>2. CASE reader.state # "WAIT_TS"
  <2> DEFINE r == [reader EXCEPT !.atr = AppendByte(@, raw)]
  <2>1. Decoded(raw, reader.convert) = raw
    BY <1>2, Zenon DEF Decoded
  <2>2. AppendByte(reader.atr, raw) \in Seq(Bytes)
    BY AppendType DEF ReaderType
  <2>3. /\ r \in ReaderType /\ r.atr = AppendByte(reader.atr, raw) /\ r.convert = reader.convert
        /\ r.state = reader.state /\ r.hist = reader.hist /\ r.y = reader.y
        /\ r.protocols = reader.protocols
    BY <2>2 DEF ReaderType
  <2>4. reader.convert = Swapped
    BY <1>2
  <2>5. CASE reader.state = "WAIT_T0"
    <3> DEFINE f == [r EXCEPT !.hist = raw.n, !.y = raw.y]
    <3>1. RxSingle(raw) = AfterInterface(f, 0)
      BY <2>1, <2>3, <2>5 DEF RxSingle
    <3>2. /\ reader.protocols = {}
          /\ all = <<Byte("T0", Announced(gs, 1), k)>> \o rest[1]
      BY <2>5 DEF Expected, AtInterface, WaitState
    <3>3. Outcome(AfterInterface(f, 0), f, gs, k, rest, left)
      <4> HIDE DEF r
      <4> QED BY <2>3, <2>5, <3>2, ReadsT0
    <3>4. f.atr = AppendByte(reader.atr, raw) /\ f.convert = Swapped
      BY <2>3, <2>4 DEF ReaderType
    <3> HIDE DEF f
    <3> QED BY <3>1, <3>3, <3>4, OutcomeRead, Zenon
  <2>6. ASSUME NEW g \in 1..Len(gs), NEW j \in 1..4, AtInterface(reader, gs, k, rest, all, g, j)
        PROVE  Read(RxSingle(raw), reader, gs, k, rest, raw, left)
    <3>1. /\ reader.state = WaitState[j] /\ j \in Announced(gs, g)
          /\ reader.y = Announced(gs, g) /\ reader.hist = k /\ reader.protocols = Seen(gs, g)
          /\ Starts(From(gs, g)[j] \o rest[g+1], Bytes, raw, left)
      BY <2>6, Zenon DEF AtInterface
    <3>2. raw = IByte(gs, g, j) /\ left = From(gs, g)[j+1] \o rest[g+1]
      <4>1. Starts(From(gs, g)[j] \o rest[g+1], Bytes, raw, left) /\ j \in Announced(gs, g)
        BY <3>1
      <4>2. \A h \in 1..Len(gs), m \in 1..4 : m \in Announced(gs, h) =>
              \A a \in Bytes, q \in Seq(Bytes) :
                Starts(From(gs, h)[m] \o rest[h+1], Bytes, a, q)
                  => a = IByte(gs, h, m) /\ q = From(gs, h)[m+1] \o rest[h+1]
        BY InterfaceHead, Zenon
      <4> QED BY <4>1, <4>2, Zenon
    <3>3. CASE j \in 1..3
      <4>1. RxSingle(raw) = AfterInterface(r, j)
        <5>1. CASE j = 1
          <6>1. reader.state = "WAIT_TA"
            BY <3>1, <5>1 DEF WaitState
          <6> QED BY <2>1, <2>3, <5>1, <6>1 DEF RxSingle
        <5>2. CASE j = 2
          <6>1. reader.state = "WAIT_TB"
            BY <3>1, <5>2 DEF WaitState
          <6> QED BY <2>1, <2>3, <5>2, <6>1 DEF RxSingle
        <5>3. CASE j = 3
          <6>1. reader.state = "WAIT_TC"
            BY <3>1, <5>3 DEF WaitState
          <6> QED BY <2>1, <2>3, <5>3, <6>1 DEF RxSingle
        <5> QED BY <3>3, <5>1, <5>2, <5>3
      <4>2. Outcome(AfterInterface(r, j), r, gs, k, rest, left)
        <5>1. j \in 0..3
          BY <3>3
        <5> HIDE DEF r
        <5> QED BY <1>2, <2>3, <3>1, <3>2, <5>1, AfterInterfaceExpected, Zenon
      <4> HIDE DEF r
      <4> QED BY <2>3, <2>4, <4>1, <4>2, OutcomeRead, Zenon
    <3>4. CASE j = 4
      <4> DEFINE f == [r EXCEPT !.protocols = @ \cup {raw.n}, !.y = raw.y]
      <4>1. reader.state = "WAIT_TD"
        BY <3>1, <3>4 DEF WaitState
      <4>2. RxSingle(raw) = AfterInterface(f, 0)
        BY <2>1, <2>3, <4>1 DEF RxSingle
      <4>3. raw = TDByte(gs, g) /\ left = From(gs, g)[5] \o rest[g+1] /\ 4 \in Announced(gs, g)
        BY <3>1, <3>2, <3>4 DEF IByte
      <4>4. Outcome(AfterInterface(f, 0), f, gs, k, rest, left)
        <5> HIDE DEF r
        <5> QED BY <2>3, <3>1, <4>1, <4>3, ReadsTD
      <4>5. f.atr = AppendByte(reader.atr, raw) /\ f.convert = Swapped
        BY <2>3, <2>4 DEF ReaderType
      <4> HIDE DEF f
      <4> QED BY <4>2, <4>4, <4>5, OutcomeRead, Zenon
    <3> QED BY <3>3, <3>4
  <2>7. CASE reader.state = "WAIT_HIST"
    <3>1. RxSingle(raw) = RxHist(r)
      BY <2>1, <2>3, <2>7 DEF RxSingle
    <3>2. /\ reader.hist > 0 /\ reader.protocols = Seen(gs, Len(gs))
          /\ all = Hist(reader.hist) \o Tck(gs)
      BY <2>7 DEF Expected, AtInterface, WaitState
    <3>3. Outcome(RxHist(r), r, gs, k, rest, left)
      <4> HIDE DEF r
      <4> QED BY <2>3, <2>7, <3>2, ReadsHist
    <3> HIDE DEF r
    <3> QED BY <2>3, <2>4, <3>1, <3>3, OutcomeRead, Zenon
  <2>8. CASE reader.state = "WAIT_TCK"
    <3>1. RxSingle(raw) = Finished(r)
      BY <2>1, <2>3, <2>8 DEF RxSingle
    <3>2. all = Tck(gs)
      BY <2>8 DEF Expected, AtInterface, WaitState
    <3>3. Outcome(Finished(r), r, gs, k, rest, left)
      <4> HIDE DEF r
      <4> QED BY <2>3, <2>8, <3>2, ReadsTck
    <3> HIDE DEF r
    <3> QED BY <2>3, <2>4, <3>1, <3>3, OutcomeRead, Zenon
  <2> QED BY <1>2, <2>5, <2>6, <2>7, <2>8 DEF Expected
<1> QED BY <1>1, <1>2

-----------------------------------------------------------------------------
(* What is sent and what is stored. *)

\* What the card has left to send once it sent s bytes of atr.
Left(atr, s) == SubSeq(atr, s+1, Len(atr))

\* What the buffer holds of the first s bytes of atr.
Stored(atr, s) == SubSeq(atr, 1, IF s <= Cap THEN s ELSE Cap)

\* The card sends its next byte, the last one when nothing is left.
LEMMA LeftUnfolds ==
  ASSUME NEW atr \in Seq(Bytes), NEW s \in Nat, s < Len(atr)
  PROVE  /\ Starts(Left(atr, s), Bytes, atr[s+1], Left(atr, s+1))
         /\ Left(atr, s+1) = <<>> <=> s + 1 = Len(atr)
<1> HIDE DEF Bytes
<1>1. s+1 \in 1..Len(atr) /\ Len(atr) \in Nat
  OBVIOUS
<1>2. atr[s+1] \in Bytes
  BY <1>1
<1>3. Left(atr, s+1) \in Seq(Bytes) /\ Len(Left(atr, s+1)) = Len(atr) - (s+1)
  BY <1>1 DEF Left
<1>4. Left(atr, s) = <<atr[s+1]>> \o Left(atr, s+1)
  BY <1>1, SubSeqRecursiveFirst DEF Left
<1>5. Left(atr, s+1) = <<>> <=> s + 1 = Len(atr)
  BY <1>1, <1>3
<1> QED BY <1>2, <1>3, <1>4, <1>5, Zenon DEF Starts

\* atr_append_byte stores the next byte, or drops it once the buffer is full.
LEMMA StoredAppends ==
  ASSUME NEW atr \in Seq(Bytes), NEW s \in Nat, s < Len(atr)
  PROVE  /\ AppendByte(Stored(atr, s), atr[s+1]) = Stored(atr, s+1)
         /\ Stored(atr, s+1) # <<>>
<1> HIDE DEF Bytes
<1>0. Cap \in Nat \ {0} /\ Len(atr) \in Nat
  BY CapAssumption
<1>1. CASE s < Cap
  <2>1. Stored(atr, s) = SubSeq(atr, 1, s) /\ Stored(atr, s+1) = SubSeq(atr, 1, s+1)
    BY <1>0, <1>1 DEF Stored
  <2>2. Len(SubSeq(atr, 1, s)) = s /\ Len(SubSeq(atr, 1, s+1)) = s + 1
    BY <1>0
  <2>3. Append(SubSeq(atr, 1, s), atr[s+1]) = SubSeq(atr, 1, s+1)
    BY <1>0
  <2>4. AppendByte(Stored(atr, s), atr[s+1]) = Append(SubSeq(atr, 1, s), atr[s+1])
    <3>1. Len(Stored(atr, s)) < Cap
      BY <1>1, <2>1, <2>2
    <3> QED BY <3>1, <2>1, Zenon DEF AppendByte
  <2>5. SubSeq(atr, 1, s+1) # <<>>
    BY <2>2
  <2> QED BY <2>1, <2>3, <2>4, <2>5, Zenon
<1>2. CASE ~(s < Cap)
  <2>1. Stored(atr, s) = SubSeq(atr, 1, Cap) /\ Stored(atr, s+1) = SubSeq(atr, 1, Cap)
    BY <1>0, <1>2 DEF Stored
  <2>2. Len(SubSeq(atr, 1, Cap)) = Cap
    BY <1>0, <1>2
  <2>3. AppendByte(Stored(atr, s), atr[s+1]) = Stored(atr, s)
    <3>1. ~(Len(Stored(atr, s)) < Cap)
      BY <1>0, <2>1, <2>2
    <3> QED BY <3>1, Zenon DEF AppendByte
  <2>4. SubSeq(atr, 1, Cap) # <<>>
    BY <1>0, <2>2
  <2> QED BY <2>1, <2>3, <2>4, Zenon
<1> QED BY <1>1, <1>2

\* What is stored is a beginning of what was sent and fits the buffer.
LEMMA StoredPrefix ==
  ASSUME NEW atr \in Seq(Bytes), NEW s \in 0..Len(atr)
  PROVE  /\ IsPrefix(Stored(atr, s), SubSeq(atr, 1, s))
         /\ Len(Stored(atr, s)) <= Cap
<1> HIDE DEF Bytes
<1>0. Cap \in Nat \ {0} /\ Len(atr) \in Nat
  BY CapAssumption
<1> DEFINE m == IF s <= Cap THEN s ELSE Cap
<1>1. m \in 0..s /\ m <= Cap
  BY <1>0
<1>2. Stored(atr, s) = SubSeq(atr, 1, m)
  BY DEF Stored
<1> HIDE DEF m
<1>3. Len(SubSeq(atr, 1, m)) = m /\ Len(SubSeq(atr, 1, s)) = s
  BY <1>0, <1>1
<1>4. SubSeq(SubSeq(atr, 1, m), 1, m) = SubSeq(SubSeq(atr, 1, s), 1, m)
  BY <1>0, <1>1
<1> QED BY <1>0, <1>1, <1>2, <1>3, <1>4 DEF IsPrefix

\* A longer reading of the card keeps a prefix a prefix.
LEMMA PrefixGrows ==
  ASSUME NEW atr \in Seq(Bytes), NEW p \in Seq(Bytes), NEW s \in Nat, NEW u \in Nat,
         s <= u, u <= Len(atr), IsPrefix(p, SubSeq(atr, 1, s))
  PROVE  IsPrefix(p, SubSeq(atr, 1, u))
<1> HIDE DEF Bytes
<1> DEFINE m == Len(p)
<1>1. m \in Nat /\ Len(atr) \in Nat /\ m <= Len(SubSeq(atr, 1, s))
      /\ SubSeq(p, 1, m) = SubSeq(SubSeq(atr, 1, s), 1, m)
  BY DEF IsPrefix
<1>2. Len(SubSeq(atr, 1, s)) = s /\ Len(SubSeq(atr, 1, u)) = u
  BY <1>1
<1>3. SubSeq(SubSeq(atr, 1, s), 1, m) = SubSeq(SubSeq(atr, 1, u), 1, m)
  <2> HIDE DEF m
  <2> QED BY <1>1, <1>2
<1> QED BY <1>1, <1>2, <1>3 DEF IsPrefix

\* Every ATR of the model follows the grammar for some groups.
LEMMA AtrsAreAtrs ==
  ASSUME NEW atr \in Atrs
  PROVE  \E gs \in CardGroups, k \in 0..MaxHist : atr = Atr(gs, k)
<1>1. PICK y1 \in Ys, k \in 0..MaxHist,
           more \in UNION {[1..n -> [t : Protocols, y : Ys]] : n \in 0..MaxTD} :
        atr = Atr(Groups(y1, more), k)
  BY DEF Atrs
<1>2. PICK n \in 0..MaxTD : more \in [1..n -> [t : Protocols, y : Ys]]
  OBVIOUS
<1> DEFINE G == [t : Protocols, y : Ys]
           g1 == [t |-> 0, y |-> y1]
           gs == Groups(y1, more)
<1>3. n \in Nat
  BY BoundAssumption
<1>4. g1 \in Group /\ g1.t = 0
  BY DEF Group
<1>5. \A g \in G : g \in Group /\ g.t \in Protocols
  BY DEF Group
<1>6. more \in [1..n -> G]
  BY <1>2
<1>7. gs = <<g1>> \o more
  BY DEF Groups
<1> HIDE DEF gs, G, g1, Group
<1>8. more \in Seq(Group) /\ Len(more) = n
  BY <1>3, <1>5, <1>6
<1>9. gs \in Seq(Group) /\ Len(gs) = n + 1 /\ gs[1] = g1
  BY <1>3, <1>4, <1>7, <1>8
<1>10. ASSUME NEW i \in 2..Len(gs) PROVE gs[i].t \in Protocols
  <2>1. i - 1 \in 1..n /\ gs[i] = more[i-1]
    BY <1>3, <1>4, <1>7, <1>8, <1>9
  <2>2. more[i-1] \in G
    BY <2>1, <1>6
  <2> QED BY <2>1, <2>2, <1>5
<1>11. gs \in CardGroups
  <2>1. gs # <<>>
    BY <1>3, <1>9
  <2> QED BY <1>4, <1>9, <1>10, <2>1 DEF CardGroups
<1> QED BY <1>1, <1>11 DEF gs

\* An ATR has TS first and T0 after it.
LEMMA AtrShape ==
  ASSUME NEW gs \in CardGroups, NEW k \in 0..MaxHist
  PROVE  Atr(gs, k) \in Seq(Bytes) /\ Len(Atr(gs, k)) > 1 /\ Atr(gs, k)[1].role = "TS"
<1>1. k \in Nat
  BY BoundAssumption
<1>2. PICK rest : IsRest(rest, gs, k)
  BY <1>1, RestExists
<1> DEFINE ts == Byte("TS", {}, 0)
           t0 == Byte("T0", Announced(gs, 1), k)
           q == rest[1]
<1>3. q \in Seq(Bytes) /\ t0 \in Bytes /\ Atr(gs, k) = <<ts>> \o (<<t0>> \o q)
  BY <1>1, <1>2, AtrUnfolds
<1>4. ts \in Bytes /\ ts.role = "TS"
  BY DEF Byte, Bytes, Roles
<1> HIDE DEF ts, t0, q, Bytes
<1>5. /\ <<ts>> \o (<<t0>> \o q) \in Seq(Bytes) /\ Len(<<ts>> \o (<<t0>> \o q)) > 1
      /\ (<<ts>> \o (<<t0>> \o q))[1] = ts
  BY <1>3, <1>4
<1> QED BY <1>3, <1>4, <1>5, Zenon

-----------------------------------------------------------------------------
(* The inductive invariant. *)

\* The types, the card's sequences of bytes included.
AtrTypes ==
  /\ reader \in ReaderType
  /\ main \in {"reset", "atr", "done", "ready", "error", "removed"}
  /\ inverse \in BOOLEAN
  /\ card \in CardType /\ card.sent <= Len(card.atr)
  /\ Len(reader.atr) <= Cap

\* The ATR FSM has read nothing.
Fresh == reader.state = "WAIT_TS" /\ reader.protocols = {} /\ reader.atr = <<>>

\* While the card sends its ATR, the FSM expects what the card has left.
Reading ==
  /\ \E gs \in CardGroups, k \in 0..MaxHist : \E rest :
        /\ IsRest(rest, gs, k) /\ card.atr = Atr(gs, k)
        /\ Expected(reader, gs, k, rest, Left(card.atr, card.sent))
  /\ card.sent < Len(card.atr)
  /\ reader.atr = Stored(card.atr, card.sent)
  /\ reader.state = "WAIT_TS" => card.sent = 0
  /\ reader.state # "WAIT_TS" => reader.atr # <<>> /\ reader.convert = Swapped

\* An ATR that was reported is the beginning of the card's.
Reported ==
  /\ reader.atr # <<>> /\ card.atr # <<>> /\ card.atr[1].role = "TS"
  /\ IsPrefix(reader.atr, SubSeq(card.atr, 1, card.sent))

\* The inductive invariant.
AtrInv ==
  /\ AtrTypes
  /\ main \in {"reset", "removed", "error"} => Fresh
  /\ main = "atr" => Reading
  /\ main = "done" => Reported
  /\ main = "ready" => inverse = card.inverse

-----------------------------------------------------------------------------
(* Its steps. *)

\* The invariant holds initially.
LEMMA AtrInit == Init => AtrInv
<1> SUFFICES ASSUME Init PROVE AtrInv
  OBVIOUS
<1>1. reader = [state |-> "WAIT_TS", hist |-> 0, y |-> {}, protocols |-> {},
                atr |-> <<>>, convert |-> FALSE]
  BY DEF Init
<1>2. reader \in ReaderType
  BY <1>1, BoundAssumption DEF ReaderType, States
<1>3. card \in CardType /\ card.sent <= Len(card.atr)
  BY DEF Init, NoCard, CardType
<1>4. Len(reader.atr) <= Cap
  BY <1>1, CapAssumption
<1>5. main = "reset" /\ inverse \in BOOLEAN
  BY DEF Init
<1>6. Fresh
  BY <1>1 DEF Fresh
<1>7. AtrTypes
  BY <1>2, <1>3, <1>4, <1>5 DEF AtrTypes
<1> QED BY <1>5, <1>6, <1>7 DEF AtrInv

\* atr_wait_ts_onenter leaves the FSM as it was before the first byte.
LEMMA RestartedFresh ==
  ASSUME NEW r \in ReaderType
  PROVE  /\ Restarted(r) \in ReaderType
         /\ Restarted(r).state = "WAIT_TS" /\ Restarted(r).protocols = {}
         /\ Restarted(r).atr = <<>>
<1> DEFINE f == [r EXCEPT !.state = "WAIT_TS", !.hist = 0, !.y = {}, !.protocols = {}, !.atr = <<>>]
<1>1. 0 \in 0..MaxHist /\ {} \in SUBSET (1..4) /\ {} \in SUBSET Protocols /\ <<>> \in Seq(Bytes)
  BY BoundAssumption
<1>2. "WAIT_TS" \in States
  BY DEF States
<1>3. f \in ReaderType
  BY <1>1, <1>2 DEF ReaderType
<1>4. f.state = "WAIT_TS" /\ f.protocols = {} /\ f.atr = <<>>
  BY DEF ReaderType
<1> QED BY <1>3, <1>4 DEF Restarted

\* The reset line is released: a card has its whole ATR left.
LEMMA ReleaseResetStep == AtrInv /\ ReleaseReset => AtrInv'
<1> SUFFICES ASSUME AtrInv, ReleaseReset PROVE AtrInv'
  OBVIOUS
<1>1. PICK atr \in Atrs, inv \in BOOLEAN : card' = [atr |-> atr, sent |-> 0, inverse |-> inv]
  BY DEF ReleaseReset
<1>2. PICK gs \in CardGroups, k \in 0..MaxHist : atr = Atr(gs, k)
  BY AtrsAreAtrs
<1>3. PICK rest : IsRest(rest, gs, k)
  BY BoundAssumption, RestExists
<1>4. atr \in Seq(Bytes) /\ Len(atr) > 1
  BY <1>2, AtrShape
<1>5. main' = "atr" /\ inverse' = FALSE /\ reader' = reader /\ Fresh
  BY DEF ReleaseReset, AtrInv
<1>6. card' \in CardType /\ card'.atr = atr /\ card'.sent = 0
  BY <1>1, <1>4 DEF CardType
<1>7. AtrTypes'
  <2>1. card'.sent <= Len(card'.atr)
    BY <1>4, <1>6
  <2>2. reader' \in ReaderType /\ Len(reader'.atr) <= Cap
    BY <1>5 DEF AtrInv, AtrTypes
  <2>3. inverse' \in BOOLEAN
    BY <1>5
  <2> QED BY <1>5, <1>6, <2>1, <2>2, <2>3 DEF AtrTypes
<1>8. Left(atr, 0) = atr
  BY <1>4, SubSeqFull DEF Left
<1>9. Stored(atr, 0) = <<>>
  BY CapAssumption, <1>4 DEF Stored
<1>10. Expected(reader, gs, k, rest, Left(atr, 0))
  BY <1>2, <1>5, <1>8 DEF Expected, Fresh
<1>11. Reading'
  BY <1>2, <1>3, <1>4, <1>5, <1>6, <1>9, <1>10 DEF Reading, Fresh
<1> QED BY <1>5, <1>7, <1>11 DEF AtrInv

\* The card sends a byte: heeded, it is what the FSM expects; the ATR is reported
\* with the last one.
LEMMA CardSendsStep ==
  AtrInv /\ CardSends =>
    /\ AtrInv'
    /\ main = "atr" /\ main' = "done" => card'.sent = Len(card'.atr)
<1> SUFFICES ASSUME AtrInv, CardSends
             PROVE  /\ AtrInv'
                    /\ main = "atr" /\ main' = "done" => card'.sent = Len(card'.atr)
  OBVIOUS
<1> DEFINE s == card.sent
           raw == card.atr[s+1]
<1>1. /\ card.atr \in Seq(Bytes) /\ s \in Nat /\ s < Len(card.atr)
      /\ inverse' = inverse /\ inverse \in BOOLEAN /\ card.inverse \in BOOLEAN
      /\ reader \in ReaderType
  BY DEF CardSends, AtrInv, AtrTypes, CardType
<1>2. /\ card' \in CardType /\ card'.atr = card.atr
      /\ card'.sent = s + 1 /\ card'.inverse = card.inverse
  BY DEF CardSends, AtrInv, AtrTypes, CardType
<1>3. s + 1 <= Len(card.atr) /\ Swapped' = Swapped
  BY <1>1, <1>2 DEF Swapped
<1>4. CASE main = "atr"
  <2> DEFINE rx == RxSingle(raw)
  <2>1. reader' = rx.fsm /\ main' = IF rx.done THEN "done" ELSE main
    BY <1>4, Zenon DEF CardSends
  <2>2. Reading
    BY <1>4 DEF AtrInv
  <2>0. PICK gs \in CardGroups, k \in 0..MaxHist : \E rest :
          /\ IsRest(rest, gs, k) /\ card.atr = Atr(gs, k)
          /\ Expected(reader, gs, k, rest, Left(card.atr, s))
    BY <2>2 DEF Reading
  <2>3. PICK rest :
          /\ IsRest(rest, gs, k) /\ card.atr = Atr(gs, k)
          /\ Expected(reader, gs, k, rest, Left(card.atr, s))
    BY <2>0
  <2>4. /\ Starts(Left(card.atr, s), Bytes, raw, Left(card.atr, s+1))
        /\ Left(card.atr, s+1) = <<>> <=> s + 1 = Len(card.atr)
        /\ raw \in Bytes /\ Left(card.atr, s+1) \in Seq(Bytes)
    BY <1>1, LeftUnfolds DEF Starts
  <2>5. Read(rx, reader, gs, k, rest, raw, Left(card.atr, s+1))
    <3> HIDE DEF s, raw
    <3> QED BY <1>1, <2>2, <2>3, <2>4, ReadsByte DEF Reading
  <2>6. /\ rx.fsm \in ReaderType /\ rx.fsm.atr = AppendByte(reader.atr, raw)
        /\ rx.fsm.convert = Swapped /\ rx.fsm.state # "WAIT_TS" /\ rx.done \in BOOLEAN
        /\ rx.done => Left(card.atr, s+1) = <<>>
        /\ ~rx.done => Left(card.atr, s+1) # <<>>
                       /\ Expected(rx.fsm, gs, k, rest, Left(card.atr, s+1))
    BY <2>5, Zenon DEF Read
  <2>7. reader'.atr = Stored(card.atr, s+1) /\ reader'.atr # <<>>
    BY <1>1, <2>1, <2>2, <2>6, StoredAppends DEF Reading
  <2>8. /\ IsPrefix(reader'.atr, SubSeq(card.atr, 1, s+1)) /\ Len(reader'.atr) <= Cap
    <3>1. s + 1 \in 0..Len(card.atr)
      BY <1>1
    <3> QED BY <1>1, <2>7, <3>1, StoredPrefix
  <2>9. AtrTypes'
    <3>1. reader' \in ReaderType
      BY <2>1, <2>6
    <3>2. main' \in {"reset", "atr", "done", "ready", "error", "removed"}
      BY <1>4, <2>1
    <3> HIDE DEF rx
    <3> QED BY <1>1, <1>2, <1>3, <2>8, <3>1, <3>2 DEF AtrTypes
  <2>10. card.atr # <<>> /\ card.atr[1].role = "TS"
    BY <1>1, <2>3, AtrShape
  <2> HIDE DEF rx, raw, s
  <2>11. CASE rx.done
    <3>1. main' = "done"
      BY <2>1, <2>11
    <3>2. s + 1 = Len(card.atr)
      BY <2>4, <2>6, <2>11
    <3>3. Reported'
      BY <1>2, <2>7, <2>8, <2>10 DEF Reported
    <3> QED BY <1>2, <2>9, <3>1, <3>2, <3>3 DEF AtrInv
  <2>12. CASE ~rx.done
    <3>1. main' = "atr"
      BY <1>4, <2>1, <2>12
    <3>2. s + 1 < Len(card.atr)
      <4>1. s + 1 # Len(card.atr)
        BY <2>4, <2>6, <2>12
      <4>2. s + 1 \in Int /\ Len(card.atr) \in Int
        BY <1>1
      <4> QED BY <4>1, <4>2, <1>3
    <3>3. Expected(reader', gs, k, rest, Left(card'.atr, card'.sent))
      BY <1>2, <2>1, <2>6, <2>12, Zenon
    <3>4. \E gs1 \in CardGroups, k1 \in 0..MaxHist : \E rest1 :
            /\ IsRest(rest1, gs1, k1) /\ card'.atr = Atr(gs1, k1)
            /\ Expected(reader', gs1, k1, rest1, Left(card'.atr, card'.sent))
      BY <1>2, <2>3, <3>3, Zenon
    <3>5. reader'.state # "WAIT_TS" /\ reader'.convert = Swapped'
      BY <1>3, <2>1, <2>6, Zenon
    <3>6. card'.sent < Len(card'.atr) /\ reader'.atr = Stored(card'.atr, card'.sent)
      BY <1>2, <2>7, <3>2
    <3>7. Reading'
      BY <2>7, <3>4, <3>5, <3>6, Zenon DEF Reading
    <3> QED BY <2>9, <3>1, <3>7 DEF AtrInv
  <2> QED BY <2>6, <2>11, <2>12
<1>5. CASE main # "atr"
  <2>1. reader' = reader /\ main' = main /\ main # "reset"
    BY <1>5 DEF CardSends
  <2>2. AtrTypes'
    BY <1>1, <1>2, <1>3, <2>1 DEF AtrInv, AtrTypes
  <2>3. main = "done" => Reported'
    <3> SUFFICES ASSUME main = "done" PROVE Reported'
      OBVIOUS
    <3>1. /\ reader.atr # <<>> /\ card.atr # <<>> /\ card.atr[1].role = "TS"
          /\ IsPrefix(reader.atr, SubSeq(card.atr, 1, s))
      BY DEF AtrInv, Reported
    <3>2. reader.atr \in Seq(Bytes)
      BY <1>1 DEF ReaderType
    <3>3. s + 1 \in Nat /\ s <= s + 1
      BY <1>1
    <3>4. IsPrefix(reader.atr, SubSeq(card.atr, 1, s+1))
      <4> HIDE DEF s
      <4> QED BY <1>1, <1>3, <3>1, <3>2, <3>3, PrefixGrows
    <3> QED BY <1>2, <2>1, <3>1, <3>4 DEF Reported
  <2>4. Fresh => Fresh'
    BY <2>1 DEF Fresh
  <2> QED BY <1>1, <1>2, <1>5, <2>1, <2>2, <2>3, <2>4 DEF AtrInv
<1> QED BY <1>4, <1>5

\* WTIME_EXP: a part of the ATR is reported, or the FSM restarted.
LEMMA WaitTimeExpiresStep == AtrInv /\ WaitTimeExpires => AtrInv'
<1> SUFFICES ASSUME AtrInv, WaitTimeExpires PROVE AtrInv'
  OBVIOUS
<1>1. main = "atr" /\ inverse' = inverse /\ card' = card /\ Reading /\ AtrTypes
  BY DEF WaitTimeExpires, AtrInv
<1>2. CASE reader.state \in {"WAIT_HIST", "WAIT_TCK"}
  <2>1. reader' = [reader EXCEPT !.state = "DONE"] /\ main' = "done"
    BY <1>2 DEF WaitTimeExpires, Finished
  <2>2. reader' \in ReaderType /\ reader'.atr = reader.atr
    BY <1>1, <2>1 DEF AtrTypes, ReaderType, States
  <2>3. AtrTypes'
    BY <1>1, <2>1, <2>2 DEF AtrTypes
  <2>4. card.atr \in Seq(Bytes) /\ card.sent \in 0..Len(card.atr)
    BY <1>1 DEF AtrTypes, CardType
  <2>5. IsPrefix(reader.atr, SubSeq(card.atr, 1, card.sent)) /\ reader.atr # <<>>
    BY <1>1, <1>2, <2>4, StoredPrefix DEF Reading
  <2>6. card.atr # <<>> /\ card.atr[1].role = "TS"
    BY <1>1, AtrShape DEF Reading
  <2>7. Reported'
    BY <1>1, <2>2, <2>5, <2>6 DEF Reported
  <2> QED BY <2>1, <2>3, <2>7 DEF AtrInv
<1>3. CASE reader.state \notin {"WAIT_HIST", "WAIT_TCK"}
  <2>1. reader' = Restarted(reader) /\ main' = "error"
    BY <1>3 DEF WaitTimeExpires
  <2>2. reader' \in ReaderType /\ Fresh'
    BY <1>1, <2>1, RestartedFresh DEF AtrTypes, Fresh
  <2>3. AtrTypes'
    BY <1>1, <2>1, <2>2, CapAssumption DEF AtrTypes, Fresh
  <2> QED BY <2>1, <2>2, <2>3 DEF AtrInv
<1> QED BY <1>2, <1>3

\* ATR_DONE_IND is answered: the first byte stored is the card's TS, so the UART
\* is given the card's convention.
LEMMA AnswerDoneStep == AtrInv /\ AnswerDone => AtrInv'
<1> SUFFICES ASSUME AtrInv, AnswerDone PROVE AtrInv'
  OBVIOUS
<1>1. /\ main = "done" /\ main' = "ready" /\ reader' = reader /\ card' = card
      /\ AtrTypes /\ Reported
      /\ inverse' = (Head(reader.atr).role = "TS" /\ card.inverse)
  BY DEF AnswerDone, AtrInv
<1>2. Head(reader.atr) = card.atr[1]
  <2> DEFINE p == reader.atr
             a == card.atr
  <2>1. p \in Seq(Bytes) /\ a \in Seq(Bytes) /\ card.sent \in 0..Len(a) /\ p # <<>>
        /\ IsPrefix(p, SubSeq(a, 1, card.sent))
    BY <1>1 DEF AtrTypes, ReaderType, CardType, Reported
  <2> HIDE DEF p, a, Bytes
  <2>2. Len(SubSeq(a, 1, card.sent)) = card.sent
    BY <2>1
  <2>3. /\ Len(p) \in Nat \ {0} /\ Len(p) <= card.sent
        /\ SubSeq(p, 1, Len(p)) = SubSeq(SubSeq(a, 1, card.sent), 1, Len(p))
    BY <2>1, <2>2 DEF IsPrefix
  <2>4. SubSeq(p, 1, Len(p))[1] = p[1]
    BY <2>1, <2>3
  <2>5. SubSeq(SubSeq(a, 1, card.sent), 1, Len(p))[1] = a[1]
    BY <2>1, <2>3
  <2>6. Head(p) = p[1]
    BY <2>1
  <2> QED BY <2>3, <2>4, <2>5, <2>6 DEF p, a
<1>3. inverse' = card.inverse
  <2>1. card.inverse \in BOOLEAN
    BY <1>1 DEF AtrTypes, CardType
  <2>2. Head(reader.atr).role = "TS"
    BY <1>1, <1>2 DEF Reported
  <2> QED BY <1>1, <2>1, <2>2
<1>4. AtrTypes'
  <2>1. card.inverse \in BOOLEAN
    BY <1>1 DEF AtrTypes, CardType
  <2> QED BY <1>1, <1>3, <2>1 DEF AtrTypes
<1> QED BY <1>1, <1>3, <1>4 DEF AtrInv

\* The reset line is asserted.
LEMMA AssertResetStep == AtrInv /\ AssertReset => AtrInv'
<1> SUFFICES ASSUME AtrInv, AssertReset PROVE AtrInv'
  OBVIOUS
<1>1. /\ main' = "reset" /\ reader' = Restarted(reader) /\ inverse' = FALSE
      /\ card' = [atr |-> <<>>, sent |-> 0, inverse |-> FALSE] /\ reader \in ReaderType
  BY DEF AssertReset, AtrInv, AtrTypes, NoCard
<1>2. reader' \in ReaderType /\ Fresh'
  BY <1>1, RestartedFresh DEF Fresh
<1>3. card' \in CardType /\ card'.sent <= Len(card'.atr)
  BY <1>1 DEF CardType
<1>4. Len(reader'.atr) <= Cap /\ inverse' \in BOOLEAN
  <2>1. Len(reader'.atr) = 0
    BY <1>2 DEF Fresh
  <2>2. Len(reader'.atr) <= Cap
    BY <2>1, CapAssumption
  <2>3. inverse' \in BOOLEAN
    BY <1>1
  <2> QED BY <2>2, <2>3
<1>5. AtrTypes'
  BY <1>1, <1>2, <1>3, <1>4, Zenon DEF AtrTypes
<1> QED BY <1>1, <1>2, <1>5 DEF AtrInv

\* A removal empties the ATR.
LEMMA RemoveCardStep == AtrInv /\ RemoveCard => AtrInv'
<1> SUFFICES ASSUME AtrInv, RemoveCard PROVE AtrInv'
  OBVIOUS
<1>1. /\ main' = "removed" /\ reader' = Restarted(reader) /\ inverse' = FALSE
      /\ card' = [card EXCEPT !.sent = Len(card.atr)] /\ AtrTypes
  BY DEF RemoveCard, AtrInv
<1>2. reader' \in ReaderType /\ Fresh'
  BY <1>1, RestartedFresh DEF AtrTypes, Fresh
<1>3. card' \in CardType /\ card'.sent <= Len(card'.atr)
  BY <1>1 DEF AtrTypes, CardType
<1>4. Len(reader'.atr) <= Cap /\ inverse' \in BOOLEAN
  <2>1. Len(reader'.atr) = 0
    BY <1>2 DEF Fresh
  <2>2. Len(reader'.atr) <= Cap
    BY <2>1, CapAssumption
  <2>3. inverse' \in BOOLEAN
    BY <1>1
  <2> QED BY <2>2, <2>3
<1>5. AtrTypes'
  BY <1>1, <1>2, <1>3, <1>4, Zenon DEF AtrTypes
<1> QED BY <1>1, <1>2, <1>5 DEF AtrInv

\* The answer to an ATR that is gone.
LEMMA AnswerRemovedStep == AtrInv /\ AnswerRemoved => AtrInv'
<1> SUFFICES ASSUME AtrInv, AnswerRemoved PROVE AtrInv'
  OBVIOUS
<1>1. /\ main = "removed" /\ main' = "reset" /\ reader' = reader /\ inverse' = card.inverse
      /\ card' = [atr |-> <<>>, sent |-> 0, inverse |-> FALSE] /\ AtrTypes /\ Fresh
  BY DEF AnswerRemoved, AtrInv, NoCard
<1>2. card' \in CardType /\ card'.sent <= Len(card'.atr)
  BY <1>1 DEF CardType
<1>3. inverse' \in BOOLEAN
  BY <1>1 DEF AtrTypes, CardType
<1>4. AtrTypes' /\ Fresh'
  BY <1>1, <1>2, <1>3 DEF AtrTypes, Fresh
<1> QED BY <1>1, <1>4 DEF AtrInv

\* Every step of the reader or the card preserves the invariant.
LEMMA AtrInductive == AtrInv /\ [Next]_vars => AtrInv'
<1> SUFFICES ASSUME AtrInv, [Next]_vars PROVE AtrInv'
  OBVIOUS
<1>1. CASE UNCHANGED vars
  <2>1. reader' = reader /\ main' = main /\ inverse' = inverse /\ card' = card
    BY <1>1 DEF vars
  <2>2. AtrTypes' /\ (Fresh => Fresh') /\ (Reported => Reported')
    BY <2>1 DEF AtrInv, AtrTypes, Fresh, Reported
  <2>3. Reading => Reading'
    BY <2>1, Zenon DEF Reading, Swapped
  <2> QED BY <2>1, <2>2, <2>3 DEF AtrInv
<1>2. CASE Next
  BY <1>2, ReleaseResetStep, CardSendsStep, WaitTimeExpiresStep, AnswerDoneStep,
     AssertResetStep, RemoveCardStep, AnswerRemovedStep DEF Next
<1> QED BY <1>1, <1>2

\* The invariant holds in every state of every behaviour.
LEMMA AtrAlways == Spec => []AtrInv
  BY AtrInit, AtrInductive, PTL DEF Spec

-----------------------------------------------------------------------------
(* The theorems. *)

\* The ATR FSM and the card keep their types: the ATR never outgrows its buffer
\* (msgb_tailroom in atr_append_byte), hist_len never falls below zero, and only
\* protocols a card announced are remembered.
THEOREM AtrTypeCorrect == Spec => []TypeOK
<1>1. AtrInv => TypeOK
  BY DEF AtrInv, AtrTypes, ReaderType, CardType, TypeOK
<1> QED BY <1>1, AtrAlways, PTL

\* The bytes that atr_append_byte stores are those the card sent, in their order
\* and in the card's convention, whatever card was read before.
THEOREM AtrStoredFaithfully == Spec => []AtrFaithful
<1>1. AtrInv => AtrFaithful
  <2> SUFFICES ASSUME AtrInv, main \in {"atr", "done"}
               PROVE  IsPrefix(reader.atr, SubSeq(card.atr, 1, card.sent))
    BY DEF AtrFaithful
  <2>1. card.atr \in Seq(Bytes) /\ card.sent \in 0..Len(card.atr)
    BY DEF AtrInv, AtrTypes, CardType
  <2> QED BY <2>1, StoredPrefix DEF AtrInv, Reading, Reported
<1> QED BY <1>1, AtrAlways, PTL

\* Once ATR_DONE_IND is answered (iso_fsm_clot_user_cb), the UART uses the
\* convention of the card's TS.
THEOREM UartFollowsConvention == Spec => []ConventionFollowed
<1>1. AtrInv => ConventionFollowed
  BY DEF AtrInv, ConventionFollowed
<1> QED BY <1>1, AtrAlways, PTL

\* The parser and the grammar agree on the end: while the ATR is read a byte is
\* left, and the byte that completes it is the card's last.
THEOREM ParserEndsWithCard == Spec => EndsWithCard
<1>1. AtrInv => (main = "atr" => card.sent < Len(card.atr))
  BY DEF AtrInv, Reading
<1>2. AtrInv /\ [Next]_vars =>
        [main = "atr" /\ main' = "done" /\ card' # card => card'.sent = Len(card'.atr)]_vars
  <2> SUFFICES ASSUME AtrInv, Next, main = "atr", main' = "done", card' # card
               PROVE  card'.sent = Len(card'.atr)
    OBVIOUS
  <2>1. CardSends
    BY DEF Next, ReleaseReset, WaitTimeExpires, AnswerDone, AssertReset, RemoveCard, AnswerRemoved
  <2> QED BY <2>1, CardSendsStep
<1> QED BY <1>1, <1>2, AtrAlways, PTL DEF Spec, EndsWithCard

===============================================================================
