---------------------------- MODULE UsbPoolProofs -----------------------------
(***************************************************************************)
(* The buffers of UsbQueues, for any finite set of commands and any size   *)
(* of the pool: main.c tops up free_q in every turn of the main loop,      *)
(* from a count that may be out of date, and still the heap is not eaten   *)
(* up.                                                                     *)
(*                                                                         *)
(* What is not free is bounded, for a command is in one place and the      *)
(* notifications are (Crowd).  So what the main loop counts in free_q      *)
(* tells how many buffers there are at most, and the correction it makes   *)
(* from that count brings them below NumOutBuf and what is not free, even  *)
(* if an interrupt recycled buffers in between; only the notification of   *)
(* the next turn comes on top.                                             *)
(***************************************************************************)
EXTENDS UsbQueuesProofs

\* 1 if b, else 0.
Bit(b) == IF b THEN 1 ELSE 0

\* The buffers at an endpoint: its list and what is in progress.
Load(u, e) == Len(u.list[e]) + Bit(u.prog[e] # None)

\* Every buffer: the ones in progress or listed, and what was or will be
\* allocated for the answer to the command in progress.
Total(u, a) == Buffers(u) + Bit(a # None)

\* The most that is not free: commands, notifications not yet polled, the buffer
\* to receive into and the notification in progress.
Most == Cardinality(Ids) + MaxNotify + 2

-----------------------------------------------------------------------------
(* How many buffers there are. *)

\* A set is larger by one if an element was added to it.
LEMMA AddBit ==
  ASSUME NEW S, IsFiniteSet(S), NEW x, x \notin S, NEW b \in BOOLEAN
  PROVE  LET T == IF b THEN S \cup {x} ELSE S
         IN  IsFiniteSet(T) /\ Cardinality(T) = Cardinality(S) + Bit(b)
<1>1. Cardinality(S) \in Nat
  BY FS_CardinalityType
<1>2. IsFiniteSet(S \cup {x}) /\ Cardinality(S \cup {x}) = Cardinality(S) + 1
  BY FS_AddElement
<1> QED
  BY <1>1, <1>2 DEF Bit

\* Held counts the endpoints one by one.
LEMMA HeldIs ==
  ASSUME NEW u
  PROVE  Held(u) = Bit(u.prog["out"] # None) + Bit(u.prog["in"] # None)
                     + Bit(u.prog["irq"] # None)
<1> DEFINE o == u.prog["out"] # None
           i == u.prog["in"] # None
           q == u.prog["irq"] # None
           A == IF o THEN {} \cup {"out"} ELSE {}
           B == IF i THEN A \cup {"in"} ELSE A
           C == IF q THEN B \cup {"irq"} ELSE B
<1>1. IsFiniteSet({}) /\ Cardinality({}) = 0
  BY FS_EmptySet
<1>2. o \in BOOLEAN /\ i \in BOOLEAN /\ q \in BOOLEAN
  OBVIOUS
<1>3. "in" \notin A /\ "irq" \notin B
  OBVIOUS
<1>4. C = {e \in Eps : u.prog[e] # None}
  BY DEF Eps
<1> HIDE DEF o, i, q
<1>5. IsFiniteSet(A) /\ Cardinality(A) = 0 + Bit(o)
  BY <1>1, <1>2, AddBit
<1>6. IsFiniteSet(B) /\ Cardinality(B) = Cardinality(A) + Bit(i)
  <2> HIDE DEF A
  <2> QED BY <1>5, <1>2, <1>3, AddBit
<1>7. IsFiniteSet(C) /\ Cardinality(C) = Cardinality(B) + Bit(q)
  <2> HIDE DEF B
  <2> QED BY <1>6, <1>2, <1>3, AddBit
<1>8. Held(u) = Cardinality(C)
  <2> HIDE DEF C
  <2> QED BY <1>4 DEF Held
<1> HIDE DEF A, B, C
<1>9. Held(u) = Bit(o) + Bit(i) + Bit(q)
  BY <1>5, <1>6, <1>7, <1>8 DEF Bit
<1> QED
  BY <1>9 DEF o, i, q

\* All buffers are the free ones and those at the endpoints.
LEMMA BuffersSum ==
  ASSUME NEW u, Typed(u)
  PROVE  /\ u.free \in Nat /\ \A e \in Eps : Load(u, e) \in Nat
         /\ Buffers(u) = u.free + Load(u, "out") + Load(u, "in") + Load(u, "irq")
<1>1. \A e \in Eps : Len(u.list[e]) \in Nat
  BY LenIsNat DEF Typed, EpType
<1>2. u.free \in Nat
  BY DEF Typed, USB
<1>3. "out" \in Eps /\ "in" \in Eps /\ "irq" \in Eps
  BY DEF Eps
<1>4. \A e \in Eps : Bit(u.prog[e] # None) \in Nat
  BY DEF Bit
<1>5. \A e \in Eps : Load(u, e) \in Nat
  BY <1>1, <1>4 DEF Load
<1>6. Buffers(u) = u.free + Load(u, "out") + Load(u, "in") + Load(u, "irq")
  <2> DEFINE ol == Len(u.list["out"])
             il == Len(u.list["in"])
             ql == Len(u.list["irq"])
             op == Bit(u.prog["out"] # None)
             ip == Bit(u.prog["in"] # None)
             qp == Bit(u.prog["irq"] # None)
  <2>1. /\ ol \in Nat /\ il \in Nat /\ ql \in Nat
        /\ op \in Nat /\ ip \in Nat /\ qp \in Nat
    BY <1>1, <1>3, <1>4
  <2>2. Buffers(u) = u.free + (op + ip + qp) + (ol + il + ql)
    BY HeldIs, Zenon DEF Buffers, Listed
  <2>3. Load(u, "out") = ol + op /\ Load(u, "in") = il + ip /\ Load(u, "irq") = ql + qp
    BY Zenon DEF Load
  <2> HIDE DEF ol, il, ql, op, ip, qp
  <2> QED
    BY <1>2, <2>1, <2>2, <2>3
<1> QED
  BY <1>2, <1>5, <1>6

\* v is u but for endpoint e and the free list, and has k buffers more.
Differs(u, v, e, k) ==
  /\ \A d \in Eps \ {e} : v.prog[d] = u.prog[d] /\ v.list[d] = u.list[d]
  /\ v.free + Load(v, e) = u.free + Load(u, e) + k

\* What changes at one endpoint and in the free list adds up.
LEMMA BuffersDiffer ==
  ASSUME NEW u, NEW v, NEW e \in Eps, NEW k \in Int,
         Typed(u), Typed(v), Differs(u, v, e, k)
  PROVE  Buffers(v) = Buffers(u) + k
<1>1. \A d \in Eps \ {e} : Load(v, d) = Load(u, d)
  BY DEF Differs, Load
<1>2. v.free + Load(v, e) = u.free + Load(u, e) + k
  BY DEF Differs
<1>3. e \in {"out", "in", "irq"} /\ Eps = {"out", "in", "irq"}
  BY DEF Eps
<1>4. /\ u.free \in Nat /\ v.free \in Nat
      /\ \A d \in Eps : Load(u, d) \in Nat /\ Load(v, d) \in Nat
      /\ Buffers(u) = u.free + Load(u, "out") + Load(u, "in") + Load(u, "irq")
      /\ Buffers(v) = v.free + Load(v, "out") + Load(v, "in") + Load(v, "irq")
  BY BuffersSum
<1>5. /\ Load(v, "out") \in Nat /\ Load(v, "in") \in Nat /\ Load(v, "irq") \in Nat
      /\ Load(u, "out") \in Nat /\ Load(u, "in") \in Nat /\ Load(u, "irq") \in Nat
  BY <1>3, <1>4
<1>6. \/ /\ v.free + Load(v, "out") = u.free + Load(u, "out") + k
         /\ Load(v, "in") = Load(u, "in") /\ Load(v, "irq") = Load(u, "irq")
      \/ /\ v.free + Load(v, "in") = u.free + Load(u, "in") + k
         /\ Load(v, "out") = Load(u, "out") /\ Load(v, "irq") = Load(u, "irq")
      \/ /\ v.free + Load(v, "irq") = u.free + Load(u, "irq") + k
         /\ Load(v, "out") = Load(u, "out") /\ Load(v, "in") = Load(u, "in")
  BY <1>1, <1>2, <1>3
<1> QED
  BY <1>4, <1>5, <1>6

\* The drivers' records do not matter for the number of buffers.
LEMMA SameBuffers ==
  ASSUME NEW u, NEW v, v.free = u.free, v.prog = u.prog, v.list = u.list
  PROVE  Buffers(v) = Buffers(u)
BY DEF Buffers, Held, Listed

-----------------------------------------------------------------------------
(* What the operators do to their number. *)

\* msgb_alloc: a message that is put into a list is one buffer more.
LEMMA EnqueueBuffers ==
  ASSUME NEW u, Typed(u), NEW e \in Eps, NEW m \in Content[e]
  PROVE  Buffers(Enqueue(u, e, m)) = Buffers(u) + 1
<1> DEFINE v == Enqueue(u, e, m)
<1>1. /\ Typed(v) /\ v.prog = u.prog
      /\ v.list[e] = Append(u.list[e], m)
      /\ \A d \in Eps \ {e} : v.list[d] = u.list[d]
  BY EnqueueEffect
<1>2. v.free = u.free
  BY DEF Enqueue, Typed, USB
<1>3. Len(Append(u.list[e], m)) = Len(u.list[e]) + 1 /\ Len(u.list[e]) \in Nat
  BY DEF Typed, EpType
<1>4. u.free \in Nat
  BY DEF Typed, USB
<1> HIDE DEF v
<1>5. Bit(u.prog[e] # None) \in Nat
  BY DEF Bit
<1>6. v.free + Load(v, e) = u.free + Load(u, e) + 1
  BY <1>1, <1>2, <1>3, <1>4, <1>5 DEF Load
<1>7. Differs(u, v, e, 1)
  BY <1>1, <1>6 DEF Differs
<1> QED
  BY <1>1, <1>7, BuffersDiffer DEF v

\* A completion interrupt makes a buffer free that was in progress.
LEMMA RecycledBuffers ==
  ASSUME NEW u, Typed(u), NEW e \in Eps
  PROVE  Buffers(Recycled(u, e)) = Buffers(u)
<1> DEFINE v == Recycled(u, e)
<1>1. CASE u.prog[e] = None
  BY <1>1 DEF Recycled
<1>2. CASE u.prog[e] # None
  <2>1. /\ Typed(v) /\ v.list = u.list /\ v.prog[e] = None
        /\ \A d \in Eps \ {e} : v.prog[d] = u.prog[d]
    BY RecycledEffect
  <2>2. v.free = u.free + 1
    BY <1>2 DEF Typed, USB, Recycled, Freed
  <2>3. Len(u.list[e]) \in Nat /\ u.free \in Nat
    BY DEF Typed, EpType, USB
  <2> HIDE DEF v
  <2>4. Differs(u, v, e, 0)
    BY <1>2, <2>1, <2>2, <2>3 DEF Differs, Load, Bit
  <2>5. Buffers(v) = Buffers(u) + 0
    BY <2>1, <2>4, BuffersDiffer
  <2>6. Buffers(u) \in Nat
    BY BuffersSum DEF Eps
  <2> QED
    BY <2>5, <2>6 DEF v
<1> QED
  BY <1>1, <1>2

\* So does a transfer that is aborted, at one endpoint ...
LEMMA StopBuffers ==
  ASSUME NEW u, Typed(u), NEW e \in Eps
  PROVE  Buffers(Stop(u, e)) = Buffers(u)
<1> DEFINE w == [u EXCEPT !.hw[e] = Stopped(@)]
<1>1. CASE ~u.hw[e].busy
  BY <1>1 DEF Stop
<1>2. CASE u.hw[e].busy
  <2>1. u.hw[e] \in EndpointType(Kind[e])
    BY DEF Typed, EpType
  <2>2. Stopped(u.hw[e]) \in EndpointType(Kind[e]) /\ ~Stopped(u.hw[e]).busy
    BY <2>1 DEF Stopped, EndpointType
  <2>3. w = [u EXCEPT !.hw[e] = Stopped(u.hw[e])]
    OBVIOUS
  <2>4. Typed(w) /\ w.prog = u.prog /\ w.list = u.list
    BY <2>2, <2>3, NewLine
  <2>5. w.free = u.free
    BY DEF Typed, USB
  <2>6. Stop(u, e) = Recycled(w, e)
    BY <1>2 DEF Stop
  <2> HIDE DEF w
  <2> QED
    BY <2>4, <2>5, <2>6, RecycledBuffers, SameBuffers
<1> QED
  BY <1>1, <1>2

\* ... and at all of them, as a reset aborts them.
LEMMA StopAllBuffers ==
  ASSUME NEW u, Typed(u)
  PROVE  Buffers(StopAll(u)) = Buffers(u)
<1> DEFINE a == Stop(u, "in")
           b == Stop(a, "irq")
<1>1. "in" \in Eps /\ "irq" \in Eps /\ "out" \in Eps
  BY DEF Eps
<1>2. Typed(a) /\ Buffers(a) = Buffers(u)
  BY <1>1, StopEffect, StopBuffers
<1>3. Typed(b) /\ Buffers(b) = Buffers(a)
  <2> HIDE DEF a
  <2> QED BY <1>1, <1>2, StopEffect, StopBuffers
<1>4. Buffers(Stop(b, "out")) = Buffers(b)
  <2> HIDE DEF b
  <2> QED BY <1>1, <1>3, StopBuffers
<1> QED
  BY <1>2, <1>3, <1>4 DEF StopAll

\* The critical section of a submit routine moves a buffer.
LEMMA TakenBuffers ==
  ASSUME NEW u, Typed(u), NEW e \in Eps, NextMsg(u, e) # None
  PROVE  Buffers(Taken(u, e)) = Buffers(u)
<1> DEFINE v == Taken(u, e)
<1>1. /\ Typed(v) /\ v.prog[e] = NextMsg(u, e)
      /\ v.list[e] = IF e = "out" THEN u.list[e] ELSE Tail(u.list[e])
      /\ \A d \in Eps \ {e} : v.prog[d] = u.prog[d] /\ v.list[d] = u.list[d]
  BY TakenEffect
<1>2. /\ u.prog[e] = None
      /\ e = "out" => u.free > 0
      /\ e # "out" => u.list[e] # <<>>
  BY NextMsgFacts
<1>3. v.free = IF e = "out" THEN u.free - 1 ELSE u.free
  BY DEF Taken, Typed, USB
<1>4. /\ u.list[e] \in Seq(Content[e]) /\ Len(u.list[e]) \in Nat /\ u.free \in Nat
      /\ u.list[e] # <<>> => Len(Tail(u.list[e])) = Len(u.list[e]) - 1
  BY DEF Typed, EpType, USB
<1> HIDE DEF v
<1>5. v.free + Load(v, e) = u.free + Load(u, e) + 0
  BY <1>1, <1>2, <1>3, <1>4 DEF Load, Bit
<1>6. Buffers(v) = Buffers(u) + 0
  <2>1. Differs(u, v, e, 0)
    BY <1>1, <1>5 DEF Differs
  <2> QED
    BY <1>1, <2>1, BuffersDiffer
<1>7. Buffers(u) \in Nat
  BY BuffersSum DEF Eps
<1> QED
  BY <1>6, <1>7 DEF v

\* A refused submission frees the buffer that was in progress, and only that one:
\* an interrupt must not have recycled it before.
LEMMA SubmittedBuffers ==
  ASSUME NEW u, Typed(u), NEW e \in Eps, NEW m \in Kind[e], m # None, u.prog[e] # None
  PROVE  Buffers(Submitted(u, e, m)) = Buffers(u)
<1> DEFINE v == Submitted(u, e, m)
<1>1. /\ Typed(v) /\ v.list = u.list
      /\ \A d \in Eps \ {e} : v.prog[d] = u.prog[d]
      /\ Succeeded(u, v, e, m) \/ Failed(u, v, e)
  BY SubmittedEffect
<1>2. v.free = IF enabled /\ Accepts(u.hw[e]) THEN u.free ELSE u.free + 1
  <2>1. CASE enabled /\ Accepts(u.hw[e])
    BY <2>1 DEF Submitted, Taking, Typed, USB
  <2>2. CASE ~(enabled /\ Accepts(u.hw[e]))
    <3>1. v = Freed([u EXCEPT !.hw[e] = IF enabled THEN Refused(@) ELSE @, !.prog[e] = None])
      BY <2>2 DEF Submitted, Taking
    <3> QED
      BY <2>2, <3>1 DEF Freed, Typed, USB
  <2> QED
    BY <2>1, <2>2
<1>3. Len(u.list[e]) \in Nat /\ u.free \in Nat
  BY DEF Typed, EpType, USB
<1> HIDE DEF v
<1>4. v.free + Load(v, e) = u.free + Load(u, e) + 0
  <2>1. Len(v.list[e]) = Len(u.list[e])
    BY <1>1
  <2>2. CASE Succeeded(u, v, e, m)
    <3>1. v.prog[e] # None /\ v.free = u.free
      BY <1>2, <2>2 DEF Succeeded
    <3> QED
      BY <1>3, <2>1, <3>1 DEF Load, Bit
  <2>3. CASE Failed(u, v, e)
    <3>1. v.prog[e] = None /\ v.free = u.free + 1
      BY <1>2, <2>3 DEF Failed
    <3> QED
      BY <1>3, <2>1, <3>1 DEF Load, Bit
  <2> QED
    BY <1>1, <2>2, <2>3
<1>5. Buffers(v) = Buffers(u) + 0
  <2>1. Differs(u, v, e, 0)
    BY <1>1, <1>4 DEF Differs
  <2> QED
    BY <1>1, <2>1, BuffersDiffer
<1>6. Buffers(u) \in Nat
  BY BuffersSum DEF Eps
<1> QED
  BY <1>5, <1>6 DEF v

\* A submit routine neither allocates nor loses a buffer.
LEMMA SubmitNextBuffers ==
  ASSUME NEW u, Typed(u), NEW e \in Eps
  PROVE  /\ Buffers(SubmitNext(u, e)) = Buffers(u)
         /\ Len(SubmitNext(u, e).list["irq"]) <= Len(u.list["irq"])
<1> DEFINE m == NextMsg(u, e)
           w == Taken(u, e)
<1>0. u.list["irq"] \in Seq(SUBSET Slots) /\ Len(u.list["irq"]) \in Nat
  BY ListTypes
<1>1. CASE m = None
  BY <1>0, <1>1 DEF SubmitNext
<1>2. CASE m # None
  <2>1. /\ Typed(w) /\ w.prog[e] = m /\ Buffers(w) = Buffers(u)
        /\ w.list[e] = IF e = "out" THEN u.list[e] ELSE Tail(u.list[e])
        /\ \A d \in Eps \ {e} : w.list[d] = u.list[d]
    BY <1>2, TakenEffect, TakenBuffers
  <2>2. m \in Kind[e] /\ (e # "out" => u.list[e] # <<>>)
    BY <1>2, NextMsgFacts
  <2>3. SubmitNext(u, e) = Submitted(w, e, m)
    BY <1>2 DEF SubmitNext
  <2> HIDE DEF m, w
  <2>4. /\ Buffers(Submitted(w, e, m)) = Buffers(w)
        /\ Submitted(w, e, m).list = w.list
    BY <1>2, <2>1, <2>2, SubmittedEffect, SubmittedBuffers
  <2>5. Len(w.list["irq"]) <= Len(u.list["irq"])
    <3>1. CASE e # "irq"
      BY <1>0, <2>1, <3>1 DEF Eps
    <3>2. CASE e = "irq"
      <4>1. w.list["irq"] = Tail(u.list["irq"]) /\ u.list["irq"] # <<>>
        BY <2>1, <2>2, <3>2
      <4>2. Len(Tail(u.list["irq"])) = Len(u.list["irq"]) - 1
        BY <1>0, <4>1
      <4> QED
        BY <1>0, <4>1, <4>2
    <3> QED
      BY <3>1, <3>2
  <2> QED
    BY <2>1, <2>3, <2>4, <2>5
<1> QED
  BY <1>1, <1>2

\* Nor does a completion interrupt.
LEMMA RecycledNextBuffers ==
  ASSUME NEW u, Typed(u), NEW e \in Eps
  PROVE  /\ Buffers(RecycledNext(u, e)) = Buffers(u)
         /\ Len(RecycledNext(u, e).list["irq"]) <= Len(u.list["irq"])
<1> DEFINE w == Recycled(u, e)
<1>1. Typed(w) /\ w.list = u.list /\ Buffers(w) = Buffers(u)
  BY RecycledEffect, RecycledBuffers
<1>2. RecycledNext(u, e) = SubmitNext(w, e)
  BY DEF RecycledNext
<1> HIDE DEF w
<1>3. /\ Buffers(SubmitNext(w, e)) = Buffers(w)
      /\ Len(SubmitNext(w, e).list["irq"]) <= Len(w.list["irq"])
  BY <1>1, SubmitNextBuffers
<1> QED
  BY <1>1, <1>2, <1>3

\* A received message keeps its buffer.
LEMMA OutDoneBuffers ==
  ASSUME NEW u, Typed(u), NEW id \in Ids, u.prog["out"] # None
  PROVE  /\ Buffers(OutDone(u, id)) = Buffers(u)
         /\ Len(OutDone(u, id).list["irq"]) <= Len(u.list["irq"])
<1> DEFINE q == Enqueue(u, "out", id)
           r == [q EXCEPT !.prog["out"] = None]
<1>1. "out" \in Eps /\ "irq" \in Eps \ {"out"}
  BY DEF Eps
<1>2. /\ Typed(q) /\ q.prog = u.prog /\ q.list["irq"] = u.list["irq"]
      /\ Buffers(q) = Buffers(u) + 1
  BY <1>1, Kinds, EnqueueEffect, EnqueueBuffers
<1>3. OutDone(u, id) = SubmitNext(r, "out")
  BY DEF OutDone
<1> HIDE DEF q
<1>4. /\ Typed(r) /\ r.free = q.free /\ r.list = q.list /\ r.prog["out"] = None
      /\ \A d \in Eps \ {"out"} : r.prog[d] = q.prog[d]
  <2>1. /\ r.hw = q.hw /\ r.list = q.list /\ r.free = q.free
        /\ r.prog = [q.prog EXCEPT !["out"] = None]
    BY <1>2 DEF Typed, USB
  <2>2. r.prog \in [Eps -> Msgs \cup {None}] /\ r = [q EXCEPT !.prog = r.prog]
    BY <1>2, <2>1 DEF Typed, USB
  <2>3. r.prog["out"] = None /\ \A d \in Eps \ {"out"} : r.prog[d] = q.prog[d]
    BY <1>1, <1>2, <2>1 DEF Typed, USB
  <2> HIDE DEF r
  <2>4. r \in USB
    BY <1>2, <2>2 DEF Typed, USB
  <2>5. Typed(r)
    BY <1>2, <2>1, <2>3, <2>4 DEF Typed, EpType
  <2> QED
    BY <2>1, <2>3, <2>5
<1> HIDE DEF r
<1>5. Buffers(r) = Buffers(u)
  <2>1. Len(q.list["out"]) \in Nat /\ q.free \in Nat
    BY <1>1, <1>2 DEF Typed, EpType, USB
  <2>2. r.free + Load(r, "out") = q.free + Load(q, "out") + (-1)
    BY <1>2, <1>4, <2>1 DEF Load, Bit
  <2>3. Differs(q, r, "out", -1)
    BY <1>4, <2>2 DEF Differs
  <2>4. Buffers(r) = Buffers(q) + (-1)
    BY <1>1, <1>2, <1>4, <2>3, BuffersDiffer
  <2>5. Buffers(u) \in Nat
    BY BuffersSum DEF Eps
  <2> QED
    BY <1>2, <2>4, <2>5
<1>6. /\ Buffers(SubmitNext(r, "out")) = Buffers(r)
      /\ Len(SubmitNext(r, "out").list["irq"]) <= Len(r.list["irq"])
  BY <1>1, <1>4, SubmitNextBuffers
<1> QED
  BY <1>2, <1>3, <1>4, <1>5, <1>6

\* The flush after a reset makes all buffers free.
LEMMA FlushedBuffers ==
  ASSUME NEW u, Typed(u)
  PROVE  Buffers(Flushed(u)) = Buffers(u)
<1> DEFINE v == Flushed(u)
<1>1. Typed(v) /\ \A e \in Eps : v.list[e] = <<>> /\ v.prog[e] = None
  BY FlushedEffect
<1>2. v.free = u.free + Listed(u) + Held(u)
  BY DEF Flushed, Typed, USB
<1> HIDE DEF v
<1>3. \A e \in Eps : Load(v, e) = 0
  <2> TAKE e \in Eps
  <2>1. Len(v.list[e]) = 0 /\ Bit(v.prog[e] # None) = 0
    BY <1>1 DEF Bit
  <2> QED
    BY <2>1 DEF Load
<1>4. Buffers(v) = v.free
  <2>1. Load(v, "out") = 0 /\ Load(v, "in") = 0 /\ Load(v, "irq") = 0
    BY <1>3 DEF Eps
  <2> QED
    BY <1>1, <2>1, BuffersSum
<1>5. Held(u) \in Nat /\ Listed(u) \in Nat /\ u.free \in Nat
  <2>1. u.list["out"] \in Seq(Ids) /\ u.list["in"] \in Seq(Ids)
        /\ u.list["irq"] \in Seq(SUBSET Slots)
    BY ListTypes
  <2>2. /\ Len(u.list["out"]) \in Nat /\ Len(u.list["in"]) \in Nat
        /\ Len(u.list["irq"]) \in Nat
    BY <2>1, LenIsNat
  <2>3. Listed(u) \in Nat
    <3> DEFINE ol == Len(u.list["out"])
               il == Len(u.list["in"])
               ql == Len(u.list["irq"])
    <3>1. ol \in Nat /\ il \in Nat /\ ql \in Nat
      BY <2>2
    <3>2. Listed(u) = ol + il + ql
      BY DEF Listed
    <3> HIDE DEF ol, il, ql
    <3> QED
      BY <3>1, <3>2
  <2> QED
    BY <2>3, HeldIsNat DEF Typed, USB
<1> QED
  BY <1>2, <1>4, <1>5 DEF Buffers, v

\* The answer to the command a reset finds in progress needs a buffer.
LEMMA AnsweredBuffers ==
  ASSUME NEW u, Typed(u), async \in Ids \cup {None}
  PROVE  Buffers(AnsweredByReset(u)) = Total(u, async)
<1>0. Buffers(u) \in Nat
  BY BuffersSum DEF Eps
<1>1. CASE async = None
  BY <1>0, <1>1 DEF AnsweredByReset, Total, Bit
<1>2. CASE async # None
  <2> DEFINE w == Enqueue(u, "in", async)
  <2>1. "in" \in Eps /\ async \in Content["in"]
    BY <1>2, Kinds DEF Eps
  <2>2. Typed(w) /\ Buffers(w) = Buffers(u) + 1
    BY <2>1, EnqueueEffect, EnqueueBuffers
  <2>3. AnsweredByReset(u) = SubmitNext(w, "in")
    BY <1>2 DEF AnsweredByReset
  <2> HIDE DEF w
  <2>4. Buffers(SubmitNext(w, "in")) = Buffers(w)
    BY <2>1, <2>2, SubmitNextBuffers
  <2> QED
    BY <1>2, <2>2, <2>3, <2>4 DEF Total, Bit
<1> QED
  BY <1>1, <1>2

-----------------------------------------------------------------------------
(* What is not free. *)

\* A list without repetitions is as long as it has elements.
LEMMA DistinctLength ==
  ASSUME NEW S, NEW s \in Seq(S), Distinct(s)
  PROVE  IsFiniteSet(Elems(s)) /\ Cardinality(Elems(s)) = Len(s)
<1>1. Len(s) \in Nat /\ DOMAIN s = 1..Len(s)
  OBVIOUS
<1>2. s \in [1..Len(s) -> Elems(s)]
  BY <1>1 DEF Elems
<1>3. s \in Bijection(1..Len(s), Elems(s))
  BY <1>1, <1>2 DEF Bijection, Injection, Surjection, IsInjective, Distinct, Elems
<1>4. ExistsBijection(1..Len(s), Elems(s))
  BY <1>3 DEF ExistsBijection
<1>5. IsFiniteSet(Elems(s))
  BY <1>1, <1>4, FS_NatBijection
<1> QED
  BY <1>1, <1>4, <1>5, FS_CountingElements

\* The commands in the reader are different ones, so there are at most as many as
\* the host has.
LEMMA CommandsFit ==
  ASSUME IInv, IsFiniteSet(Ids)
  PROVE  /\ Cardinality(Ids) \in Nat
         /\ Len(usb.list["out"]) + Load(usb, "in") + Bit(async # None) <= Cardinality(Ids)
<1> DEFINE O == Elems(usb.list["out"])
           I == Elems(usb.list["in"])
           p == usb.prog["in"]
           A == IF p # None THEN (O \cup I) \cup {p} ELSE O \cup I
           B == IF async # None THEN A \cup {async} ELSE A
<1>1. /\ usb.list["out"] \in Seq(Ids) /\ usb.list["in"] \in Seq(Ids)
      /\ p \in Ids \cup {None} /\ async \in Ids \cup {None}
  BY ListTypes DEF IInv, Types
<1>2. /\ Distinct(usb.list["out"]) /\ Distinct(usb.list["in"]) /\ O \cap I = {}
      /\ p \notin O \cup I /\ async \notin O \cup I /\ (async = p => async = None)
  BY DEF IInv, OncePlaced
<1>3. /\ IsFiniteSet(O) /\ Cardinality(O) = Len(usb.list["out"])
      /\ IsFiniteSet(I) /\ Cardinality(I) = Len(usb.list["in"])
  BY <1>1, <1>2, DistinctLength
<1>4. O \subseteq Ids /\ I \subseteq Ids
  BY <1>1, ElemsType
<1>5. B \subseteq Ids
  BY <1>1, <1>4
<1>6. async # None => async \notin A
  BY <1>2
<1>7. Len(usb.list["out"]) \in Nat /\ Len(usb.list["in"]) \in Nat
  BY <1>1, LenIsNat
<1>8. p \notin O \cup I
  BY <1>2
<1> HIDE DEF p
<1>9. /\ IsFiniteSet(O \cup I)
      /\ Cardinality(O \cup I) = Len(usb.list["out"]) + Len(usb.list["in"])
  <2> HIDE DEF O, I
  <2>1. /\ IsFiniteSet(O \cup I)
        /\ Cardinality(O \cup I) = Cardinality(O) + Cardinality(I) - Cardinality(O \cap I)
    BY <1>3, FS_Union
  <2>2. Cardinality(O \cap I) = 0
    BY <1>2, FS_EmptySet
  <2>3. IsFiniteSet(O) /\ IsFiniteSet(I)
    BY <1>3
  <2>4. Cardinality(O) \in Nat /\ Cardinality(I) \in Nat
    BY <2>3, FS_CardinalityType
  <2>5. Cardinality(O \cup I) = Cardinality(O) + Cardinality(I)
    BY <2>1, <2>2, <2>4
  <2> QED
    BY <1>3, <2>1, <2>5, Zenon
<1>10. IsFiniteSet(A) /\ Cardinality(A) = Cardinality(O \cup I) + Bit(p # None)
  <2> HIDE DEF O, I
  <2>1. (p # None) \in BOOLEAN
    OBVIOUS
  <2> QED BY <1>8, <1>9, <2>1, AddBit
<1>11. IsFiniteSet(B) /\ Cardinality(B) = Cardinality(A) + Bit(async # None)
  <2> HIDE DEF A
  <2>1. CASE async = None
    <3>1. Cardinality(A) \in Nat
      BY <1>10, FS_CardinalityType
    <3> QED
      BY <1>10, <2>1, <3>1 DEF Bit
  <2>2. CASE async # None
    <3>1. (async # None) \in BOOLEAN
      OBVIOUS
    <3> QED
      BY <1>6, <1>10, <2>2, <3>1, AddBit
  <2> QED
    BY <2>1, <2>2
<1>12. Cardinality(B) <= Cardinality(Ids) /\ Cardinality(Ids) \in Nat
  <2> HIDE DEF B
  <2> QED BY <1>5, FS_Subset, FS_CardinalityType
<1> HIDE DEF A, B, O, I
<1>13. Load(usb, "in") = Len(usb.list["in"]) + Bit(p # None)
  BY DEF Load, p
<1>14. Bit(p # None) \in Nat /\ Bit(async # None) \in Nat
  BY DEF Bit
<1> DEFINE ol == Len(usb.list["out"])
           il == Len(usb.list["in"])
           ip == Bit(p # None)
           a == Bit(async # None)
<1>15. Cardinality(B) = ((ol + il) + ip) + a
  BY <1>9, <1>10, <1>11, Zenon
<1>16. ol \in Nat /\ il \in Nat /\ ip \in Nat /\ a \in Nat
  BY <1>7, <1>14
<1>17. Len(usb.list["out"]) + Load(usb, "in") + Bit(async # None) = ol + (il + ip) + a
  BY <1>13, Zenon
<1> HIDE DEF ol, il, ip, a
<1>18. ol + (il + ip) + a <= Cardinality(Ids)
  BY <1>12, <1>15, <1>16
<1> QED
  BY <1>12, <1>17, <1>18, Zenon

\* What is not free is bounded by Most.
LEMMA Crowd ==
  ASSUME IInv, IsFiniteSet(Ids), Len(usb.list["irq"]) <= MaxNotify
  PROVE  /\ Most \in Nat /\ Total(usb, async) \in Nat /\ usb.free \in Nat
         /\ Total(usb, async) <= usb.free + Most
<1>1. Typed(usb)
  BY DEF IInv, Types
<1>2. /\ Cardinality(Ids) \in Nat
      /\ Len(usb.list["out"]) + Load(usb, "in") + Bit(async # None) <= Cardinality(Ids)
  BY CommandsFit
<1>3. /\ usb.free \in Nat /\ Load(usb, "in") \in Nat
      /\ Buffers(usb) = usb.free + Load(usb, "out") + Load(usb, "in") + Load(usb, "irq")
  BY <1>1, BuffersSum DEF Eps
<1>4. Len(usb.list["out"]) \in Nat /\ Len(usb.list["irq"]) \in Nat
  BY <1>1, ListTypes, LenIsNat
<1>5. /\ Bit(usb.prog["out"] # None) \in 0..1 /\ Bit(usb.prog["irq"] # None) \in 0..1
      /\ Bit(async # None) \in 0..1
  BY DEF Bit
<1>6. /\ Load(usb, "out") = Len(usb.list["out"]) + Bit(usb.prog["out"] # None)
      /\ Load(usb, "irq") = Len(usb.list["irq"]) + Bit(usb.prog["irq"] # None)
  BY DEF Load
<1>7. MaxNotify \in Nat
  BY PoolAssumption
<1> DEFINE ol == Len(usb.list["out"])
           ql == Len(usb.list["irq"])
           op == Bit(usb.prog["out"] # None)
           qp == Bit(usb.prog["irq"] # None)
           a == Bit(async # None)
           in == Load(usb, "in")
           c == Cardinality(Ids)
           free == usb.free
<1>8. /\ ol \in Nat /\ ql \in Nat /\ in \in Nat /\ c \in Nat /\ free \in Nat
      /\ op \in 0..1 /\ qp \in 0..1 /\ a \in 0..1
      /\ ol + in + a <= c /\ ql <= MaxNotify
  BY <1>2, <1>3, <1>4, <1>5
<1>9. Total(usb, async) = free + (ol + op) + in + (ql + qp) + a
  BY <1>3, <1>6, Zenon DEF Total
<1>10. Most = c + MaxNotify + 2
  BY DEF Most
<1> HIDE DEF ol, ql, op, qp, a, in, c
<1>11. Most \in Nat
  BY <1>7, <1>8, <1>10
<1>12. free + (ol + op) + in + (ql + qp) + a \in Nat
  BY <1>8
<1>13. free + (ol + op) + in + (ql + qp) + a <= free + (c + MaxNotify + 2)
  BY <1>7, <1>8
<1> QED
  BY <1>8, <1>9, <1>10, <1>11, <1>12, <1>13, Zenon

-----------------------------------------------------------------------------
(* The inductive invariant and its steps. *)

\* The places of the main loop between AdjustPool and CardDetect.
Settled == {"out", "top", "enable", "resubmit", "detect"}

\* The inductive invariant. A card moves only while notifications are below their
\* bound, so the one it causes has room; after CountFree, the count tells how many
\* buffers there are.
PoolInv ==
  /\ Len(usb.list["irq"]) <= MaxNotify
  /\ inserted # mask => Len(usb.list["irq"]) < MaxNotify
  /\ inserted # {} => MaxNotify > 0
  /\ Total(usb, async) <= NumOutBuf + Most + Bit(pc \notin Settled)
  /\ pc = "adjust" => Total(usb, async) <= counted + Most

\* A step that allocates nothing, and one that neither counts nor detects.
Frugal ==
  /\ Total(usb', async') <= Total(usb, async)
  /\ Len(usb'.list["irq"]) <= Len(usb.list["irq"])

Unnoticed ==
  /\ pc \in Settled <=> pc' \in Settled
  /\ pc' = "adjust" => pc = "adjust" /\ counted' = counted
  /\ inserted' = inserted
  /\ mask' = mask \/ (mask' = {} /\ usb'.list["irq"] = <<>>)

Quiet == Frugal /\ Unnoticed

\* The numbers of buffers are numbers.
LEMMA QueueTypes ==
  ASSUME NEW u, Typed(u), NEW a
  PROVE  Buffers(u) \in Nat /\ Total(u, a) \in Nat /\ Len(u.list["irq"]) \in Nat
<1>1. Buffers(u) \in Nat
  BY BuffersSum DEF Eps
<1>2. Len(u.list["irq"]) \in Nat
  BY ListTypes, LenIsNat
<1> QED
  BY <1>1, <1>2 DEF Total, Bit

\* A quiet step preserves the invariant.
LEMMA QuietStep ==
  ASSUME IInv, IInv', IsFiniteSet(Ids), PoolInv, Quiet
  PROVE  PoolInv'
<1>1. Typed(usb) /\ Typed(usb') /\ counted \in Nat
  BY DEF IInv, Types
<1> DEFINE l == Len(usb.list["irq"])
           m == Len(usb'.list["irq"])
           t == Total(usb, async)
           v == Total(usb', async')
           b == Bit(pc \notin Settled)
           c == Bit(pc' \notin Settled)
<1>2. /\ l \in Nat /\ m \in Nat /\ t \in Nat /\ v \in Nat
      /\ MaxNotify \in Nat /\ NumOutBuf \in Nat /\ Most \in Nat
  BY <1>1, QueueTypes, Crowd, PoolAssumption DEF PoolInv
<1>3. /\ l <= MaxNotify /\ (inserted # mask => l < MaxNotify)
      /\ (inserted # {} => MaxNotify > 0)
      /\ t <= NumOutBuf + Most + b /\ (pc = "adjust" => t <= counted + Most)
  BY DEF PoolInv
<1>4. /\ v <= t /\ m <= l /\ inserted' = inserted
      /\ pc \in Settled <=> pc' \in Settled
      /\ pc' = "adjust" => pc = "adjust" /\ counted' = counted
      /\ mask' = mask \/ (mask' = {} /\ m = 0)
  BY DEF Quiet, Frugal, Unnoticed
<1>5. b \in 0..1 /\ c = b
  BY <1>4 DEF Bit
<1> HIDE DEF l, m, t, v, b, c
<1>6. m <= MaxNotify
  BY <1>2, <1>3, <1>4
<1>7. inserted' # mask' => m < MaxNotify
  <2>1. CASE mask' = mask
    BY <1>2, <1>3, <1>4, <2>1
  <2>2. CASE mask' = {} /\ m = 0
    BY <1>2, <1>3, <1>4, <2>2
  <2> QED
    BY <1>4, <2>1, <2>2
<1>8. v <= NumOutBuf + Most + c
  BY <1>2, <1>3, <1>4, <1>5
<1>9. pc' = "adjust" => v <= counted' + Most
  BY <1>1, <1>2, <1>3, <1>4
<1> QED
  BY <1>3, <1>4, <1>6, <1>7, <1>8, <1>9, Zenon DEF PoolInv, m, v, c

\* Steps of the main loop that find nothing to do.
LEMMA LookingQuiet ==
  ASSUME IInv, NoReset \/ NoEvent \/ FeedNothing
  PROVE  Quiet
<1>1. /\ usb' = usb /\ async' = async /\ mask' = mask /\ inserted' = inserted
      /\ pc \in Settled <=> pc' \in Settled
      /\ pc' # "adjust"
  BY DEF NoReset, NoEvent, FeedNothing, Goto, stateVars, hostVars, Settled
<1>2. Typed(usb)
  BY DEF IInv, Types
<1>3. Total(usb, async) \in Nat /\ Len(usb.list["irq"]) \in Nat
  BY <1>2, QueueTypes
<1> QED
  BY <1>1, <1>3 DEF Quiet, Frugal, Unnoticed, Settled

\* The cleaning up after a session.
LEMMA ResetQuiet ==
  ASSUME IInv, Reset
  PROVE  Quiet
<1> DEFINE w == AnsweredByReset(usb)
<1>1. Typed(usb) /\ async \in Ids \cup {None}
  BY DEF IInv, Types
<1>2. /\ usb' = Flushed(w) /\ async' = None /\ mask' = {} /\ inserted' = inserted
      /\ pc = "top" /\ pc' = "enable"
  BY DEF Reset, Goto, hostVars
<1>3. Typed(w) /\ Buffers(w) = Total(usb, async)
  BY <1>1, AnsweredEffect, AnsweredBuffers
<1> HIDE DEF w
<1>4. Buffers(usb') = Total(usb, async) /\ usb'.list["irq"] = <<>>
  BY <1>2, <1>3, FlushedEffect, FlushedBuffers DEF Eps
<1>5. Total(usb, async) \in Nat /\ Len(usb.list["irq"]) \in Nat
  BY <1>1, QueueTypes
<1>6. Bit(async' # None) = 0
  BY <1>2 DEF Bit
<1>7. Total(usb', async') <= Total(usb, async)
  <2>1. Total(usb', async') = Buffers(usb') + Bit(async' # None)
    BY DEF Total
  <2> QED
    BY <1>4, <1>5, <1>6, <2>1
<1>8. Len(usb'.list["irq"]) <= Len(usb.list["irq"])
  BY <1>4, <1>5
<1> QED
  BY <1>2, <1>4, <1>7, <1>8 DEF Quiet, Frugal, Unnoticed, Settled

\* ccid_eps_enable.
LEMMA EpsEnableQuiet ==
  ASSUME IInv, EpsEnable
  PROVE  Quiet
<1> DEFINE w == StopAll(usb)
<1>1. Typed(usb)
  BY DEF IInv, Types
<1>2. /\ usb' = [w EXCEPT !.hw = [e \in Eps |-> EpEnable(@[e])]]
      /\ async' = async /\ mask' = mask /\ inserted' = inserted
      /\ pc = "enable" /\ pc' = "resubmit"
  BY DEF EpsEnable, Goto, stateVars, hostVars
<1>3. Typed(w) /\ w.list = usb.list /\ Buffers(w) = Buffers(usb)
  BY <1>1, StopAllEffect, StopAllBuffers
<1> HIDE DEF w
<1>4. usb'.free = w.free /\ usb'.prog = w.prog /\ usb'.list = w.list
  BY <1>2, <1>3 DEF Typed, USB
<1>5. Buffers(usb') = Buffers(usb)
  BY <1>3, <1>4, SameBuffers
<1>6. Total(usb, async) \in Nat /\ Len(usb.list["irq"]) \in Nat
  BY <1>1, QueueTypes
<1>7. Total(usb', async') = Total(usb, async)
  BY <1>2, <1>5 DEF Total
<1> QED
  BY <1>2, <1>3, <1>4, <1>6, <1>7 DEF Quiet, Frugal, Unnoticed, Settled

\* The critical section of a submit routine.
LEMMA TakeQuiet ==
  ASSUME IInv, SubmitTake
  PROVE  Quiet
<1> DEFINE e == EpAt[pc]
<1>1. Typed(usb) /\ e \in Eps
  BY SubmitPCs DEF IInv, Types, SubmitTake
<1>2. /\ usb' = Taken(usb, e) /\ async' = async /\ mask' = mask /\ inserted' = inserted
      /\ pc \in DOMAIN EpAt /\ pc' \in {pc, AfterSubmit[pc]}
  BY DEF SubmitTake, Goto, stateVars, hostVars
<1>3. /\ pc \in Settled <=> pc' \in Settled
      /\ pc' # "adjust"
  BY <1>2 DEF EpAt, AfterSubmit, Settled
<1> HIDE DEF e
<1>4. Total(usb, async) \in Nat /\ Len(usb.list["irq"]) \in Nat
  BY <1>1, QueueTypes
<1>5. CASE NextMsg(usb, e) = None
  <2>1. usb' = usb
    BY <1>2, <1>5 DEF Taken
  <2> QED
    BY <1>2, <1>3, <1>4, <2>1 DEF Quiet, Frugal, Unnoticed, Settled
<1>6. CASE NextMsg(usb, e) # None
  <2>1. Buffers(usb') = Buffers(usb)
    BY <1>1, <1>2, <1>6, TakenBuffers
  <2>2. Len(usb'.list["irq"]) <= Len(usb.list["irq"])
    <3>1. /\ usb'.list[e] = IF e = "out" THEN usb.list[e] ELSE Tail(usb.list[e])
          /\ \A d \in Eps \ {e} : usb'.list[d] = usb.list[d]
      BY <1>1, <1>2, <1>6, TakenEffect
    <3>2. e # "out" => usb.list[e] # <<>>
      BY <1>1, <1>6, NextMsgFacts
    <3>3. CASE e # "irq"
      BY <1>4, <3>1, <3>3 DEF Eps
    <3>4. CASE e = "irq"
      <4>1. usb.list["irq"] \in Seq(SUBSET Slots)
        BY <1>1, ListTypes
      <4>2. usb'.list["irq"] = Tail(usb.list["irq"]) /\ usb.list["irq"] # <<>>
        BY <1>1, <3>1, <3>2, <3>4
      <4>3. Len(Tail(usb.list["irq"])) = Len(usb.list["irq"]) - 1
        BY <4>1, <4>2
      <4> QED
        BY <1>4, <4>2, <4>3
    <3> QED
      BY <3>3, <3>4
  <2>3. Total(usb', async') = Total(usb, async)
    BY <1>2, <2>1 DEF Total
  <2> QED
    BY <1>2, <1>3, <1>4, <2>2, <2>3 DEF Quiet, Frugal, Unnoticed, Settled
<1> QED
  BY <1>5, <1>6

\* The call into the driver after it: what is in hand is in progress.
LEMMA XferQuiet ==
  ASSUME IInv, Haltable = {}, SubmitXfer
  PROVE  Quiet
<1> DEFINE e == EpAt[pc]
<1>1. Typed(usb) /\ e \in Eps /\ hand \in Kind[e] /\ hand # None
  BY SubmitPCs DEF IInv, Types, SubmitXfer
<1>2. /\ usb' = Submitted(usb, e, hand) /\ async' = async /\ mask' = mask
      /\ inserted' = inserted /\ pc \in DOMAIN EpAt /\ pc' = AfterSubmit[pc]
  BY DEF SubmitXfer, Goto, stateVars, hostVars
<1>3. /\ pc \in Settled <=> pc' \in Settled
      /\ pc' # "adjust"
  BY <1>2 DEF EpAt, AfterSubmit, Settled
<1>4. usb.prog[e] = hand
  BY <1>1 DEF IInv, InHand
<1> HIDE DEF e
<1>5. Total(usb, async) \in Nat /\ Len(usb.list["irq"]) \in Nat
  BY <1>1, QueueTypes
<1>6. Buffers(usb') = Buffers(usb) /\ usb'.list = usb.list
  BY <1>1, <1>2, <1>4, SubmittedEffect, SubmittedBuffers
<1>7. Total(usb', async') = Total(usb, async)
  BY <1>2, <1>6 DEF Total
<1> QED
  BY <1>2, <1>3, <1>5, <1>6, <1>7 DEF Quiet, Frugal, Unnoticed, Settled

\* The answer to the command in progress takes the place of that command.
LEMMA HandleEventsQuiet ==
  ASSUME IInv, HandleEvents
  PROVE  Quiet
<1>1. Typed(usb) /\ async \in Ids /\ async # None
  BY NoneAssumption DEF IInv, Types, HandleEvents
<1>2. /\ usb' = Enqueue(usb, "in", async) /\ async' = None /\ mask' = mask
      /\ inserted' = inserted /\ pc = "events" /\ pc' = "answer"
  BY DEF HandleEvents, Goto, hostVars
<1>3. "in" \in Eps /\ async \in Content["in"] /\ "irq" \in Eps \ {"in"}
  BY <1>1, Kinds DEF Eps
<1>4. Buffers(usb') = Buffers(usb) + 1 /\ usb'.list["irq"] = usb.list["irq"]
  BY <1>1, <1>2, <1>3, EnqueueEffect, EnqueueBuffers
<1>5. /\ Total(usb, async) \in Nat /\ Len(usb.list["irq"]) \in Nat
      /\ Buffers(usb) \in Nat
  BY <1>1, QueueTypes
<1>6. Bit(async # None) = 1 /\ Bit(async' # None) = 0
  BY <1>1, <1>2 DEF Bit
<1>7. /\ Total(usb', async') = Buffers(usb') + Bit(async' # None)
      /\ Total(usb, async) = Buffers(usb) + Bit(async # None)
  BY DEF Total
<1>8. Total(usb', async') <= Total(usb, async)
  BY <1>4, <1>5, <1>6, <1>7
<1> QED
  BY <1>2, <1>4, <1>5, <1>8 DEF Quiet, Frugal, Unnoticed, Settled

\* ccid_handle_out frees the message.
LEMMA FedBuffers ==
  ASSUME NEW u, Typed(u), u.list["out"] # <<>>
  PROVE  Buffers(Fed(u)) = Buffers(u) - 1
<1> DEFINE v == Fed(u)
<1>1. /\ Typed(v) /\ v.prog = u.prog /\ v.list["out"] = Tail(u.list["out"])
      /\ v.list["in"] = u.list["in"] /\ v.list["irq"] = u.list["irq"]
  BY FedEffect
<1>2. v.free = u.free /\ u.free \in Nat
  BY DEF Fed, Typed, USB
<1>3. u.list["out"] \in Seq(Ids)
  BY ListTypes
<1>4. Len(v.list["out"]) = Len(u.list["out"]) - 1 /\ Len(u.list["out"]) \in Nat
  BY <1>1, <1>3
<1>5. Bit(u.prog["out"] # None) \in Nat /\ Bit(v.prog["out"] # None) = Bit(u.prog["out"] # None)
  BY <1>1 DEF Bit
<1> HIDE DEF v
<1>6. v.free + Load(v, "out") = u.free + Load(u, "out") + (-1)
  BY <1>2, <1>4, <1>5 DEF Load
<1>7. Differs(u, v, "out", -1)
  BY <1>1, <1>6 DEF Differs, Eps
<1>8. Buffers(v) = Buffers(u) + (-1)
  BY <1>1, <1>7, BuffersDiffer DEF Eps
<1>9. Buffers(u) \in Nat
  BY QueueTypes
<1> QED
  BY <1>8, <1>9 DEF v

\* A message is answered at once, or becomes the command in progress.
LEMMA FeedQuiet ==
  ASSUME IInv, FeedReply \/ FeedAccept
  PROVE  Quiet
<1> DEFINE w == Fed(usb)
<1>1. Typed(usb) /\ usb.list["out"] # <<>> /\ async \in Ids \cup {None}
  BY DEF IInv, Types, FeedReply, FeedAccept
<1>2. /\ Typed(w) /\ w.list["irq"] = usb.list["irq"] /\ Buffers(w) = Buffers(usb) - 1
      /\ Buffers(w) \in Nat
  BY <1>1, FedEffect, FedBuffers, QueueTypes
<1>3. FedMsg \in Ids /\ FedMsg # None
  <2>1. usb.list["out"] \in Seq(Ids)
    BY <1>1, ListTypes
  <2> QED
    BY <1>1, <2>1, NoneAssumption, TailType DEF FedMsg
<1>4. mask' = mask /\ inserted' = inserted /\ pc = "feed" /\ pc' \in {"reply", "count"}
  BY DEF FeedReply, FeedAccept, Goto, stateVars, hostVars
<1>5. /\ Total(usb, async) \in Nat /\ Len(usb.list["irq"]) \in Nat
      /\ Buffers(usb) \in Nat
  BY <1>1, QueueTypes
<1>6. /\ Total(usb', async') = Buffers(usb') + Bit(async' # None)
      /\ Total(usb, async) = Buffers(usb) + Bit(async # None)
  BY DEF Total
<1>7. CASE FeedReply
  <2>1. usb' = Enqueue(w, "in", FedMsg) /\ async' = async
    BY <1>7 DEF FeedReply, stateVars
  <2>2. "in" \in Eps /\ FedMsg \in Content["in"] /\ "irq" \in Eps \ {"in"}
    BY <1>3, Kinds DEF Eps
  <2> HIDE DEF w
  <2>3. Buffers(usb') = Buffers(w) + 1 /\ usb'.list["irq"] = w.list["irq"]
    BY <1>2, <2>1, <2>2, EnqueueEffect, EnqueueBuffers
  <2>4. Buffers(usb') = Buffers(usb)
    BY <1>2, <1>5, <2>3
  <2>5. Total(usb', async') = Total(usb, async)
    BY <2>1, <2>4 DEF Total
  <2> QED
    BY <1>2, <1>4, <1>5, <2>3, <2>5 DEF Quiet, Frugal, Unnoticed, Settled
<1>8. CASE FeedAccept
  <2>1. usb' = w /\ async' = FedMsg /\ async = None
    BY <1>8 DEF FeedAccept
  <2>2. Bit(async # None) = 0 /\ Bit(async' # None) = 1
    BY <1>3, <2>1 DEF Bit
  <2> HIDE DEF w
  <2>3. Total(usb', async') <= Total(usb, async)
    BY <1>2, <1>5, <1>6, <2>1, <2>2
  <2> QED
    BY <1>2, <1>4, <1>5, <2>1, <2>3 DEF Quiet, Frugal, Unnoticed, Settled
<1> QED
  BY <1>7, <1>8

\* A transfer is done: its endpoint is idle, the queues are as before.
LEMMA TransferDone ==
  ASSUME IInv, NEW e \in Eps
  PROVE  LET u == [usb EXCEPT !.hw[e] = Done(@)]
         IN  /\ Typed(u) /\ u.prog = usb.prog /\ u.list = usb.list
             /\ Buffers(u) = Buffers(usb)
<1> DEFINE l == Done(usb.hw[e])
           u == [usb EXCEPT !.hw[e] = Done(@)]
<1>1. Typed(usb) /\ usb.hw[e] \in EndpointType(Kind[e])
  BY DEF IInv, Types, Typed, EpType
<1>2. l \in EndpointType(Kind[e]) /\ ~l.busy
  BY <1>1 DEF Done, EndpointType
<1>3. u.free = usb.free
  BY <1>1 DEF Typed, USB
<1>4. Typed(u) /\ u.prog = usb.prog /\ u.list = usb.list
  <2>1. u = [usb EXCEPT !.hw[e] = l]
    OBVIOUS
  <2> HIDE DEF l, u
  <2> QED
    BY <1>1, <1>2, <2>1, NewLine
<1> HIDE DEF u
<1> QED
  BY <1>3, <1>4, SameBuffers DEF u

\* The host's transfers: an OUT transfer is only completed where one is in progress.
LEMMA HostQuiet ==
  ASSUME IInv, Mild, Host
  PROVE  Quiet
<1> DEFINE u(e) == [usb EXCEPT !.hw[e] = Done(@)]
<1>1. Typed(usb)
  BY DEF IInv, Types
<1>2. async' = async /\ mask' = mask /\ inserted' = inserted /\ pc' = pc /\ counted' = counted
  BY DEF Host, HostSends, HostCollects, HostPolls, placeVars, stateVars
<1>3. /\ Total(usb, async) \in Nat /\ Len(usb.list["irq"]) \in Nat
      /\ Buffers(usb) \in Nat
  BY <1>1, QueueTypes
<1>4. Buffers(usb') = Buffers(usb) /\ Len(usb'.list["irq"]) <= Len(usb.list["irq"])
  <2>0. "out" \in Eps \ Haltable /\ "in" \in Eps /\ "irq" \in Eps
    BY DEF Eps, Mild
  <2>1. ASSUME NEW e \in Eps
        PROVE  /\ Typed(u(e)) /\ u(e).prog = usb.prog /\ u(e).list = usb.list
               /\ Buffers(u(e)) = Buffers(usb)
    BY TransferDone
  <2>2. ASSUME NEW id \in Ids, HostSends(id)
        PROVE  Buffers(usb') = Buffers(usb) /\ Len(usb'.list["irq"]) <= Len(usb.list["irq"])
    <3>1. usb.prog["out"] # None
      <4>1. Ready(usb.hw["out"])
        BY <2>2 DEF HostSends
      <4>2. ~flag /\ pc # "enable"
        BY <2>0, <4>1 DEF IInv, SessionState, Ready
      <4> QED
        BY <2>0, <4>1, <4>2, Alive DEF Ready
    <3>2. usb' = OutDone(u("out"), id)
      BY <2>2, <3>1 DEF HostSends
    <3> HIDE DEF u
    <3> QED
      BY <2>0, <2>1, <3>1, <3>2, OutDoneBuffers
  <2>3. ASSUME NEW e \in Eps, usb' = RecycledNext(u(e), e)
        PROVE  Buffers(usb') = Buffers(usb) /\ Len(usb'.list["irq"]) <= Len(usb.list["irq"])
    <3> HIDE DEF u
    <3> QED
      BY <2>1, <2>3, RecycledNextBuffers
  <2>4. CASE HostCollects \/ HostPolls
    <3>1. \E e \in Eps : usb' = RecycledNext(u(e), e)
      BY <2>0, <2>4 DEF HostCollects, HostPolls
    <3> QED
      BY <2>3, <3>1
  <2> QED
    BY <2>2, <2>4 DEF Host
<1>5. Total(usb', async') = Total(usb, async)
  BY <1>2, <1>4 DEF Total
<1> QED
  BY <1>2, <1>3, <1>4, <1>5 DEF Quiet, Frugal, Unnoticed, Settled

\* A session ends or starts.
LEMMA SessionQuiet ==
  ASSUME IInv, Session
  PROVE  Quiet
<1>1. Typed(usb)
  BY DEF IInv, Types
<1>2. async' = async /\ mask' = mask /\ inserted' = inserted /\ pc' = pc /\ counted' = counted
  BY DEF Session, BusResetIrq, Unconfigure, Configure, loopVars, placeVars
<1>3. /\ Total(usb, async) \in Nat /\ Len(usb.list["irq"]) \in Nat
      /\ Buffers(usb) \in Nat
  BY <1>1, QueueTypes
<1>4. Buffers(usb') = Buffers(usb) /\ usb'.list = usb.list
  <2> DEFINE w == StopAll(usb)
  <2>1. CASE BusResetIrq \/ Unconfigure
    <3>1. Typed(w) /\ w.list = usb.list /\ Buffers(w) = Buffers(usb)
      BY <1>1, StopAllEffect, StopAllBuffers
    <3>2. \E f : usb' = [w EXCEPT !.hw = f]
      BY <2>1 DEF BusResetIrq, Unconfigure
    <3> HIDE DEF w
    <3>3. usb'.free = w.free /\ usb'.prog = w.prog /\ usb'.list = w.list
      BY <3>1, <3>2 DEF Typed, USB
    <3> QED
      BY <3>1, <3>3, SameBuffers
  <2>2. CASE Configure
    <3>1. usb'.free = usb.free /\ usb'.prog = usb.prog /\ usb'.list = usb.list
      BY <1>1, <2>2 DEF Configure, Typed, USB
    <3> QED
      BY <3>1, SameBuffers
  <2> QED
    BY <2>1, <2>2 DEF Session
<1>5. Total(usb', async') = Total(usb, async)
  BY <1>2, <1>4 DEF Total
<1> QED
  BY <1>2, <1>3, <1>4, <1>5 DEF Quiet, Frugal, Unnoticed, Settled

\* A card is inserted or removed.
LEMMA MoveCardPool ==
  ASSUME IInv, PoolInv, NEW s \in Slots, MoveCard(s)
  PROVE  PoolInv'
<1>1. /\ Len(usb.list["irq"]) < MaxNotify
      /\ usb' = usb /\ async' = async /\ pc' = pc /\ counted' = counted /\ mask' = mask
  BY DEF MoveCard, loopVars, stateVars
<1>2. MaxNotify > 0
  <2>1. Len(usb.list["irq"]) \in Nat /\ MaxNotify \in Nat
    BY QueueTypes, PoolAssumption DEF IInv, Types
  <2> QED
    BY <1>1, <2>1
<1> QED
  BY <1>1, <1>2 DEF PoolInv

\* A change of the cards is notified: the one buffer that is allocated in a turn.
LEMMA CardDetectPool ==
  ASSUME IInv, IInv', IsFiniteSet(Ids), PoolInv, CardDetect
  PROVE  PoolInv'
<1>1. Typed(usb) /\ inserted \subseteq Slots
  BY DEF IInv, Types
<1>2. /\ usb' = IF inserted = mask THEN usb ELSE Enqueue(usb, "irq", inserted)
      /\ mask' = inserted /\ inserted' = inserted /\ async' = async
      /\ pc = "detect" /\ pc' = "notify"
  BY DEF CardDetect, Goto, hostVars
<1>3. "irq" \in Eps /\ inserted \in Content["irq"]
  BY <1>1, Kinds DEF Eps
<1>4. /\ Total(usb, async) \in Nat /\ Len(usb.list["irq"]) \in Nat /\ Buffers(usb) \in Nat
      /\ Most \in Nat /\ NumOutBuf \in Nat /\ MaxNotify \in Nat
  BY <1>1, QueueTypes, Crowd, PoolAssumption DEF PoolInv
<1>5. Bit(pc \notin Settled) = 0 /\ Bit(pc' \notin Settled) = 1
  BY <1>2 DEF Bit, Settled
<1>6. /\ Len(usb.list["irq"]) <= MaxNotify
      /\ inserted # mask => Len(usb.list["irq"]) < MaxNotify
      /\ inserted # {} => MaxNotify > 0
      /\ Total(usb, async) <= NumOutBuf + Most
  BY <1>4, <1>5 DEF PoolInv
<1>7. /\ Len(usb'.list["irq"]) <= MaxNotify
      /\ Total(usb', async') <= NumOutBuf + Most + 1
  <2>1. CASE inserted = mask
    BY <1>2, <1>4, <1>6, <2>1
  <2>2. CASE inserted # mask
    <3>1. usb' = Enqueue(usb, "irq", inserted)
      BY <1>2, <2>2
    <3>2. /\ Buffers(usb') = Buffers(usb) + 1
          /\ usb'.list["irq"] = Append(usb.list["irq"], inserted)
      BY <1>1, <1>3, <3>1, EnqueueEffect, EnqueueBuffers
    <3>3. Len(usb'.list["irq"]) = Len(usb.list["irq"]) + 1
      <4>1. usb.list["irq"] \in Seq(SUBSET Slots)
        BY <1>1, ListTypes
      <4> QED
        BY <1>1, <3>2, <4>1
    <3>4. Total(usb', async') = Total(usb, async) + 1
      <4>1. Bit(async # None) \in Nat
        BY DEF Bit
      <4>2. /\ Total(usb', async') = Buffers(usb') + Bit(async # None)
            /\ Total(usb, async) = Buffers(usb) + Bit(async # None)
        BY <1>2 DEF Total
      <4> QED
        BY <1>4, <3>2, <4>1, <4>2
    <3> QED
      BY <1>4, <1>6, <2>2, <3>3, <3>4
  <2> QED
    BY <2>1, <2>2
<1>8. Total(usb', async') <= NumOutBuf + Most + Bit(pc' \notin Settled)
  BY <1>5, <1>7
<1> QED
  BY <1>2, <1>6, <1>7, <1>8 DEF PoolInv

\* llist_count_at: all buffers are those counted and at most Most others.
LEMMA CountFreePool ==
  ASSUME IInv, IsFiniteSet(Ids), PoolInv, CountFree
  PROVE  PoolInv'
<1>1. /\ usb' = usb /\ async' = async /\ mask' = mask /\ inserted' = inserted
      /\ pc = "count" /\ pc' = "adjust" /\ counted' = usb.free
  BY DEF CountFree, Goto, stateVars, hostVars
<1>2. Total(usb, async) <= usb.free + Most
  BY Crowd DEF PoolInv
<1>3. Bit(pc' \notin Settled) = Bit(pc \notin Settled)
  BY <1>1 DEF Bit, Settled
<1> QED
  BY <1>1, <1>2, <1>3 DEF PoolInv

\* The pool is topped up or trimmed by what was counted.
LEMMA AdjustPoolPool ==
  ASSUME IInv, IInv', IsFiniteSet(Ids), PoolInv, AdjustPool
  PROVE  PoolInv'
<1>1. /\ usb' = [usb EXCEPT !.free = Adjusted(@)]
      /\ async' = async /\ mask' = mask /\ inserted' = inserted
      /\ pc = "adjust" /\ pc' = "out"
  BY DEF AdjustPool, Goto, stateVars, hostVars
<1>2. Typed(usb) /\ Typed(usb') /\ counted \in Nat
  BY DEF IInv, Types
<1>3. usb'.free = Adjusted(usb.free) /\ usb'.prog = usb.prog /\ usb'.list = usb.list
  BY <1>1, <1>2 DEF Typed, USB
<1>4. /\ Total(usb, async) <= counted + Most /\ Total(usb, async) <= usb.free + Most
      /\ Total(usb, async) \in Nat /\ usb.free \in Nat /\ usb'.free \in Nat
      /\ Most \in Nat /\ NumOutBuf \in Nat
  BY <1>1, <1>2, Crowd, PoolAssumption DEF PoolInv, Typed, USB
<1>5. Total(usb', async') - usb'.free = Total(usb, async) - usb.free
  <2> DEFINE h == Held(usb)
             l == Listed(usb)
             b == Bit(async # None)
  <2>1. Held(usb') = h /\ Listed(usb') = l
    BY <1>3 DEF Held, Listed
  <2>2. h \in Nat /\ b \in Nat
    BY HeldIsNat DEF Bit
  <2>3. l \in Nat
    <3>1. usb.list["out"] \in Seq(Ids) /\ usb.list["in"] \in Seq(Ids)
          /\ usb.list["irq"] \in Seq(SUBSET Slots)
      BY <1>2, ListTypes
    <3> DEFINE ol == Len(usb.list["out"])
               il == Len(usb.list["in"])
               ql == Len(usb.list["irq"])
    <3>2. ol \in Nat /\ il \in Nat /\ ql \in Nat
      BY <3>1, LenIsNat
    <3>3. l = ol + il + ql
      BY DEF Listed
    <3> HIDE DEF ol, il, ql, l
    <3> QED
      BY <3>2, <3>3
  <2>4. Total(usb, async) = usb.free + h + l + b
    BY DEF Total, Buffers
  <2>5. Total(usb', async') = usb'.free + h + l + b
    BY <1>1, <2>1 DEF Total, Buffers
  <2> HIDE DEF h, l, b
  <2> QED
    BY <1>4, <2>2, <2>3, <2>4, <2>5
<1>6. Total(usb', async') <= NumOutBuf + Most
  <2>0. Total(usb', async') \in Nat
    BY <1>2, QueueTypes
  <2>1. CASE counted > NumOutBuf + usb.free
    <3>1. usb'.free = 0
      BY <1>3, <2>1 DEF Adjusted
    <3> QED
      BY <1>4, <1>5, <2>0, <3>1
  <2>2. CASE ~(counted > NumOutBuf + usb.free)
    <3>1. usb'.free = (usb.free + NumOutBuf) - counted
      BY <1>3, <2>2 DEF Adjusted
    <3> QED
      BY <1>2, <1>4, <1>5, <2>0, <3>1
  <2> QED
    BY <2>1, <2>2
<1>7. Bit(pc' \notin Settled) = 0
  BY <1>1 DEF Bit, Settled
<1>8. Total(usb', async') <= NumOutBuf + Most + Bit(pc' \notin Settled)
  BY <1>4, <1>6, <1>7
<1> QED
  BY <1>1, <1>3, <1>8 DEF PoolInv

\* The invariant holds initially.
LEMMA PoolInit ==
  ASSUME Mild, IsFiniteSet(Ids), Init
  PROVE  PoolInv
<1>1. Typed(usb)
  BY Initial DEF IInv, Types
<1>2. /\ usb.free = NumOutBuf /\ async = None /\ pc = "top" /\ inserted = {} /\ mask = {}
      /\ \A e \in Eps : usb.list[e] = <<>> /\ usb.prog[e] = None
  BY DEF Init
<1>3. Cardinality(Ids) \in Nat /\ MaxNotify \in Nat /\ NumOutBuf \in Nat
  BY FS_CardinalityType, PoolAssumption
<1>4. /\ Load(usb, "out") = 0 /\ Load(usb, "in") = 0 /\ Load(usb, "irq") = 0
      /\ Len(usb.list["irq"]) = 0
  <2>1. ASSUME NEW e \in Eps PROVE Load(usb, e) = 0 /\ Len(usb.list[e]) = 0
    <3>1. Len(usb.list[e]) = 0 /\ Bit(usb.prog[e] # None) = 0
      BY <1>2 DEF Bit
    <3> QED
      BY <3>1 DEF Load
  <2> QED
    BY <2>1 DEF Eps
<1>5. Bit(async # None) = 0 /\ Bit(pc \notin Settled) = 0
  BY <1>2 DEF Bit, Settled
<1>6. Total(usb, async) = NumOutBuf
  <2>1. Buffers(usb) = NumOutBuf
    BY <1>1, <1>2, <1>3, <1>4, BuffersSum
  <2> QED
    BY <1>3, <1>5, <2>1 DEF Total
<1>7. Total(usb, async) <= NumOutBuf + Most + Bit(pc \notin Settled)
  BY <1>3, <1>5, <1>6 DEF Most
<1> QED
  BY <1>2, <1>3, <1>4, <1>7 DEF PoolInv

\* Every step preserves the invariant.
LEMMA PoolInductive ==
  ASSUME Mild, Haltable = {}, IsFiniteSet(Ids), IInv, PoolInv, [Next]_vars
  PROVE  IInv' /\ PoolInv'
<1>1. IInv'
  BY Inductive
<1>2. ASSUME UNCHANGED vars
      PROVE  PoolInv'
  BY <1>2 DEF PoolInv, vars, loopVars, stateVars, hostVars
<1>3. ASSUME MainLoop
      PROVE  PoolInv'
  <2>1. ASSUME Quiet
        PROVE  PoolInv'
    BY <1>1, <2>1, QuietStep
  <2> QED
    BY <1>1, <1>3, <2>1, LookingQuiet, ResetQuiet, EpsEnableQuiet, TakeQuiet, XferQuiet,
       HandleEventsQuiet, FeedQuiet, CardDetectPool, CountFreePool, AdjustPoolPool
       DEF MainLoop
<1>4. ASSUME Host \/ Session
      PROVE  PoolInv'
  BY <1>1, <1>4, HostQuiet, SessionQuiet, QuietStep
<1>5. ASSUME NEW s \in Slots, MoveCard(s)
      PROVE  PoolInv'
  BY <1>5, MoveCardPool
<1>6. ~Halts
  BY DEF Halts
<1> QED
  BY <1>1, <1>2, <1>3, <1>4, <1>5, <1>6 DEF Next

-----------------------------------------------------------------------------
(* The theorem. *)

\* main.c:716-730: however completions, resets and the host's requests fall
\* between the count of free_q and its correction, the buffers never exceed the
\* pool, the commands of the host, the notifications and a constant.
THEOREM PoolStaysBounded ==
  ASSUME Mild, Haltable = {}, IsFiniteSet(Ids) PROVE Spec => []PoolBounded
<1>1. Init => IInv /\ PoolInv
  BY Initial, PoolInit
<1>2. IInv /\ PoolInv /\ [Next]_vars => (IInv /\ PoolInv)'
  BY PoolInductive
<1>3. IInv /\ PoolInv => PoolBounded
  <2> SUFFICES ASSUME IInv, PoolInv PROVE PoolBounded
    OBVIOUS
  <2>1. /\ Total(usb, async) <= NumOutBuf + Most + Bit(pc \notin Settled)
        /\ Bit(pc \notin Settled) \in 0..1 /\ Bit(async # None) \in 0..1
    BY DEF PoolInv, Bit
  <2>2. /\ Buffers(usb) \in Nat /\ Most \in Nat /\ NumOutBuf \in Nat
        /\ Cardinality(Ids) \in Nat /\ MaxNotify \in Nat
    BY QueueTypes, Crowd, FS_CardinalityType, PoolAssumption DEF IInv, Types, PoolInv
  <2>3. Total(usb, async) = Buffers(usb) + Bit(async # None)
    BY DEF Total
  <2>4. Buffers(usb) <= NumOutBuf + Most + 1
    BY <2>1, <2>2, <2>3
  <2> QED
    BY <2>2, <2>4 DEF PoolBounded, Most
<1> QED
  BY <1>1, <1>2, <1>3, PTL DEF Spec

===============================================================================
