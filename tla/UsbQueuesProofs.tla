--------------------------- MODULE UsbQueuesProofs ---------------------------
(***************************************************************************)
(* Theorems of UsbQueues, for any commands, slots and size of the pool,    *)
(* with a host that does not end a session while ccid_eps_enable waits,    *)
(* and that halts no endpoint but the interrupt endpoint.  With a halt they *)
(* speak of the time until a buffer is freed twice, where the model ends:   *)
(* UsbDoubleFree.cfg shows that this happens.  With nothing halted it does  *)
(* not, FreedOnlyOnce.                                                      *)
(*                                                                         *)
(* Most lemmas are about the operators on the record u of the queues and   *)
(* endpoints, which actions compose; the second half has a step for each   *)
(* action.                                                                  *)
(***************************************************************************)
EXTENDS UsbQueues, FiniteSetTheorems, SequenceTheorems, TLAPS

\* What the theorems assume of the host.
Mild == Env = {} /\ Haltable \subseteq {"irq"}

-----------------------------------------------------------------------------
(* The inductive invariant. *)

\* What is in progress at an endpoint, and what its list holds.
Kind == [e \in Eps |-> CASE e = "out" -> {Empty} [] e = "in" -> Ids
                         [] e = "irq" -> SUBSET Slots]
Content == [e \in Eps |-> IF e = "out" THEN Ids ELSE Kind[e]]

\* The type of one endpoint: its driver's record, in_progress and its list.
EpType(u, e) ==
  /\ u.hw[e] \in EndpointType(Kind[e])
  /\ u.hw[e].busy => u.hw[e].msg # None
  /\ u.prog[e] \in Kind[e] \cup {None}
  /\ u.list[e] \in Seq(Content[e])

USB == [hw   : [Eps -> EndpointType(Msgs)],
        prog : [Eps -> Msgs \cup {None}],
        list : [Eps -> Seq(Msgs)],
        free : Nat]

Typed(u) == u \in USB /\ \A e \in Eps : EpType(u, e)

Types ==
  /\ Typed(usb)
  /\ pc \in PCs
  /\ hand # None => pc \in DOMAIN EpAt /\ hand \in Kind[EpAt[pc]]
  /\ counted \in Nat
  /\ enabled \in BOOLEAN /\ flag \in BOOLEAN /\ cfg \in BOOLEAN
  /\ crashed \in BOOLEAN
  /\ mask \subseteq Slots /\ inserted \subseteq Slots /\ view \subseteq Slots
  /\ async \in Ids \cup {None}
  /\ owed \subseteq Ids

\* The session: who knows of its end, and where it is cleaned up.
SessionState ==
  /\ enabled = cfg
  /\ pc = "enable" => ~flag
  /\ ~cfg => flag \/ pc = "enable"
  /\ \A e \in Eps : usb.hw[e].on <=> ~flag /\ pc # "enable"

\* Between the flush and the enabling of the endpoints there is nothing left.
Emptied ==
  pc = "enable" =>
    /\ \A e \in Eps : usb.list[e] = <<>> /\ usb.prog[e] = None
    /\ async = None /\ hand = None /\ owed = {} /\ mask = {} /\ view = {}

\* An endpoint the host never halts.
Unhalted(ep) == ~ep.stalled /\ ep.halt = "clear"

Matched(u, e) == u.hw[e].busy => u.hw[e].msg = u.prog[e]
Armable(ep) == ~ep.busy => ep.state = "idle"

\* What is armed is in progress ...
Sound ==
  \A e \in Eps \ Haltable :
    /\ Unhalted(usb.hw[e])
    /\ pc # "enable" => Matched(usb, e)
    /\ ~flag /\ pc # "enable" => Armable(usb.hw[e])

\* ... and what is in progress is armed, or about to be.
InHand ==
  /\ hand # None /\ EpAt[pc] \notin Haltable =>
       usb.prog[EpAt[pc]] = hand /\ ~usb.hw[EpAt[pc]].busy
  /\ ~flag => \A e \in Eps \ Haltable :
       usb.prog[e] # None =>
         usb.hw[e].busy \/ (hand # None /\ EpAt[pc] = e)

Elems(s) == {s[i] : i \in DOMAIN s}
Distinct(s) == \A i, j \in DOMAIN s : s[i] = s[j] => i = j

\* No command is in two places.
OncePlaced(u, a) ==
  /\ Distinct(u.list["out"]) /\ Distinct(u.list["in"])
  /\ Elems(u.list["out"]) \cap Elems(u.list["in"]) = {}
  /\ {u.prog["in"], a} \cap (Elems(u.list["out"]) \cup Elems(u.list["in"])) = {}
  /\ a = u.prog["in"] => a = None

\* The commands the reader has, seen from the queues.
Carried(u, a) ==
  (Elems(u.list["out"]) \cup Elems(u.list["in"]) \cup {u.prog["in"], a}) \ {None}

Kept == owed = IF flag THEN {} ELSE Carried(usb, async)

\* What the host will have been told when all notifications are polled.
Newest(u, v) ==
  CASE u.list["irq"] # <<>> -> u.list["irq"][Len(u.list["irq"])]
    [] u.list["irq"] = <<>> /\ u.prog["irq"] # None -> u.prog["irq"]
    [] OTHER -> v

Seen ==
  /\ flag => view = {}
  /\ "irq" \notin Haltable /\ ~flag => Newest(usb, view) = mask

IInv ==
  /\ Types /\ SessionState /\ Emptied /\ Sound /\ InHand
  /\ OncePlaced(usb, async) /\ Kept /\ Seen /\ ~crashed

-----------------------------------------------------------------------------
(* Lists of commands. *)

LEMMA AppendElems ==
  ASSUME NEW S, NEW s \in Seq(S), NEW x \in S
  PROVE  /\ Append(s, x) \in Seq(S)
         /\ Elems(Append(s, x)) = Elems(s) \cup {x}
         /\ Distinct(s) /\ x \notin Elems(s) => Distinct(Append(s, x))
<1>1. /\ Append(s, x) \in Seq(S)
      /\ DOMAIN Append(s, x) = 1..(Len(s) + 1)
      /\ \A i \in 1..Len(s) : Append(s, x)[i] = s[i]
      /\ Append(s, x)[Len(s) + 1] = x
  OBVIOUS
<1>2. DOMAIN s = 1..Len(s) /\ Len(s) \in Nat
  OBVIOUS
<1>3. Elems(Append(s, x)) = Elems(s) \cup {x}
  BY <1>1, <1>2 DEF Elems
<1>4. ASSUME Distinct(s), x \notin Elems(s)
      PROVE  Distinct(Append(s, x))
  BY <1>1, <1>2, <1>4 DEF Elems, Distinct
<1> QED
  BY <1>1, <1>3, <1>4

\* The elements of a list have its type.
LEMMA ElemsType == ASSUME NEW S, NEW s \in Seq(S) PROVE Elems(s) \subseteq S
BY DEF Elems

\* Head and rest of a list have its type.
LEMMA TailType ==
  ASSUME NEW S, NEW s \in Seq(S), s # <<>>
  PROVE  Tail(s) \in Seq(S) /\ Head(s) \in S
OBVIOUS

\* Taking the first command off a list takes just that command out of it.
LEMMA TailElems ==
  ASSUME NEW S, NEW s \in Seq(S), s # <<>>, Distinct(s)
  PROVE  /\ Head(s) \in Elems(s)
         /\ Elems(Tail(s)) = Elems(s) \ {Head(s)}
         /\ Distinct(Tail(s))
<1>1. /\ Len(s) \in Nat \ {0}
      /\ DOMAIN s = 1..Len(s)
      /\ DOMAIN Tail(s) = 1..(Len(s) - 1)
      /\ \A i \in 1..(Len(s) - 1) : Tail(s)[i] = s[i + 1]
      /\ Head(s) = s[1]
  OBVIOUS
<1>2. Head(s) \in Elems(s) /\ Distinct(Tail(s))
  BY <1>1 DEF Elems, Distinct
<1>3. Elems(Tail(s)) \subseteq Elems(s) \ {Head(s)}
  BY <1>1 DEF Elems, Distinct
<1>4. ASSUME NEW x \in Elems(s) \ {Head(s)}
      PROVE  x \in Elems(Tail(s))
  <2>1. PICK i \in 1..Len(s) : x = s[i]
    BY <1>1 DEF Elems
  <2>2. i # 1 /\ i - 1 \in 1..(Len(s) - 1) /\ x = Tail(s)[i - 1]
    BY <1>1, <2>1
  <2> QED
    BY <1>1, <2>2 DEF Elems
<1> QED
  BY <1>2, <1>3, <1>4

\* Taking the first off a list leaves its last, unless it was the only one.
LEMMA LastOfTail ==
  ASSUME NEW S, NEW s \in Seq(S), s # <<>>
  PROVE  \/ Tail(s) = <<>> /\ Head(s) = s[Len(s)]
         \/ Tail(s) # <<>> /\ Tail(s)[Len(Tail(s))] = s[Len(s)]
<1>1. Len(s) \in Nat \ {0} /\ Len(Tail(s)) = Len(s) - 1 /\ Head(s) = s[1]
  OBVIOUS
<1>2. \A i \in 1..(Len(s) - 1) : Tail(s)[i] = s[i + 1]
  OBVIOUS
<1>3. CASE Len(s) = 1
  <2>1. Tail(s) \in Seq(S) /\ Len(Tail(s)) = 0
    BY <1>1, <1>3
  <2> QED
    BY <1>1, <1>3, <2>1, EmptySeq
<1>4. CASE Len(s) # 1
  <2>1. Len(s) - 1 \in 1..(Len(s) - 1) /\ (Len(s) - 1) + 1 = Len(s)
    BY <1>1, <1>4
  <2>2. Tail(s)[Len(Tail(s))] = s[Len(s)]
    BY <1>1, <1>2, <2>1
  <2>3. Tail(s) # <<>>
    <3>1. Tail(s) \in Seq(S) /\ Len(Tail(s)) # 0
      BY <1>1, <1>4
    <3> QED
      BY <3>1, EmptySeq
  <2> QED
    BY <2>2, <2>3
<1> QED
  BY <1>3, <1>4

\* The length of a list is a number.
LEMMA LenIsNat == ASSUME NEW S, NEW s \in Seq(S) PROVE Len(s) \in Nat
OBVIOUS

\* An empty list has no elements.
LEMMA EmptyElems == Elems(<<>>) = {} /\ Distinct(<<>>)
BY DEF Elems, Distinct

-----------------------------------------------------------------------------
(* What the operators do to one endpoint, and leave of the others. *)

Same(u, v, d) ==
  v.hw[d] = u.hw[d] /\ v.prog[d] = u.prog[d] /\ v.list[d] = u.list[d]

\* The same driver state but for the transfer.
SameLine(ep, fp) == fp.on = ep.on /\ fp.stalled = ep.stalled /\ fp.halt = ep.halt

\* What each endpoint carries.
LEMMA Kinds ==
  ASSUME NEW e \in Eps
  PROVE  /\ Kind[e] \subseteq Msgs /\ Content[e] \subseteq Msgs
         /\ e # "out" => Content[e] = Kind[e]
         /\ Content["out"] = Ids /\ Content["in"] = Ids
         /\ Content["irq"] = SUBSET Slots
         /\ Kind["out"] = {Empty} /\ Kind["in"] = Ids /\ Kind["irq"] = SUBSET Slots
BY DEF Kind, Content, Eps, Msgs

\* Enqueueing lengthens one list and touches nothing else.
LEMMA EnqueueEffect ==
  ASSUME NEW u, Typed(u), NEW e \in Eps, NEW m \in Content[e]
  PROVE  LET v == Enqueue(u, e, m)
         IN  /\ Typed(v)
             /\ v.hw = u.hw /\ v.prog = u.prog
             /\ v.list[e] = Append(u.list[e], m)
             /\ \A d \in Eps \ {e} : v.list[d] = u.list[d]
<1> DEFINE v == Enqueue(u, e, m)
<1>1. /\ v.hw = u.hw /\ v.prog = u.prog /\ v.free = u.free
      /\ v.list = [u.list EXCEPT ![e] = Append(@, m)]
  BY DEF Typed, USB, Enqueue
<1>2. v.list[e] = Append(u.list[e], m) /\ \A d \in Eps \ {e} : v.list[d] = u.list[d]
  BY <1>1 DEF Typed, USB
<1>3. \A d \in Eps : v.list[d] \in Seq(Content[d])
  <2>1. Append(u.list[e], m) \in Seq(Content[e])
    BY AppendElems DEF Typed, EpType
  <2> HIDE DEF v
  <2> QED
    BY <1>2, <2>1 DEF Typed, EpType
<1>4. v \in USB
  <2>1. u.list[e] \in Seq(Msgs) /\ m \in Msgs
    BY Kinds DEF Typed, USB
  <2>2. v.list \in [Eps -> Seq(Msgs)]
    BY <1>1, <2>1 DEF Typed, USB
  <2>3. v = [u EXCEPT !.list = v.list]
    BY <1>1 DEF Typed, USB, Enqueue
  <2> HIDE DEF v
  <2> QED
    BY <2>2, <2>3 DEF Typed, USB
<1> QED
  BY <1>1, <1>2, <1>3, <1>4 DEF Typed, EpType

\* Recycling what was in progress at an endpoint touches only in_progress.
LEMMA RecycledEffect ==
  ASSUME NEW u, Typed(u), NEW e \in Eps
  PROVE  LET v == Recycled(u, e)
         IN  /\ Typed(v)
             /\ v.hw = u.hw /\ v.list = u.list
             /\ v.prog[e] = None
             /\ \A d \in Eps \ {e} : v.prog[d] = u.prog[d]
<1> DEFINE v == Recycled(u, e)
<1>1. CASE u.prog[e] = None
  BY <1>1 DEF Recycled
<1>2. CASE u.prog[e] # None
  <2>1. /\ v.hw = u.hw /\ v.list = u.list /\ v.free = u.free + 1
        /\ v.prog = [u.prog EXCEPT ![e] = None]
    BY <1>2 DEF Typed, USB, Recycled, Freed
  <2>2. v \in USB
    <3>1. v.prog \in [Eps -> Msgs \cup {None}] /\ v.free \in Nat
      BY <2>1 DEF Typed, USB
    <3>2. v = [u EXCEPT !.prog = v.prog, !.free = v.free]
      BY <1>2, <2>1 DEF Typed, USB, Recycled, Freed
    <3> HIDE DEF v
    <3> QED
      BY <3>1, <3>2 DEF Typed, USB
  <2> QED
    BY <2>1, <2>2 DEF Typed, USB, EpType
<1> QED
  BY <1>1, <1>2

\* Aborting an endpoint's transfer recycles its message; the line stays as it is.
LEMMA StopEffect ==
  ASSUME NEW u, Typed(u), NEW e \in Eps
  PROVE  LET v == Stop(u, e)
         IN  /\ Typed(v)
             /\ v.list = u.list
             /\ \A d \in Eps \ {e} : v.hw[d] = u.hw[d] /\ v.prog[d] = u.prog[d]
             /\ ~v.hw[e].busy /\ SameLine(u.hw[e], v.hw[e])
             /\ v.prog[e] = IF u.hw[e].busy THEN None ELSE u.prog[e]
<1> DEFINE w == [u EXCEPT !.hw[e] = Stopped(@)]
<1>1. CASE ~u.hw[e].busy
  BY <1>1 DEF Stop, SameLine
<1>2. CASE u.hw[e].busy
  <2>1. /\ w.hw = [u.hw EXCEPT ![e] = Stopped(@)]
        /\ w.list = u.list /\ w.prog = u.prog /\ w.free = u.free
    BY DEF Typed, USB
  <2>2. \A d \in Eps : u.hw[d] \in EndpointType(Kind[d])
    BY DEF Typed, EpType
  <2>3. Stopped(u.hw[e]) \in EndpointType(Kind[e])
    BY <2>2 DEF Stopped, EndpointType
  <2>4. ~Stopped(u.hw[e]).busy /\ SameLine(u.hw[e], Stopped(u.hw[e]))
    BY <2>2 DEF Stopped, EndpointType, SameLine
  <2>5. EndpointType(Kind[e]) \subseteq EndpointType(Msgs)
    BY Kinds DEF EndpointType
  <2>6. w \in USB
    BY <2>1, <2>3, <2>5 DEF Typed, USB
  <2>7. w.hw[e] = Stopped(u.hw[e]) /\ \A d \in Eps \ {e} : w.hw[d] = u.hw[d]
    BY <2>1 DEF Typed, USB
  <2>8. Typed(w)
    BY <2>1, <2>3, <2>4, <2>6, <2>7 DEF Typed, EpType
  <2>9. Stop(u, e) = Recycled(w, e)
    BY <1>2 DEF Stop
  <2>10. LET v == Recycled(w, e)
         IN  /\ Typed(v)
             /\ v.hw = w.hw /\ v.list = w.list
             /\ v.prog[e] = None
             /\ \A d \in Eps \ {e} : v.prog[d] = w.prog[d]
    <3> HIDE DEF w
    <3> QED BY <2>8, RecycledEffect
  <2> HIDE DEF w
  <2> QED
    BY <1>2, <2>1, <2>4, <2>7, <2>9, <2>10
<1> QED
  BY <1>1, <1>2

\* The same for the three endpoints, as a reset aborts them all.
LEMMA StopAllEffect ==
  ASSUME NEW u, Typed(u)
  PROVE  LET v == StopAll(u)
         IN  /\ Typed(v)
             /\ v.list = u.list
             /\ \A e \in Eps :
                  /\ ~v.hw[e].busy /\ SameLine(u.hw[e], v.hw[e])
                  /\ v.prog[e] = IF u.hw[e].busy THEN None ELSE u.prog[e]
<1> DEFINE a == Stop(u, "in")
           b == Stop(a, "irq")
           v == Stop(b, "out")
<1>0. {"in", "irq", "out"} = Eps
  BY DEF Eps
<1>1. /\ Typed(a) /\ a.list = u.list
      /\ \A d \in Eps \ {"in"} : a.hw[d] = u.hw[d] /\ a.prog[d] = u.prog[d]
      /\ ~a.hw["in"].busy /\ SameLine(u.hw["in"], a.hw["in"])
      /\ a.prog["in"] = IF u.hw["in"].busy THEN None ELSE u.prog["in"]
  BY <1>0, StopEffect
<1>2. /\ Typed(b) /\ b.list = a.list
      /\ \A d \in Eps \ {"irq"} : b.hw[d] = a.hw[d] /\ b.prog[d] = a.prog[d]
      /\ ~b.hw["irq"].busy /\ SameLine(a.hw["irq"], b.hw["irq"])
      /\ b.prog["irq"] = IF a.hw["irq"].busy THEN None ELSE a.prog["irq"]
  <2> HIDE DEF a
  <2> QED BY <1>0, <1>1, StopEffect
<1>3. /\ Typed(v) /\ v.list = b.list
      /\ \A d \in Eps \ {"out"} : v.hw[d] = b.hw[d] /\ v.prog[d] = b.prog[d]
      /\ ~v.hw["out"].busy /\ SameLine(b.hw["out"], v.hw["out"])
      /\ v.prog["out"] = IF b.hw["out"].busy THEN None ELSE b.prog["out"]
  <2> HIDE DEF b
  <2> QED BY <1>0, <1>2, StopEffect
<1>4. v = StopAll(u)
  BY DEF StopAll
<1> HIDE DEF a, b, v
<1> QED
  BY <1>0, <1>1, <1>2, <1>3, <1>4

\* The message a submit routine takes: the head of the list, or a free buffer.
LEMMA NextMsgFacts ==
  ASSUME NEW u, Typed(u), NEW e \in Eps, NextMsg(u, e) # None
  PROVE  /\ u.prog[e] = None
         /\ NextMsg(u, e) \in Kind[e]
         /\ e = "out" => u.free > 0
         /\ e # "out" => u.list[e] # <<>> /\ NextMsg(u, e) = Head(u.list[e])
<1>1. u.prog[e] = None
  BY DEF NextMsg
<1>2. CASE e = "out"
  BY <1>1, <1>2, Kinds DEF NextMsg, Typed, USB
<1>3. CASE e # "out"
  <2>1. u.list[e] # <<>> /\ NextMsg(u, e) = Head(u.list[e])
    BY <1>1, <1>3 DEF NextMsg
  <2>2. u.list[e] \in Seq(Kind[e])
    BY <1>3, Kinds DEF Typed, EpType
  <2> QED
    BY <1>1, <1>3, <2>1, <2>2, TailType
<1> QED
  BY <1>2, <1>3

\* The critical section of a submit routine moves that message to in_progress.
LEMMA TakenEffect ==
  ASSUME NEW u, Typed(u), NEW e \in Eps, NextMsg(u, e) # None
  PROVE  LET v == Taken(u, e)
         IN  /\ Typed(v)
             /\ v.hw = u.hw
             /\ v.prog[e] = NextMsg(u, e)
             /\ v.list[e] = IF e = "out" THEN u.list[e] ELSE Tail(u.list[e])
             /\ \A d \in Eps \ {e} : v.prog[d] = u.prog[d] /\ v.list[d] = u.list[d]
<1> DEFINE m == NextMsg(u, e)
           v == Taken(u, e)
<1>1. m \in Kind[e] /\ m \in Msgs
  BY NextMsgFacts, Kinds
<1>2. CASE e = "out"
  <2>1. v = [u EXCEPT !.prog[e] = m, !.free = @ - 1]
    BY <1>2 DEF Taken
  <2>2. u.free - 1 \in Nat
    BY <1>2, NextMsgFacts DEF Typed, USB
  <2>3. /\ v.hw = u.hw /\ v.list = u.list /\ v.free = u.free - 1
        /\ v.prog = [u.prog EXCEPT ![e] = m]
    BY <2>1 DEF Typed, USB
  <2>4. v = [u EXCEPT !.prog = v.prog, !.free = v.free]
    BY <2>1, <2>3 DEF Typed, USB
  <2>5. v.prog \in [Eps -> Msgs \cup {None}] /\ v.free \in Nat
    BY <1>1, <2>2, <2>3 DEF Typed, USB
  <2>6. v.prog[e] = m /\ \A d \in Eps \ {e} : v.prog[d] = u.prog[d]
    BY <2>3 DEF Typed, USB
  <2> HIDE DEF v, m
  <2>7. v \in USB
    BY <2>4, <2>5 DEF Typed, USB
  <2>8. Typed(v)
    BY <1>1, <2>3, <2>6, <2>7 DEF Typed, EpType
  <2> QED
    BY <1>2, <2>3, <2>6, <2>8 DEF v, m
<1>3. CASE e # "out"
  <2>1. v = [u EXCEPT !.prog[e] = m, !.list[e] = Tail(@)]
    BY <1>3 DEF Taken
  <2>2. Tail(u.list[e]) \in Seq(Content[e]) /\ Tail(u.list[e]) \in Seq(Msgs)
    BY <1>3, NextMsgFacts, TailType DEF Typed, EpType, USB
  <2>3. /\ v.hw = u.hw /\ v.free = u.free
        /\ v.prog = [u.prog EXCEPT ![e] = m]
        /\ v.list = [u.list EXCEPT ![e] = Tail(@)]
    BY <2>1 DEF Typed, USB
  <2>4. v = [u EXCEPT !.prog = v.prog, !.list = v.list]
    BY <2>1, <2>3 DEF Typed, USB
  <2>5. v.prog \in [Eps -> Msgs \cup {None}] /\ v.list \in [Eps -> Seq(Msgs)]
    BY <1>1, <2>2, <2>3 DEF Typed, USB
  <2>6. /\ v.prog[e] = m /\ v.list[e] = Tail(u.list[e])
        /\ \A d \in Eps \ {e} : v.prog[d] = u.prog[d] /\ v.list[d] = u.list[d]
    BY <2>3 DEF Typed, USB
  <2> HIDE DEF v, m
  <2>7. v \in USB
    BY <2>4, <2>5 DEF Typed, USB
  <2>8. Typed(v)
    BY <1>1, <2>2, <2>3, <2>6, <2>7 DEF Typed, EpType
  <2> QED
    BY <1>3, <2>3, <2>6, <2>8 DEF v, m
<1> QED
  BY <1>2, <1>3

\* A transfer is refused: the message becomes a free buffer.
Failed(u, v, e) ==
  /\ ~(enabled /\ Accepts(u.hw[e]))
  /\ v.prog[e] = None
  /\ v.hw[e].busy = u.hw[e].busy /\ v.hw[e].msg = u.hw[e].msg

Succeeded(u, v, e, m) ==
  /\ enabled /\ Accepts(u.hw[e])
  /\ v.prog[e] = u.prog[e]
  /\ v.hw[e].busy /\ v.hw[e].msg = m

\* The driver takes the message, or refuses it and it becomes a free buffer.
LEMMA SubmittedEffect ==
  ASSUME NEW u, Typed(u), NEW e \in Eps, NEW m \in Kind[e], m # None
  PROVE  LET v == Submitted(u, e, m)
         IN  /\ Typed(v)
             /\ v.list = u.list
             /\ \A d \in Eps \ {e} : v.hw[d] = u.hw[d] /\ v.prog[d] = u.prog[d]
             /\ SameLine(u.hw[e], v.hw[e])
             /\ Succeeded(u, v, e, m) \/ Failed(u, v, e)
<1> DEFINE v == Submitted(u, e, m)
<1>0. /\ u.hw[e] \in EndpointType(Kind[e])
      /\ EndpointType(Kind[e]) \subseteq EndpointType(Msgs)
  BY Kinds DEF Typed, EpType, EndpointType
<1>1. CASE enabled /\ Accepts(u.hw[e])
  <2>1. v = [u EXCEPT !.hw[e] = Armed(@, m)]
    BY <1>1 DEF Submitted, Taking
  <2>2. /\ Armed(u.hw[e], m) \in EndpointType(Kind[e])
        /\ Armed(u.hw[e], m).busy /\ Armed(u.hw[e], m).msg = m
        /\ SameLine(u.hw[e], Armed(u.hw[e], m))
    BY <1>0 DEF Armed, EndpointType, SameLine
  <2>3. /\ v.hw = [u.hw EXCEPT ![e] = Armed(@, m)]
        /\ v.prog = u.prog /\ v.list = u.list /\ v.free = u.free
    BY <2>1 DEF Typed, USB
  <2>4. /\ v.hw[e] = Armed(u.hw[e], m)
        /\ \A d \in Eps \ {e} : v.hw[d] = u.hw[d]
        /\ v.hw \in [Eps -> EndpointType(Msgs)]
    BY <1>0, <2>2, <2>3 DEF Typed, USB
  <2>5. v = [u EXCEPT !.hw = v.hw]
    BY <2>1, <2>3 DEF Typed, USB
  <2> HIDE DEF v
  <2>6. v \in USB
    BY <2>4, <2>5 DEF Typed, USB
  <2>7. Typed(v)
    BY <2>2, <2>3, <2>4, <2>6 DEF Typed, EpType
  <2>8. Succeeded(u, v, e, m)
    BY <1>1, <2>2, <2>3, <2>4 DEF Succeeded
  <2> QED
    BY <2>2, <2>3, <2>4, <2>7, <2>8 DEF v
<1>2. CASE ~(enabled /\ Accepts(u.hw[e]))
  <2> DEFINE r == IF enabled THEN Refused(u.hw[e]) ELSE u.hw[e]
  <2>1. v = Freed([u EXCEPT !.hw[e] = r, !.prog[e] = None])
    BY <1>2 DEF Submitted, Taking
  <2>2. /\ r \in EndpointType(Kind[e])
        /\ r.busy = u.hw[e].busy /\ r.msg = u.hw[e].msg
        /\ SameLine(u.hw[e], r)
    BY <1>0 DEF Refused, EndpointType, SameLine
  <2> HIDE DEF r
  <2>3. /\ v.hw = [u.hw EXCEPT ![e] = r]
        /\ v.prog = [u.prog EXCEPT ![e] = None]
        /\ v.list = u.list /\ v.free = u.free + 1
    BY <2>1 DEF Typed, USB, Freed
  <2>4. /\ v.hw[e] = r /\ v.prog[e] = None
        /\ \A d \in Eps \ {e} : v.hw[d] = u.hw[d] /\ v.prog[d] = u.prog[d]
        /\ v.hw \in [Eps -> EndpointType(Msgs)]
        /\ v.prog \in [Eps -> Msgs \cup {None}]
        /\ v.free \in Nat
    BY <1>0, <2>2, <2>3 DEF Typed, USB
  <2>5. v = [u EXCEPT !.hw = v.hw, !.prog = v.prog, !.free = v.free]
    BY <2>1, <2>3 DEF Typed, USB, Freed
  <2> HIDE DEF v
  <2>6. v \in USB
    BY <2>4, <2>5 DEF Typed, USB
  <2>7. u.hw[e].busy => u.hw[e].msg # None
    BY DEF Typed, EpType
  <2>8. Typed(v)
    BY <2>2, <2>3, <2>4, <2>6, <2>7 DEF Typed, EpType
  <2>9. Failed(u, v, e)
    BY <1>2, <2>2, <2>4 DEF Failed
  <2> QED
    BY <2>2, <2>3, <2>4, <2>8, <2>9 DEF v
<1> QED
  BY <1>1, <1>2

\* The next message was taken and handed to the driver, which may refuse it.
Advanced(u, v, e) ==
  /\ NextMsg(u, e) # None
  /\ v.list[e] = IF e = "out" THEN u.list[e] ELSE Tail(u.list[e])
  /\ \/ /\ enabled /\ Accepts(u.hw[e])
        /\ v.prog[e] = NextMsg(u, e)
        /\ v.hw[e].busy /\ v.hw[e].msg = NextMsg(u, e)
     \/ Failed(u, v, e)

\* A whole submit routine leaves the queues alone or advances them by one.
LEMMA SubmitNextEffect ==
  ASSUME NEW u, Typed(u), NEW e \in Eps
  PROVE  LET v == SubmitNext(u, e)
         IN  /\ Typed(v)
             /\ \A d \in Eps \ {e} : Same(u, v, d)
             /\ SameLine(u.hw[e], v.hw[e])
             /\ v = u \/ Advanced(u, v, e)
<1> DEFINE m == NextMsg(u, e)
           w == Taken(u, e)
           v == Submitted(w, e, m)
<1>1. CASE m = None
  BY <1>1 DEF SubmitNext, Same, SameLine
<1>2. CASE m # None
  <2>1. /\ Typed(w) /\ w.hw = u.hw /\ w.prog[e] = m
        /\ w.list[e] = IF e = "out" THEN u.list[e] ELSE Tail(u.list[e])
        /\ \A d \in Eps \ {e} : w.prog[d] = u.prog[d] /\ w.list[d] = u.list[d]
    BY <1>2, TakenEffect
  <2>2. m \in Kind[e]
    BY <1>2, NextMsgFacts
  <2>3. SubmitNext(u, e) = v
    BY <1>2 DEF SubmitNext
  <2> HIDE DEF m, w
  <2>4. /\ Typed(v)
        /\ v.list = w.list
        /\ \A d \in Eps \ {e} : v.hw[d] = w.hw[d] /\ v.prog[d] = w.prog[d]
        /\ SameLine(w.hw[e], v.hw[e])
        /\ Succeeded(w, v, e, m) \/ Failed(w, v, e)
    BY <1>2, <2>1, <2>2, SubmittedEffect
  <2> HIDE DEF v
  <2>5. Advanced(u, v, e)
    BY <1>2, <2>1, <2>4 DEF Advanced, Succeeded, Failed, m
  <2> QED
    BY <2>1, <2>3, <2>4, <2>5 DEF Same
<1> QED
  BY <1>1, <1>2

\* A completion interrupt: recycle what is done, then submit the next.
LEMMA RecycledNextEffect ==
  ASSUME NEW u, Typed(u), NEW e \in Eps
  PROVE  LET w == Recycled(u, e)
             v == RecycledNext(u, e)
         IN  /\ Typed(v) /\ Typed(w)
             /\ w.prog[e] = None /\ w.hw = u.hw /\ w.list = u.list
             /\ \A d \in Eps \ {e} : Same(u, v, d)
             /\ SameLine(u.hw[e], v.hw[e])
             /\ v = w \/ Advanced(w, v, e)
<1> DEFINE w == Recycled(u, e)
           v == SubmitNext(w, e)
<1>1. /\ Typed(w) /\ w.hw = u.hw /\ w.list = u.list /\ w.prog[e] = None
      /\ \A d \in Eps \ {e} : w.prog[d] = u.prog[d]
  BY RecycledEffect
<1>2. v = RecycledNext(u, e)
  BY DEF RecycledNext
<1> HIDE DEF w
<1>3. /\ Typed(v)
      /\ \A d \in Eps \ {e} : Same(w, v, d)
      /\ SameLine(w.hw[e], v.hw[e])
      /\ v = w \/ Advanced(w, v, e)
  BY <1>1, SubmitNextEffect
<1> HIDE DEF v
<1> QED
  BY <1>1, <1>2, <1>3 DEF Same, w

\* The answer to a command that a reset finds in progress changes no line.
LEMMA AnsweredEffect ==
  ASSUME NEW u, Typed(u), async \in Ids \cup {None}
  PROVE  LET v == AnsweredByReset(u)
         IN  Typed(v) /\ \A e \in Eps : SameLine(u.hw[e], v.hw[e])
<1>1. CASE async = None
  BY <1>1 DEF AnsweredByReset, SameLine
<1>2. CASE async # None
  <2> DEFINE w == Enqueue(u, "in", async)
  <2>1. "in" \in Eps /\ async \in Content["in"]
    BY <1>2, Kinds DEF Eps
  <2>2. Typed(w) /\ w.hw = u.hw
    BY <2>1, EnqueueEffect
  <2>3. AnsweredByReset(u) = SubmitNext(w, "in")
    BY <1>2 DEF AnsweredByReset
  <2> HIDE DEF w
  <2> QED
    BY <2>1, <2>2, <2>3, SubmitNextEffect DEF Same, SameLine
<1> QED
  BY <1>1, <1>2

\* The number of buffers the queues hold is a number.
LEMMA HeldIsNat == ASSUME NEW u PROVE Held(u) \in Nat
<1>1. IsFiniteSet(Eps)
  <2>1. IsFiniteSet({"irq"})
    BY FS_Singleton
  <2>2. Eps = ({"irq"} \cup {"in"}) \cup {"out"}
    BY DEF Eps
  <2> QED
    BY <2>1, <2>2, FS_AddElement
<1> DEFINE S == {e \in Eps : u.prog[e] # None}
<1>2. IsFiniteSet(S)
  BY <1>1, FS_Subset
<1> QED
  BY <1>2, FS_CardinalityType DEF Held

\* The flush after a reset leaves nothing in a list or in progress.
LEMMA FlushedEffect ==
  ASSUME NEW u, Typed(u)
  PROVE  LET v == Flushed(u)
         IN  /\ Typed(v) /\ v.hw = u.hw
             /\ \A e \in Eps : v.list[e] = <<>> /\ v.prog[e] = None
<1> DEFINE v == Flushed(u)
<1>2. /\ v.hw = u.hw /\ v.free = u.free + Listed(u) + Held(u)
      /\ v.list = [e \in Eps |-> <<>>] /\ v.prog = [e \in Eps |-> None]
  BY DEF Flushed, Typed, USB
<1>3. v.free \in Nat
  <2>1. Listed(u) \in Nat /\ Held(u) \in Nat /\ u.free \in Nat
    <3>1. /\ u.list["out"] \in Seq(Msgs) /\ u.list["in"] \in Seq(Msgs)
          /\ u.list["irq"] \in Seq(Msgs)
      BY DEF Typed, USB, Eps
    <3>2. Len(u.list["out"]) \in Nat /\ Len(u.list["in"]) \in Nat /\ Len(u.list["irq"]) \in Nat
      BY <3>1, LenIsNat
    <3>3. Listed(u) \in Nat
      <4> DEFINE a == Len(u.list["out"])
                 b == Len(u.list["in"])
                 c == Len(u.list["irq"])
      <4>1. Listed(u) = a + b + c
        BY DEF Listed
      <4>2. a \in Nat /\ b \in Nat /\ c \in Nat
        BY <3>2
      <4> HIDE DEF a, b, c
      <4> QED
        BY <4>1, <4>2
    <3>4. u.free \in Nat
      BY DEF Typed, USB
    <3> QED
      BY <3>3, <3>4, HeldIsNat
  <2> QED
    BY <1>2, <2>1
<1>4. v = [u EXCEPT !.list = v.list, !.prog = v.prog, !.free = v.free]
  BY <1>2 DEF Flushed, Typed, USB
<1>5. v.list \in [Eps -> Seq(Msgs)] /\ v.prog \in [Eps -> Msgs \cup {None}]
  BY <1>2
<1> HIDE DEF v
<1>6. v \in USB
  BY <1>3, <1>4, <1>5 DEF Typed, USB
<1>7. \A e \in Eps : v.list[e] = <<>> /\ v.prog[e] = None
  BY <1>2
<1>8. Typed(v)
  BY <1>2, <1>6, <1>7 DEF Typed, EpType
<1> QED
  BY <1>2, <1>7, <1>8 DEF v

\* Exchanging the drivers' records for well-typed ones.
LEMMA NewLines ==
  ASSUME NEW u, Typed(u), NEW f, f = [e \in Eps |-> f[e]],
         \A e \in Eps : /\ f[e] \in EndpointType(Kind[e])
                        /\ f[e].busy => f[e].msg # None
  PROVE  LET v == [u EXCEPT !.hw = f]
         IN  Typed(v) /\ v.hw = f /\ v.prog = u.prog /\ v.list = u.list
<1> DEFINE v == [u EXCEPT !.hw = f]
<1>1. v.hw = f /\ v.prog = u.prog /\ v.list = u.list /\ v.free = u.free
  BY DEF Typed, USB
<1>2. \A e \in Eps : EndpointType(Kind[e]) \subseteq EndpointType(Msgs)
  BY Kinds DEF EndpointType
<1>3. f \in [Eps -> EndpointType(Msgs)]
  BY <1>2
<1>4. v \in USB
  BY <1>3 DEF Typed, USB
<1> QED
  BY <1>1, <1>4 DEF Typed, EpType

\* Replacing one endpoint's driver record changes nothing but it.
LEMMA NewLine ==
  ASSUME NEW u, Typed(u), NEW e \in Eps, NEW l \in EndpointType(Kind[e]),
         l.busy => l.msg # None
  PROVE  LET v == [u EXCEPT !.hw[e] = l]
         IN  /\ Typed(v) /\ v.prog = u.prog /\ v.list = u.list
             /\ v.hw[e] = l /\ \A d \in Eps \ {e} : v.hw[d] = u.hw[d]
<1> DEFINE f == [u.hw EXCEPT ![e] = l]
           v == [u EXCEPT !.hw = f]
<1>1. v = [u EXCEPT !.hw[e] = l]
  BY DEF Typed, USB
<1>2. /\ f = [d \in Eps |-> f[d]]
      /\ f[e] = l /\ \A d \in Eps \ {e} : f[d] = u.hw[d]
  BY DEF Typed, USB
<1>3. \A d \in Eps : f[d] \in EndpointType(Kind[d]) /\ (f[d].busy => f[d].msg # None)
  BY <1>2 DEF Typed, EpType
<1> HIDE DEF f
<1>4. Typed(v) /\ v.hw = f /\ v.prog = u.prog /\ v.list = u.list
  BY <1>2, <1>3, NewLines
<1> QED
  BY <1>1, <1>2, <1>4

-----------------------------------------------------------------------------
(* What the operators do to the commands and notifications. *)

Unmoved(u, v) ==
  /\ v.list["out"] = u.list["out"] /\ v.list["in"] = u.list["in"]
  /\ v.prog["in"] = u.prog["in"]

\* Commands are where they were if the lists that hold them are.
LEMMA UnmovedCommands ==
  ASSUME NEW u, NEW v, NEW a, Unmoved(u, v)
  PROVE  /\ OncePlaced(u, a) => OncePlaced(v, a)
         /\ Carried(v, a) = Carried(u, a)
BY DEF Unmoved, OncePlaced, Carried

\* The types of the three lists, one by one.
LEMMA ListTypes ==
  ASSUME NEW u, Typed(u)
  PROVE  /\ u.list["out"] \in Seq(Ids) /\ u.list["in"] \in Seq(Ids)
         /\ u.list["irq"] \in Seq(SUBSET Slots)
         /\ u.prog["in"] \in Ids \cup {None}
         /\ u.prog["irq"] \in (SUBSET Slots) \cup {None}
<1> "out" \in Eps /\ "in" \in Eps /\ "irq" \in Eps
  BY DEF Eps
<1> QED
  BY Kinds DEF Typed, EpType

\* An answer goes from the list to the endpoint.
LEMMA AnswerTaken ==
  ASSUME NEW u, NEW v, NEW a, Typed(u), OncePlaced(u, a),
         u.prog["in"] = None, u.list["in"] # <<>>,
         v.prog["in"] = Head(u.list["in"]),
         v.list["in"] = Tail(u.list["in"]), v.list["out"] = u.list["out"]
  PROVE  OncePlaced(v, a) /\ Carried(v, a) = Carried(u, a)
<1> DEFINE h == Head(u.list["in"])
<1>1. /\ h \in Elems(u.list["in"]) /\ h \in Ids
      /\ Elems(Tail(u.list["in"])) = Elems(u.list["in"]) \ {h}
      /\ Distinct(Tail(u.list["in"]))
  BY ListTypes, TailElems, TailType DEF OncePlaced
<1>2. h # None
  BY <1>1, NoneAssumption
<1> HIDE DEF h
<1>3. v.prog["in"] = h
  BY DEF h
<1> QED
  BY <1>1, <1>2, <1>3 DEF OncePlaced, Carried

\* The last notification stays the last when the first is taken.
LEMMA NotificationTaken ==
  ASSUME NEW u, NEW v, NEW w, Typed(u),
         u.prog["irq"] = None, u.list["irq"] # <<>>,
         v.prog["irq"] = Head(u.list["irq"]), v.prog["irq"] # None,
         v.list["irq"] = Tail(u.list["irq"])
  PROVE  Newest(v, w) = Newest(u, w)
<1> DEFINE s == u.list["irq"]
<1>1. s \in Seq(SUBSET Slots) /\ s # <<>>
  BY ListTypes
<1>2. \/ Tail(s) = <<>> /\ Head(s) = s[Len(s)]
      \/ Tail(s) # <<>> /\ Tail(s)[Len(Tail(s))] = s[Len(s)]
  <2> HIDE DEF s
  <2> QED BY <1>1, LastOfTail
<1> QED
  BY <1>1, <1>2 DEF Newest

-----------------------------------------------------------------------------
(* Every action preserves the invariant.  First the initial states.        *)

LEMMA Initial == ASSUME Mild, Init PROVE IInv
<1>1. Typed(usb)
  <2>1. EndpointInit \in EndpointType(Msgs)
        /\ \A e \in Eps : EndpointInit \in EndpointType(Kind[e])
    BY DEF EndpointInit, EndpointType
  <2>2. usb \in USB
    BY <2>1, PoolAssumption DEF Init, USB
  <2>3. \A e \in Eps : usb.hw[e] = EndpointInit /\ usb.prog[e] = None /\ usb.list[e] = <<>>
    BY DEF Init
  <2>4. ~EndpointInit.busy
    BY DEF EndpointInit
  <2>5. \A e \in Eps : <<>> \in Seq(Content[e])
    OBVIOUS
  <2>6. \A e \in Eps : EpType(usb, e)
    BY <2>1, <2>3, <2>4, <2>5 DEF EpType
  <2> QED
    BY <2>2, <2>6 DEF Typed
<1>2. \A e \in Eps : usb.hw[e] = EndpointInit /\ usb.prog[e] = None /\ usb.list[e] = <<>>
  BY DEF Init
<1>3. "out" \in Eps /\ "in" \in Eps
  BY DEF Eps
<1>4. Types
  BY <1>1 DEF Init, Types, PCs
<1>5. SessionState /\ Emptied /\ Sound /\ InHand /\ Seen /\ ~crashed
  BY <1>2 DEF Init, SessionState, Emptied, Sound, InHand, Seen, EndpointInit,
              Unhalted, Matched, Armable
<1>6. OncePlaced(usb, async) /\ Kept
  BY <1>2, <1>3, EmptyElems DEF Init, OncePlaced, Kept
<1> QED
  BY <1>4, <1>5, <1>6 DEF IInv

\* A step of the main loop that looks only.
LEMMA LoopStep ==
  ASSUME IInv, UNCHANGED <<usb, hand, stateVars, cfg, owed, view>>,
         hand = None, pc # "enable", pc' \in PCs \ {"enable"},
         counted' \in Nat, inserted' \subseteq Slots
  PROVE  IInv'
<1> USE DEF IInv, stateVars
<1>1. Types'
  BY DEF Types
<1>2. SessionState' /\ Emptied'
  BY DEF SessionState, Emptied
<1>3. Sound' /\ InHand'
  BY DEF Sound, InHand
<1>4. OncePlaced(usb, async)' /\ Kept' /\ Seen' /\ ~crashed'
  BY DEF Kept, Seen
<1> QED
  BY <1>1, <1>2, <1>3, <1>4

\* Steps of the main loop that find nothing to do.
LEMMA LookingSteps ==
  ASSUME IInv, NoReset \/ NoEvent \/ FeedNothing \/ CountFree
  PROVE  IInv'
<1>1. hand = None
  BY DEF IInv, Types, EpAt, NoReset, NoEvent, FeedNothing, CountFree
<1>2. pc # "enable" /\ pc' \in PCs \ {"enable"}
  BY DEF NoReset, NoEvent, FeedNothing, CountFree, Goto, PCs
<1>3. counted' \in Nat
  BY DEF IInv, Types, Typed, USB, NoReset, NoEvent, FeedNothing, CountFree
<1>4. UNCHANGED <<usb, hand, stateVars, cfg, owed, view, inserted>>
  BY DEF NoReset, NoEvent, FeedNothing, CountFree, hostVars
<1>5. inserted' \subseteq Slots
  BY <1>4 DEF IInv, Types
<1> QED
  BY <1>1, <1>2, <1>3, <1>4, <1>5, LoopStep

\* A card is inserted or removed.
LEMMA MoveCardStep ==
  ASSUME IInv, NEW s \in Slots, MoveCard(s)
  PROVE  IInv'
<1> USE DEF IInv, MoveCard, loopVars, stateVars
<1>1. Types'
  BY DEF Types
<1>2. SessionState' /\ Emptied' /\ Sound' /\ InHand'
  BY DEF SessionState, Emptied, Sound, InHand
<1>3. OncePlaced(usb, async)' /\ Kept' /\ Seen' /\ ~crashed'
  BY DEF Kept, Seen
<1> QED
  BY <1>1, <1>2, <1>3

\* The main loop tops up or trims the pool.
LEMMA AdjustStep ==
  ASSUME IInv, AdjustPool
  PROVE  IInv'
<1> DEFINE n == Adjusted(usb.free)
<1>1. usb' = [usb EXCEPT !.free = n]
  BY DEF AdjustPool
<1>2. Typed(usb) /\ counted \in Nat
  BY DEF IInv, Types
<1>3. n \in Nat
  BY <1>2, PoolAssumption DEF Typed, USB, Adjusted
<1> HIDE DEF n
<1>4. usb'.hw = usb.hw /\ usb'.prog = usb.prog /\ usb'.list = usb.list
  BY <1>1, <1>2 DEF Typed, USB
<1>5. Typed(usb')
  BY <1>1, <1>2, <1>3, <1>4 DEF Typed, USB, EpType
<1>6. /\ hand = None /\ hand' = None /\ counted' = 0
      /\ pc = "adjust" /\ pc' = "out"
      /\ UNCHANGED <<stateVars, hostVars>>
  BY DEF IInv, Types, EpAt, AdjustPool, Goto
<1>7. Types'
  BY <1>5, <1>6 DEF IInv, Types, PCs, stateVars, hostVars
<1>8. SessionState' /\ Emptied' /\ ~crashed'
  BY <1>4, <1>6 DEF IInv, SessionState, Emptied, stateVars, hostVars
<1>9. Sound' /\ InHand'
  BY <1>4, <1>6 DEF IInv, Sound, InHand, Matched, stateVars, hostVars
<1>10. OncePlaced(usb, async)' /\ Kept'
  BY <1>4, <1>6 DEF IInv, Kept, OncePlaced, Carried, stateVars, hostVars
<1>11. Seen'
  BY <1>4, <1>6 DEF IInv, Seen, Newest, stateVars, hostVars
<1> QED
  BY <1>7, <1>8, <1>9, <1>10, <1>11 DEF IInv

\* The main loop notices the end of a session and cleans up.
LEMMA ResetStep ==
  ASSUME IInv, Reset
  PROVE  IInv'
<1> DEFINE w == AnsweredByReset(usb)
<1>1. usb' = Flushed(w)
  BY DEF Reset
<1>2. Typed(w) /\ \A e \in Eps : SameLine(usb.hw[e], w.hw[e])
  BY AnsweredEffect DEF IInv, Types
<1> HIDE DEF w
<1>3. /\ Typed(usb') /\ usb'.hw = w.hw
      /\ \A e \in Eps : usb'.list[e] = <<>> /\ usb'.prog[e] = None
  BY <1>1, <1>2, FlushedEffect
<1>4. /\ pc = "top" /\ pc' = "enable" /\ flag /\ flag' = FALSE /\ mask' = {} /\ async' = None
      /\ hand = None /\ hand' = None
      /\ owed = {}
      /\ UNCHANGED <<counted, enabled, crashed, hostVars>>
  BY DEF IInv, Types, EpAt, Reset, Goto, Kept
<1>5. view = {}
  BY <1>4 DEF IInv, Seen
<1>6. Types'
  BY <1>3, <1>4 DEF IInv, Types, PCs, hostVars
<1>7. SessionState'
  BY <1>2, <1>3, <1>4 DEF IInv, SessionState, SameLine, hostVars
<1>8. Emptied'
  BY <1>3, <1>4, <1>5 DEF Emptied, hostVars
<1>9. Sound' /\ InHand'
  BY <1>2, <1>3, <1>4 DEF IInv, Sound, InHand, Unhalted, SameLine
<1>10. Elems(usb'.list["out"]) = {} /\ Elems(usb'.list["in"]) = {}
       /\ Distinct(usb'.list["out"]) /\ Distinct(usb'.list["in"])
       /\ usb'.prog["in"] = None
  BY <1>3, EmptyElems DEF Eps
<1>11. OncePlaced(usb, async)' /\ Kept' /\ ~crashed'
  BY <1>4, <1>10 DEF IInv, OncePlaced, Kept, Carried, hostVars
<1>12. Seen'
  BY <1>3, <1>4, <1>5 DEF Seen, Newest, Eps, hostVars
<1> QED
  BY <1>6, <1>7, <1>8, <1>9, <1>11, <1>12 DEF IInv

\* ccid_eps_enable opens the endpoints of a new session.
LEMMA EpsEnableStep ==
  ASSUME IInv, EpsEnable
  PROVE  IInv'
<1> DEFINE w == StopAll(usb)
           f == [e \in Eps |-> EpEnable(w.hw[e])]
<1>1. /\ Typed(w) /\ w.list = usb.list
      /\ \A e \in Eps :
           /\ ~w.hw[e].busy /\ SameLine(usb.hw[e], w.hw[e])
           /\ w.prog[e] = IF usb.hw[e].busy THEN None ELSE usb.prog[e]
  BY StopAllEffect DEF IInv, Types
<1>2. usb' = [w EXCEPT !.hw = f]
  BY DEF EpsEnable
<1> HIDE DEF w
<1>3. \A e \in Eps :
        /\ f[e] \in EndpointType(Kind[e])
        /\ ~f[e].busy /\ f[e].on /\ f[e].state = "idle" /\ f[e].halt = "clear"
        /\ f[e].stalled = usb.hw[e].stalled
  BY <1>1 DEF Typed, EpType, EpEnable, EndpointType, SameLine
<1>4. f = [e \in Eps |-> f[e]]
  OBVIOUS
<1> HIDE DEF f
<1>5. Typed(usb') /\ usb'.hw = f /\ usb'.prog = w.prog /\ usb'.list = usb.list
  BY <1>1, <1>2, <1>3, <1>4, NewLines
<1>6. /\ pc = "enable" /\ pc' = "resubmit" /\ enabled
      /\ UNCHANGED <<hand, counted, stateVars, hostVars>>
  BY DEF EpsEnable, Goto
<1>7. /\ \A e \in Eps : usb'.list[e] = <<>> /\ usb'.prog[e] = None
      /\ async = None /\ hand = None /\ owed = {} /\ mask = {} /\ view = {} /\ ~flag
  BY <1>1, <1>5, <1>6 DEF IInv, Emptied, SessionState
<1>8. Types'
  BY <1>5, <1>6, <1>7 DEF IInv, Types, PCs, stateVars, hostVars
<1>9. SessionState' /\ Emptied'
  BY <1>3, <1>5, <1>6, <1>7 DEF IInv, SessionState, Emptied, stateVars, hostVars
<1>10. Sound' /\ InHand'
  BY <1>3, <1>5, <1>6, <1>7 DEF IInv, Sound, InHand, Unhalted, Matched, Armable
<1>11. Elems(usb'.list["out"]) = {} /\ Elems(usb'.list["in"]) = {}
       /\ Distinct(usb'.list["out"]) /\ Distinct(usb'.list["in"])
       /\ usb'.prog["in"] = None
  BY <1>7, EmptyElems DEF Eps
<1>12. OncePlaced(usb, async)' /\ Kept' /\ ~crashed'
  BY <1>6, <1>7, <1>11 DEF IInv, OncePlaced, Kept, Carried, stateVars, hostVars
<1>13. Seen'
  BY <1>6, <1>7 DEF Seen, Newest, Eps, stateVars, hostVars
<1> QED
  BY <1>8, <1>9, <1>10, <1>12, <1>13 DEF IInv

\* An endpoint the host never halts, while a session lasts.
LEMMA Alive ==
  ASSUME IInv, ~flag, pc # "enable"
  PROVE  /\ cfg /\ enabled
         /\ \A e \in Eps : usb.hw[e].on
         /\ \A e \in Eps \ Haltable :
              /\ Unhalted(usb.hw[e]) /\ Matched(usb, e) /\ Armable(usb.hw[e])
              /\ usb.hw[e].busy => usb.hw[e].msg = usb.prog[e] /\ usb.prog[e] # None
              /\ ~usb.hw[e].busy => Accepts(usb.hw[e])
<1>1. cfg /\ enabled /\ \A e \in Eps : usb.hw[e].on
  BY DEF IInv, SessionState
<1>2. \A e \in Eps \ Haltable :
        Unhalted(usb.hw[e]) /\ Matched(usb, e) /\ Armable(usb.hw[e])
  BY DEF IInv, Sound
<1>3. \A e \in Eps : usb.hw[e].busy => usb.hw[e].msg # None
  BY DEF IInv, Types, Typed, EpType
<1> QED
  BY <1>1, <1>2, <1>3 DEF Matched, Armable, Unhalted, Accepts

\* Where the main loop is in a submit routine, and where it goes then.
LEMMA SubmitPCs ==
  ASSUME pc \in DOMAIN EpAt
  PROVE  /\ EpAt[pc] \in Eps /\ pc \in PCs \ {"enable"}
         /\ AfterSubmit[pc] \in PCs \ {"enable"}
BY DEF EpAt, AfterSubmit, Eps, PCs

\* The critical section of a submit routine.
LEMMA TakeStep ==
  ASSUME IInv, Mild, SubmitTake
  PROVE  IInv'
<1> DEFINE e == EpAt[pc]
           m == NextMsg(usb, e)
<1>1. /\ pc \in DOMAIN EpAt /\ hand = None /\ hand' = m
      /\ usb' = Taken(usb, e)
      /\ pc' = IF m = None THEN AfterSubmit[pc] ELSE pc
      /\ UNCHANGED <<counted, stateVars, hostVars>>
  BY DEF SubmitTake, Goto
<1>2. e \in Eps /\ pc \in PCs \ {"enable"} /\ AfterSubmit[pc] \in PCs \ {"enable"}
  BY <1>1, SubmitPCs
<1>3. CASE m = None
  <2>1. usb' = usb
    BY <1>1, <1>3 DEF Taken
  <2>2. UNCHANGED <<usb, hand, stateVars, cfg, owed, view>>
    BY <1>1, <1>3, <2>1 DEF hostVars
  <2>3. counted' \in Nat /\ inserted' \subseteq Slots
    BY <1>1 DEF IInv, Types, hostVars
  <2>4. pc # "enable" /\ pc' \in PCs \ {"enable"}
    BY <1>1, <1>2, <1>3
  <2> QED
    BY <1>1, <2>2, <2>3, <2>4, LoopStep
<1>4. CASE m # None
  <2> HIDE DEF m, e
  <2>1. Typed(usb)
    BY DEF IInv, Types
  <2>2. /\ Typed(usb') /\ usb'.hw = usb.hw /\ usb'.prog[e] = m
        /\ usb'.list[e] = IF e = "out" THEN usb.list[e] ELSE Tail(usb.list[e])
        /\ \A d \in Eps \ {e} : usb'.prog[d] = usb.prog[d] /\ usb'.list[d] = usb.list[d]
    BY <1>1, <1>2, <1>4, <2>1, TakenEffect DEF m
  <2>3. /\ usb.prog[e] = None /\ m \in Kind[e]
        /\ e # "out" => usb.list[e] # <<>> /\ m = Head(usb.list[e])
    BY <1>2, <1>4, <2>1, NextMsgFacts DEF m
  <2>4. pc' = pc /\ pc # "enable" /\ EpAt[pc] = e
    BY <1>1, <1>2, <1>4 DEF e
  <2>5. Types'
    BY <1>1, <1>2, <2>2, <2>3, <2>4 DEF IInv, Types, stateVars, hostVars
  <2>6. SessionState' /\ Emptied' /\ ~crashed'
    BY <1>1, <2>2, <2>4 DEF IInv, SessionState, Emptied, stateVars, hostVars
  <2>7. e \notin Haltable => ~usb.hw[e].busy
    BY <1>2, <2>1, <2>3, <2>4 DEF IInv, Sound, Matched, Typed, EpType
  <2>8. Sound'
    BY <1>1, <1>2, <2>2, <2>4, <2>7 DEF IInv, Sound, Matched, stateVars
  <2>9. InHand'
    BY <1>1, <1>2, <1>4, <2>2, <2>4, <2>7 DEF IInv, InHand, stateVars
  <2>10. OncePlaced(usb', async) /\ Carried(usb', async) = Carried(usb, async)
    <3>1. CASE e = "in"
      <4>1. "out" \in Eps \ {e}
        BY <3>1 DEF Eps
      <4>2. OncePlaced(usb, async)
        BY DEF IInv
      <4> QED
        BY <2>1, <2>2, <2>3, <3>1, <4>1, <4>2, AnswerTaken
    <3>2. CASE e # "in"
      <4>1. Unmoved(usb, usb')
        BY <2>2, <3>2 DEF Unmoved, Eps
      <4> QED
        BY <4>1, UnmovedCommands DEF IInv
    <3> QED
      BY <3>1, <3>2
  <2>11. OncePlaced(usb, async)' /\ Kept'
    BY <1>1, <2>10 DEF IInv, Kept, stateVars, hostVars
  <2>12. Newest(usb', view) = Newest(usb, view)
    <3>1. CASE e = "irq"
      BY <1>4, <2>1, <2>2, <2>3, <3>1, NotificationTaken
    <3>2. CASE e # "irq"
      BY <2>2, <3>2 DEF Newest, Eps
    <3> QED
      BY <3>1, <3>2
  <2>13. Seen'
    BY <1>1, <2>12 DEF IInv, Seen, stateVars, hostVars
  <2> QED
    BY <2>5, <2>6, <2>8, <2>9, <2>11, <2>13 DEF IInv
<1> QED
  BY <1>3, <1>4

\* The call into the driver after it.
LEMMA XferStep ==
  ASSUME IInv, Mild, SubmitXfer
  PROVE  IInv'
<1> DEFINE e == EpAt[pc]
<1>1. /\ pc \in DOMAIN EpAt /\ hand # None /\ hand' = None
      /\ usb' = Submitted(usb, e, hand)
      /\ pc' = AfterSubmit[pc]
      /\ UNCHANGED <<counted, stateVars, hostVars>>
  BY DEF SubmitXfer, Goto
<1>2. e \in Eps /\ pc \in PCs \ {"enable"} /\ pc' \in PCs \ {"enable"}
  BY <1>1, SubmitPCs
<1>3. Typed(usb) /\ hand \in Kind[e]
  BY <1>1 DEF IInv, Types
<1>4. e \notin Haltable => usb.prog[e] = hand /\ ~usb.hw[e].busy
  BY <1>1 DEF IInv, InHand
<1>5. ~flag => \A d \in Eps \ Haltable : usb.prog[d] # None => usb.hw[d].busy \/ d = e
  BY DEF IInv, InHand
<1> HIDE DEF e
<1>6. /\ Typed(usb') /\ usb'.list = usb.list
      /\ \A d \in Eps \ {e} : usb'.hw[d] = usb.hw[d] /\ usb'.prog[d] = usb.prog[d]
      /\ SameLine(usb.hw[e], usb'.hw[e])
      /\ Succeeded(usb, usb', e, hand) \/ Failed(usb, usb', e)
  BY <1>1, <1>2, <1>3, SubmittedEffect
<1>7. ~flag /\ e \notin Haltable => Succeeded(usb, usb', e, hand)
  BY <1>2, <1>4, <1>6, Alive DEF Failed
<1>8. Types'
  BY <1>1, <1>2, <1>6 DEF IInv, Types, stateVars, hostVars
<1>9. SessionState' /\ Emptied' /\ ~crashed'
  BY <1>1, <1>2, <1>6 DEF IInv, SessionState, Emptied, SameLine, stateVars, hostVars
<1>10. Sound'
  <2>1. e \notin Haltable => Unhalted(usb'.hw[e])
    BY <1>2, <1>6 DEF IInv, Sound, Unhalted, SameLine
  <2>2. e \notin Haltable => Matched(usb', e)
    BY <1>4, <1>6 DEF Succeeded, Failed, Matched
  <2>3. e \notin Haltable /\ ~flag => Armable(usb'.hw[e])
    BY <1>7 DEF Succeeded, Armable
  <2> QED
    BY <1>1, <1>2, <1>6, <2>1, <2>2, <2>3 DEF IInv, Sound, Matched, stateVars
<1>11. InHand'
  BY <1>1, <1>2, <1>5, <1>6, <1>7 DEF InHand, Succeeded, stateVars
<1>12. OncePlaced(usb', async) /\ (~flag => Carried(usb', async) = Carried(usb, async))
  <2>1. CASE e = "in" /\ flag
    <3>1. usb'.prog["in"] \in {usb.prog["in"], None}
      BY <1>6, <2>1 DEF Succeeded, Failed
    <3>2. None \notin Elems(usb.list["out"]) \cup Elems(usb.list["in"])
      BY <1>3, ListTypes, ElemsType, NoneAssumption
    <3>3. usb'.list = usb.list /\ OncePlaced(usb, async)
      BY <1>6 DEF IInv
    <3>4. {usb'.prog["in"]} \cap (Elems(usb.list["out"]) \cup Elems(usb.list["in"])) = {}
      BY <3>1, <3>2, <3>3 DEF OncePlaced
    <3>5. OncePlaced(usb', async)
      BY <3>1, <3>3, <3>4 DEF OncePlaced
    <3> QED
      BY <2>1, <3>5
  <2>2. CASE e # "in" \/ ~flag
    <3>1. "in" \notin Haltable
      BY DEF Mild
    <3>2. usb'.prog["in"] = usb.prog["in"]
      BY <1>6, <1>7, <2>2, <3>1 DEF Succeeded, Eps
    <3>3. Unmoved(usb, usb')
      BY <1>6, <3>2 DEF Unmoved
    <3> QED
      BY <3>3, UnmovedCommands DEF IInv
  <2> QED
    BY <2>1, <2>2
<1>13. OncePlaced(usb, async)' /\ Kept'
  BY <1>1, <1>12 DEF IInv, Kept, stateVars, hostVars
<1>14. Seen'
  <2>1. ~flag /\ "irq" \notin Haltable => usb'.prog["irq"] = usb.prog["irq"]
    BY <1>6, <1>7 DEF Succeeded, Eps
  <2> QED
    BY <1>1, <1>6, <2>1 DEF IInv, Seen, Newest, stateVars, hostVars
<1> QED
  BY <1>8, <1>9, <1>10, <1>11, <1>13, <1>14 DEF IInv

\* The insertion pins are read, a change is put in the list.
LEMMA CardDetectStep ==
  ASSUME IInv, Mild, CardDetect
  PROVE  IInv'
<1>1. /\ pc = "detect" /\ pc' = "notify" /\ mask' = inserted
      /\ usb' = IF inserted = mask THEN usb ELSE Enqueue(usb, "irq", inserted)
      /\ UNCHANGED <<hand, counted, enabled, flag, async, crashed, hostVars>>
  BY DEF CardDetect, Goto
<1>2. Typed(usb) /\ hand = None /\ inserted \subseteq Slots /\ "irq" \in Eps
  BY <1>1 DEF IInv, Types, EpAt, Eps
<1>3. /\ Typed(usb')
      /\ usb'.hw = usb.hw /\ usb'.prog = usb.prog
      /\ \A d \in Eps \ {"irq"} : usb'.list[d] = usb.list[d]
      /\ inserted # mask => usb'.list["irq"] = Append(usb.list["irq"], inserted)
  <2>1. CASE inserted = mask
    BY <1>1, <1>2, <2>1
  <2>2. CASE inserted # mask
    <3>1. inserted \in Content["irq"]
      BY <1>2, Kinds
    <3> QED
      BY <1>1, <1>2, <2>2, <3>1, EnqueueEffect
  <2> QED
    BY <2>1, <2>2
<1>4. Types'
  BY <1>1, <1>2, <1>3 DEF IInv, Types, PCs, hostVars
<1>5. SessionState' /\ Emptied' /\ ~crashed'
  BY <1>1, <1>3 DEF IInv, SessionState, Emptied, hostVars
<1>6. Sound' /\ InHand'
  BY <1>1, <1>2, <1>3 DEF IInv, Sound, InHand, Matched
<1>7. Unmoved(usb, usb')
  BY <1>3 DEF Unmoved, Eps
<1>8. OncePlaced(usb, async)' /\ Kept'
  BY <1>1, <1>7, UnmovedCommands DEF IInv, Kept, hostVars
<1>9. Seen'
  <2>1. CASE inserted = mask
    BY <1>1, <2>1 DEF IInv, Seen, hostVars
  <2>2. CASE inserted # mask
    <3> DEFINE s == usb.list["irq"]
    <3>1. s \in Seq(SUBSET Slots)
      BY <1>2, ListTypes
    <3> HIDE DEF s
    <3>2. /\ Append(s, inserted) # <<>>
          /\ Append(s, inserted)[Len(Append(s, inserted))] = inserted
      BY <1>2, <3>1, AppendProperties
    <3>3. usb'.list["irq"] = Append(s, inserted)
      BY <1>3, <2>2 DEF s
    <3>4. Newest(usb', view) = inserted
      BY <3>2, <3>3 DEF Newest
    <3> QED
      BY <1>1, <3>4 DEF IInv, Seen, hostVars
  <2> QED
    BY <2>1, <2>2
<1> QED
  BY <1>4, <1>5, <1>6, <1>8, <1>9 DEF IInv

\* A step of the main loop that moves commands between the lists and async.
LEMMA ListStep ==
  ASSUME IInv, Typed(usb'), usb'.hw = usb.hw, usb'.prog = usb.prog,
         usb'.list["irq"] = usb.list["irq"],
         hand = None, pc # "enable", pc' \in PCs \ {"enable"},
         async' \in Ids \cup {None},
         OncePlaced(usb', async'), Carried(usb', async') = Carried(usb, async),
         UNCHANGED <<hand, counted, enabled, flag, mask, crashed, hostVars>>
  PROVE  IInv'
<1>1. Types' /\ SessionState' /\ Emptied' /\ ~crashed'
  BY DEF IInv, Types, SessionState, Emptied, hostVars
<1>2. Sound' /\ InHand'
  BY DEF IInv, Sound, InHand, Matched
<1>3. Kept' /\ Seen'
  BY DEF IInv, Kept, Seen, Newest, hostVars
<1> QED
  BY <1>1, <1>2, <1>3 DEF IInv

\* The command in progress is answered.
LEMMA HandleEventsStep ==
  ASSUME IInv, HandleEvents
  PROVE  IInv'
<1>1. /\ pc = "events" /\ pc' = "answer" /\ async # None /\ async' = None
      /\ usb' = Enqueue(usb, "in", async)
      /\ UNCHANGED <<hand, counted, enabled, flag, mask, crashed, hostVars>>
  BY DEF HandleEvents, Goto
<1>2. /\ Typed(usb) /\ hand = None /\ async \in Ids /\ "in" \in Eps
      /\ OncePlaced(usb, async)
  BY <1>1 DEF IInv, Types, EpAt, Eps
<1>3. /\ Typed(usb')
      /\ usb'.hw = usb.hw /\ usb'.prog = usb.prog
      /\ usb'.list["in"] = Append(usb.list["in"], async)
      /\ \A d \in Eps \ {"in"} : usb'.list[d] = usb.list[d]
  BY <1>1, <1>2, Kinds, EnqueueEffect
<1>4. usb'.list["out"] = usb.list["out"] /\ usb'.list["irq"] = usb.list["irq"]
  BY <1>3 DEF Eps
<1>5. async \notin Elems(usb.list["in"])
  BY <1>2 DEF OncePlaced
<1>6. /\ Elems(usb'.list["in"]) = Elems(usb.list["in"]) \cup {async}
      /\ Distinct(usb'.list["in"])
  BY <1>2, <1>3, <1>5, ListTypes, AppendElems DEF OncePlaced
<1>7. None \notin Ids
  BY NoneAssumption
<1>8. Elems(usb'.list["in"]) \subseteq Ids /\ Elems(usb'.list["out"]) \subseteq Ids
  BY <1>3, ListTypes, ElemsType
<1>9. OncePlaced(usb', async')
  BY <1>1, <1>2, <1>3, <1>4, <1>6, <1>7, <1>8 DEF OncePlaced
<1>10. Carried(usb', async') = Carried(usb, async)
  BY <1>1, <1>2, <1>3, <1>4, <1>6, <1>7 DEF Carried
<1> QED
  BY <1>1, <1>2, <1>3, <1>4, <1>9, <1>10, ListStep DEF PCs

\* Handling a message takes it off the list of received messages.
LEMMA FedEffect ==
  ASSUME NEW u, Typed(u), u.list["out"] # <<>>
  PROVE  LET v == Fed(u)
         IN  /\ Typed(v) /\ v.hw = u.hw /\ v.prog = u.prog
             /\ v.list["out"] = Tail(u.list["out"])
             /\ v.list["in"] = u.list["in"] /\ v.list["irq"] = u.list["irq"]
<1> DEFINE v == Fed(u)
<1>1. Tail(u.list["out"]) \in Seq(Ids)
  BY ListTypes, TailType
<1>2. "out" \in Eps /\ "in" \in Eps /\ "irq" \in Eps
  BY DEF Eps
<1>3. /\ v.hw = u.hw /\ v.prog = u.prog /\ v.free = u.free
      /\ v.list = [u.list EXCEPT !["out"] = Tail(@)]
  BY DEF Fed, Typed, USB
<1>4. /\ v.list["out"] = Tail(u.list["out"])
      /\ \A d \in Eps \ {"out"} : v.list[d] = u.list[d]
  BY <1>2, <1>3 DEF Typed, USB
<1>5. Seq(Ids) \subseteq Seq(Msgs)
  BY DEF Msgs
<1>6. v.list \in [Eps -> Seq(Msgs)]
  BY <1>1, <1>2, <1>3, <1>5 DEF Typed, USB
<1>7. v = [u EXCEPT !.list = v.list]
  BY <1>3 DEF Fed, Typed, USB
<1> HIDE DEF v
<1>8. v \in USB
  BY <1>6, <1>7 DEF Typed, USB
<1>9. Typed(v)
  BY <1>1, <1>3, <1>4, <1>8, Kinds DEF Typed, EpType
<1> QED
  BY <1>2, <1>3, <1>4, <1>9 DEF v

\* A message is answered at once, or becomes the command in progress.
LEMMA FeedSteps ==
  ASSUME IInv, FeedReply \/ FeedAccept
  PROVE  IInv'
<1> DEFINE q == usb.list["out"]
           id == Head(q)
           w == Fed(usb)
<1>1. /\ Typed(usb) /\ hand = None /\ OncePlaced(usb, async) /\ q # <<>>
      /\ pc = "feed" /\ pc' \in PCs \ {"enable"}
      /\ UNCHANGED <<hand, counted, enabled, flag, mask, crashed, hostVars>>
  BY DEF IInv, Types, EpAt, FeedReply, FeedAccept, Goto, PCs, stateVars
<1>2. /\ id \in Ids /\ id \in Elems(q)
      /\ Elems(Tail(q)) = Elems(q) \ {id} /\ Distinct(Tail(q))
  BY <1>1, ListTypes, TailType, TailElems DEF OncePlaced
<1>3. /\ Typed(w) /\ w.hw = usb.hw /\ w.prog = usb.prog
      /\ w.list["out"] = Tail(q)
      /\ w.list["in"] = usb.list["in"] /\ w.list["irq"] = usb.list["irq"]
  BY <1>1, FedEffect
<1>4. id # None
  BY <1>2, NoneAssumption
<1>5. CASE FeedReply
  <2>1. usb' = Enqueue(w, "in", id) /\ async' = async
    BY <1>5 DEF FeedReply, FedMsg, stateVars
  <2> HIDE DEF w, id
  <2>2. "in" \in Eps /\ id \in Content["in"]
    BY <1>2, Kinds DEF Eps
  <2>3. /\ Typed(usb') /\ usb'.hw = w.hw /\ usb'.prog = w.prog
        /\ usb'.list["in"] = Append(w.list["in"], id)
        /\ \A d \in Eps \ {"in"} : usb'.list[d] = w.list[d]
    BY <1>3, <2>1, <2>2, EnqueueEffect
  <2>4. usb'.list["out"] = Tail(q) /\ usb'.list["irq"] = usb.list["irq"]
    BY <1>3, <2>3 DEF Eps
  <2>5. id \notin Elems(usb.list["in"])
    BY <1>1, <1>2 DEF OncePlaced
  <2>6. /\ Elems(usb'.list["in"]) = Elems(usb.list["in"]) \cup {id}
        /\ Distinct(usb'.list["in"])
    BY <1>1, <1>2, <1>3, <2>3, <2>5, ListTypes, AppendElems DEF OncePlaced
  <2>7. OncePlaced(usb', async')
    BY <1>1, <1>2, <1>3, <2>1, <2>3, <2>4, <2>6 DEF OncePlaced
  <2>8. Carried(usb', async') = Carried(usb, async)
    BY <1>1, <1>2, <1>3, <2>1, <2>3, <2>4, <2>6 DEF Carried
  <2>9. async' \in Ids \cup {None}
    BY <2>1 DEF IInv, Types
  <2> QED
    BY <1>1, <1>3, <2>3, <2>4, <2>7, <2>8, <2>9, ListStep
<1>6. CASE FeedAccept
  <2>1. usb' = w /\ async' = id /\ async = None
    BY <1>6 DEF FeedAccept, FedMsg
  <2> HIDE DEF w, id
  <2>2. OncePlaced(usb', async')
    BY <1>1, <1>2, <1>3, <1>4, <2>1 DEF OncePlaced
  <2>3. Carried(usb', async') = Carried(usb, async)
    BY <1>2, <1>3, <1>4, <2>1 DEF Carried
  <2> QED
    BY <1>1, <1>2, <1>3, <2>1, <2>2, <2>3, ListStep
<1> QED
  BY <1>5, <1>6

\* A USB interrupt at one endpoint.
LEMMA EndpointStep ==
  ASSUME IInv, NEW e \in Eps, Typed(usb'),
         \A d \in Eps \ {e} : Same(usb, usb', d),
         usb'.hw[e].on = usb.hw[e].on,
         e \notin Haltable =>
           /\ ~flag /\ Unhalted(usb'.hw[e]) /\ Matched(usb', e) /\ Armable(usb'.hw[e])
           /\ usb'.prog[e] # None => usb'.hw[e].busy
           /\ hand # None => EpAt[pc] # e,
         pc = "enable" => /\ usb'.list[e] = <<>> /\ usb'.prog[e] = None
                          /\ owed' = {} /\ view' = {},
         owed' \subseteq Ids, view' \subseteq Slots, crashed' = crashed,
         UNCHANGED <<placeVars, enabled, flag, mask, async, cfg, inserted>>
  PROVE  Types' /\ SessionState' /\ Emptied' /\ Sound' /\ InHand' /\ ~crashed'
<1> USE DEF placeVars
<1>1. Types' /\ ~crashed'
  BY DEF IInv, Types
<1>2. SessionState' /\ Emptied'
  BY DEF IInv, SessionState, Emptied, Same
<1>3. Sound'
  BY DEF IInv, Sound, Matched, Same
<1>4. hand # None => EpAt[pc] \in Eps
  BY SubmitPCs DEF IInv, Types
<1>5. InHand'
  BY <1>4 DEF IInv, InHand, Same
<1> QED
  BY <1>1, <1>2, <1>3, <1>5

\* A transfer is done and its buffer recycled, with what follows.
LEMMA CompletedEffect ==
  ASSUME IInv, NEW e \in Eps, Ready(usb.hw[e])
  PROVE  LET u == [usb EXCEPT !.hw[e] = Done(@)]
             w == Recycled(u, e)
             v == RecycledNext(u, e)
         IN  /\ ~flag /\ pc # "enable"
             /\ Typed(v) /\ Typed(w)
             /\ w.prog[e] = None /\ w.list = usb.list
             /\ \A d \in Eps \ {e} : Same(usb, v, d) /\ Same(usb, w, d)
             /\ v.hw[e].on = usb.hw[e].on
             /\ v = w \/ Advanced(w, v, e)
             /\ e \notin Haltable =>
                  /\ Unhalted(v.hw[e]) /\ Matched(v, e) /\ Armable(v.hw[e])
                  /\ v.prog[e] # None => v.hw[e].busy
                  /\ v = w \/ v.prog[e] = NextMsg(w, e)
                  /\ hand # None => EpAt[pc] # e
<1> DEFINE l == Done(usb.hw[e])
           u == [usb EXCEPT !.hw[e] = Done(@)]
           w == Recycled(u, e)
           v == RecycledNext(u, e)
<1>1. Typed(usb) /\ usb.hw[e] \in EndpointType(Kind[e])
  BY DEF IInv, Types, Typed, EpType
<1>2. ~flag /\ pc # "enable"
  BY DEF IInv, SessionState, Ready
<1>3. /\ l \in EndpointType(Kind[e]) /\ ~l.busy /\ l.state = "idle"
      /\ SameLine(usb.hw[e], l)
  BY <1>1 DEF Done, EndpointType, SameLine
<1>4. u = [usb EXCEPT !.hw[e] = l]
  OBVIOUS
<1> HIDE DEF l, u
<1>5. /\ Typed(u) /\ u.prog = usb.prog /\ u.list = usb.list
      /\ u.hw[e] = l /\ \A d \in Eps \ {e} : u.hw[d] = usb.hw[d]
  BY <1>1, <1>3, <1>4, NewLine
<1>6. /\ Typed(v) /\ Typed(w)
      /\ w.prog[e] = None /\ w.hw = u.hw /\ w.list = u.list
      /\ \A d \in Eps \ {e} : Same(u, v, d)
      /\ SameLine(u.hw[e], v.hw[e])
      /\ v = w \/ Advanced(w, v, e)
  BY <1>5, RecycledNextEffect
<1>7. \A d \in Eps \ {e} : w.prog[d] = u.prog[d]
  BY <1>5, RecycledEffect
<1> HIDE DEF w, v
<1>8. \A d \in Eps \ {e} : Same(usb, v, d) /\ Same(usb, w, d)
  BY <1>5, <1>6, <1>7 DEF Same
<1>9. v.hw[e].on = usb.hw[e].on
  BY <1>3, <1>5, <1>6 DEF SameLine
<1>10. ASSUME e \notin Haltable
       PROVE  /\ Unhalted(v.hw[e]) /\ Matched(v, e) /\ Armable(v.hw[e])
              /\ v.prog[e] # None => v.hw[e].busy
              /\ v = w \/ v.prog[e] = NextMsg(w, e)
              /\ hand # None => EpAt[pc] # e
  <2>1. Unhalted(usb.hw[e]) /\ enabled
    BY <1>2, <1>10, Alive
  <2>2. Unhalted(v.hw[e]) /\ Accepts(w.hw[e])
    BY <1>3, <1>5, <1>6, <2>1 DEF Unhalted, SameLine, Accepts
  <2>3. v = w \/ (v.prog[e] = NextMsg(w, e) /\ v.hw[e].busy /\ v.hw[e].msg = NextMsg(w, e))
    BY <1>6, <2>1, <2>2 DEF Advanced, Failed
  <2>4. /\ Matched(v, e) /\ Armable(v.hw[e])
        /\ v.prog[e] # None => v.hw[e].busy
    BY <1>3, <1>5, <1>6, <2>3 DEF Matched, Armable
  <2>5. hand # None => EpAt[pc] # e
    BY <1>10 DEF IInv, InHand, Ready
  <2> QED
    BY <2>2, <2>3, <2>4, <2>5
<1> QED
  BY <1>2, <1>5, <1>6, <1>8, <1>9, <1>10 DEF w, v, u

\* The host collects an answer.
LEMMA CollectsStep ==
  ASSUME IInv, Mild, HostCollects
  PROVE  IInv'
<1> DEFINE m == usb.hw["in"].msg
           w == Recycled([usb EXCEPT !.hw["in"] = Done(@)], "in")
<1>1. /\ Ready(usb.hw["in"]) /\ owed' = owed \ {m} /\ view' = view
      /\ usb' = RecycledNext([usb EXCEPT !.hw["in"] = Done(@)], "in")
      /\ UNCHANGED <<placeVars, enabled, flag, mask, async, crashed, cfg, inserted>>
  BY DEF HostCollects, stateVars
<1>2. "in" \in Eps /\ "out" \in Eps \ {"in"} /\ "irq" \in Eps \ {"in"} /\ "in" \notin Haltable
  BY DEF Eps, Mild
<1>3. /\ ~flag /\ pc # "enable"
      /\ Typed(usb') /\ Typed(w)
      /\ w.prog["in"] = None /\ w.list = usb.list
      /\ \A d \in Eps \ {"in"} : Same(usb, usb', d) /\ Same(usb, w, d)
      /\ usb'.hw["in"].on = usb.hw["in"].on
      /\ usb' = w \/ Advanced(w, usb', "in")
      /\ Unhalted(usb'.hw["in"]) /\ Matched(usb', "in") /\ Armable(usb'.hw["in"])
      /\ usb'.prog["in"] # None => usb'.hw["in"].busy
      /\ usb' = w \/ usb'.prog["in"] = NextMsg(w, "in")
      /\ hand # None => EpAt[pc] # "in"
  BY <1>1, <1>2, CompletedEffect
<1> HIDE DEF w
<1>4. m = usb.prog["in"] /\ m # None
  BY <1>1, <1>2, <1>3, Alive DEF Ready
<1>5. OncePlaced(usb, async) /\ owed = Carried(usb, async)
  BY <1>3 DEF IInv, Kept
<1>6. async \in Ids \cup {None} /\ Typed(usb)
  BY DEF IInv, Types
<1>7. None \notin Elems(usb.list["out"]) \cup Elems(usb.list["in"])
  BY <1>6, ListTypes, ElemsType, NoneAssumption
<1>8. OncePlaced(w, async) /\ Carried(w, async) = Carried(usb, async) \ {m}
  BY <1>3, <1>4, <1>5, <1>7 DEF OncePlaced, Carried
<1>9. OncePlaced(usb', async) /\ Carried(usb', async) = Carried(w, async)
  <2>1. CASE usb' = w
    BY <1>8, <2>1
  <2>2. CASE Advanced(w, usb', "in") /\ usb'.prog["in"] = NextMsg(w, "in")
    <3>1. /\ w.list["in"] # <<>> /\ usb'.prog["in"] = Head(w.list["in"])
          /\ usb'.list["in"] = Tail(w.list["in"])
      BY <1>2, <1>3, <2>2, NextMsgFacts DEF Advanced
    <3>2. usb'.list["out"] = w.list["out"]
      BY <1>2, <1>3 DEF Same
    <3> QED
      BY <1>3, <1>8, <3>1, <3>2, AnswerTaken
  <2> QED
    BY <1>3, <2>1, <2>2
<1>10. OncePlaced(usb, async)' /\ Kept'
  BY <1>1, <1>3, <1>5, <1>8, <1>9 DEF Kept
<1>11. Seen'
  BY <1>1, <1>2, <1>3 DEF IInv, Seen, Newest, Same
<1>12. owed' \subseteq Ids /\ view' \subseteq Slots
  BY <1>1 DEF IInv, Types
<1>13. Types' /\ SessionState' /\ Emptied' /\ Sound' /\ InHand' /\ ~crashed'
  BY <1>1, <1>2, <1>3, <1>12, EndpointStep
<1> QED
  BY <1>10, <1>11, <1>13 DEF IInv

\* The host polls the interrupt endpoint.
LEMMA PollsStep ==
  ASSUME IInv, Mild, HostPolls
  PROVE  IInv'
<1> DEFINE w == Recycled([usb EXCEPT !.hw["irq"] = Done(@)], "irq")
<1>1. /\ Ready(usb.hw["irq"]) /\ owed' = owed /\ view' = usb.hw["irq"].msg
      /\ usb' = RecycledNext([usb EXCEPT !.hw["irq"] = Done(@)], "irq")
      /\ UNCHANGED <<placeVars, enabled, flag, mask, async, crashed, cfg, inserted>>
  BY DEF HostPolls, stateVars
<1>2. "irq" \in Eps /\ "out" \in Eps \ {"irq"} /\ "in" \in Eps \ {"irq"}
  BY DEF Eps
<1>3. /\ ~flag /\ pc # "enable"
      /\ Typed(usb') /\ Typed(w)
      /\ w.prog["irq"] = None /\ w.list = usb.list
      /\ \A d \in Eps \ {"irq"} : Same(usb, usb', d) /\ Same(usb, w, d)
      /\ usb'.hw["irq"].on = usb.hw["irq"].on
      /\ usb' = w \/ Advanced(w, usb', "irq")
      /\ "irq" \notin Haltable =>
           /\ Unhalted(usb'.hw["irq"]) /\ Matched(usb', "irq") /\ Armable(usb'.hw["irq"])
           /\ usb'.prog["irq"] # None => usb'.hw["irq"].busy
           /\ usb' = w \/ usb'.prog["irq"] = NextMsg(w, "irq")
           /\ hand # None => EpAt[pc] # "irq"
  BY <1>1, <1>2, CompletedEffect
<1> HIDE DEF w
<1>4. owed' \subseteq Ids /\ view' \subseteq Slots
  BY <1>1, <1>2, Kinds DEF IInv, Types, Typed, EpType, EndpointType, Ready
<1>5. Types' /\ SessionState' /\ Emptied' /\ Sound' /\ InHand' /\ ~crashed'
  BY <1>1, <1>2, <1>3, <1>4, EndpointStep
<1>6. Unmoved(usb, usb')
  BY <1>2, <1>3 DEF Same, Unmoved
<1>7. OncePlaced(usb, async)' /\ Kept'
  BY <1>1, <1>6, UnmovedCommands DEF IInv, Kept
<1>8. Seen'
  <2>1. CASE "irq" \in Haltable
    BY <1>1, <1>3, <2>1 DEF Seen
  <2>2. CASE "irq" \notin Haltable
    <3>1. view' = usb.prog["irq"] /\ view' # None
      BY <1>1, <1>2, <1>3, <2>2, Alive DEF Ready
    <3>2. Newest(w, view') = Newest(usb, view)
      BY <1>3, <3>1 DEF Newest
    <3>3. Newest(usb', view') = Newest(w, view')
      <4>1. CASE usb' = w
        BY <4>1
      <4>2. CASE Advanced(w, usb', "irq") /\ usb'.prog["irq"] = NextMsg(w, "irq")
        <5>1. /\ w.list["irq"] # <<>> /\ usb'.prog["irq"] = Head(w.list["irq"])
              /\ usb'.prog["irq"] # None
              /\ usb'.list["irq"] = Tail(w.list["irq"])
          BY <1>2, <1>3, <4>2, NextMsgFacts DEF Advanced
        <5> QED
          BY <1>3, <5>1, NotificationTaken
      <4> QED
        BY <1>3, <2>2, <4>1, <4>2
    <3> QED
      BY <1>1, <1>3, <2>2, <3>2, <3>3 DEF IInv, Seen
  <2> QED
    BY <2>1, <2>2
<1> QED
  BY <1>5, <1>7, <1>8 DEF IInv

\* The host sends a command.
LEMMA SendsStep ==
  ASSUME IInv, Mild, NEW id \in Ids, HostSends(id)
  PROVE  IInv'
<1> DEFINE l == Done(usb.hw["out"])
           u == [usb EXCEPT !.hw["out"] = Done(@)]
           q == Enqueue(u, "out", id)
           r == [q EXCEPT !.prog["out"] = None]
           v == SubmitNext(r, "out")
<1>1. /\ Ready(usb.hw["out"]) /\ id \notin Pipeline /\ owed' = owed \cup {id}
      /\ usb.prog["out"] # None => usb' = OutDone(u, id) /\ crashed' = crashed
      /\ UNCHANGED <<placeVars, enabled, flag, mask, async, cfg, inserted, view>>
  BY DEF HostSends
<1>2. "out" \in Eps /\ "in" \in Eps \ {"out"} /\ "irq" \in Eps \ {"out"} /\ "out" \notin Haltable
  BY DEF Eps, Mild
<1>3. Typed(usb) /\ usb.hw["out"] \in EndpointType(Kind["out"])
  BY <1>2 DEF IInv, Types, Typed, EpType
<1>4. ~flag /\ pc # "enable"
  BY <1>1, <1>2 DEF IInv, SessionState, Ready
<1>5. /\ enabled /\ Unhalted(usb.hw["out"]) /\ usb.prog["out"] # None
      /\ hand # None => EpAt[pc] # "out"
  <2>1. enabled /\ Unhalted(usb.hw["out"]) /\ usb.prog["out"] # None
    BY <1>1, <1>2, <1>4, Alive DEF Ready
  <2>2. hand # None => EpAt[pc] # "out"
    BY <1>1, <1>2 DEF IInv, InHand, Ready
  <2> QED
    BY <2>1, <2>2
<1>6. usb' = v /\ crashed' = crashed
  BY <1>1, <1>5 DEF OutDone
<1>7. /\ l \in EndpointType(Kind["out"]) /\ ~l.busy /\ l.state = "idle"
      /\ SameLine(usb.hw["out"], l)
  BY <1>3 DEF Done, EndpointType, SameLine
<1>8. /\ Typed(u) /\ u.prog = usb.prog /\ u.list = usb.list
      /\ u.hw["out"] = l /\ \A d \in Eps \ {"out"} : u.hw[d] = usb.hw[d]
  <2> HIDE DEF l, u
  <2>1. u = [usb EXCEPT !.hw["out"] = l]
    BY DEF l, u
  <2> QED
    BY <1>2, <1>3, <1>7, <2>1, NewLine
<1> HIDE DEF l, u
<1>9. /\ Typed(q) /\ q.hw = u.hw /\ q.prog = u.prog
      /\ q.list["out"] = Append(usb.list["out"], id)
      /\ \A d \in Eps \ {"out"} : q.list[d] = usb.list[d]
  BY <1>2, <1>8, Kinds, EnqueueEffect
<1> HIDE DEF q
<1>10. /\ Typed(r) /\ r.hw = u.hw /\ r.list = q.list /\ r.prog["out"] = None
       /\ \A d \in Eps \ {"out"} : r.prog[d] = usb.prog[d]
  <2>1. /\ r.hw = q.hw /\ r.list = q.list /\ r.free = q.free
        /\ r.prog = [q.prog EXCEPT !["out"] = None]
    BY <1>9 DEF Typed, USB
  <2>2. r.prog \in [Eps -> Msgs \cup {None}] /\ r = [q EXCEPT !.prog = r.prog]
    BY <1>9, <2>1 DEF Typed, USB
  <2>3. r.prog["out"] = None /\ \A d \in Eps \ {"out"} : r.prog[d] = q.prog[d]
    BY <1>2, <1>9, <2>1 DEF Typed, USB
  <2> HIDE DEF r
  <2>4. r \in USB
    BY <1>9, <2>2 DEF Typed, USB
  <2>5. Typed(r)
    BY <1>9, <2>1, <2>3, <2>4 DEF Typed, EpType
  <2> QED
    BY <1>8, <1>9, <2>1, <2>3, <2>5
<1> HIDE DEF r
<1>11. /\ Typed(v)
       /\ \A d \in Eps \ {"out"} : Same(r, v, d)
       /\ SameLine(r.hw["out"], v.hw["out"])
       /\ v = r \/ Advanced(r, v, "out")
  BY <1>2, <1>10, SubmitNextEffect
<1> HIDE DEF v
<1>12. /\ \A d \in Eps \ {"out"} : Same(usb, usb', d)
       /\ usb'.list["out"] = Append(usb.list["out"], id)
       /\ usb'.hw["out"].on = usb.hw["out"].on
       /\ Unhalted(usb'.hw["out"])
  BY <1>5, <1>6, <1>7, <1>8, <1>9, <1>10, <1>11 DEF Same, SameLine, Advanced, Unhalted
<1>13. Accepts(r.hw["out"])
  BY <1>5, <1>7, <1>8, <1>10 DEF Accepts, Unhalted, SameLine
<1>14. /\ Matched(usb', "out") /\ Armable(usb'.hw["out"])
       /\ usb'.prog["out"] # None => usb'.hw["out"].busy
  BY <1>5, <1>6, <1>7, <1>8, <1>10, <1>11, <1>13 DEF Advanced, Failed, Matched, Armable
<1>15. owed' \subseteq Ids /\ view' \subseteq Slots /\ view' = view
  BY <1>1 DEF IInv, Types
<1>16. Types' /\ SessionState' /\ Emptied' /\ Sound' /\ InHand' /\ ~crashed'
  BY <1>1, <1>2, <1>4, <1>5, <1>6, <1>11, <1>12, <1>14, <1>15, EndpointStep
<1>17. /\ usb'.list["in"] = usb.list["in"] /\ usb'.list["irq"] = usb.list["irq"]
       /\ usb'.prog["in"] = usb.prog["in"] /\ usb'.prog["irq"] = usb.prog["irq"]
  BY <1>2, <1>12 DEF Same
<1>18. /\ OncePlaced(usb, async) /\ owed = Carried(usb, async)
       /\ async \in Ids \cup {None}
  BY <1>4 DEF IInv, Types, Kept
<1>19. id # None /\ id \notin Carried(usb, async)
  <2>1. id # None
    BY NoneAssumption
  <2>2. Elems(usb.list["out"]) = InQueue("out") /\ Elems(usb.list["in"]) = InQueue("in")
    BY DEF Elems, InQueue
  <2> QED
    BY <1>1, <2>1, <2>2 DEF Pipeline, InProgress, Carried
<1>20. /\ Elems(usb'.list["out"]) = Elems(usb.list["out"]) \cup {id}
       /\ Distinct(usb'.list["out"])
  <2>1. id \notin Elems(usb.list["out"])
    BY <1>19 DEF Carried
  <2> QED
    BY <1>3, <1>12, <1>18, <2>1, ListTypes, AppendElems DEF OncePlaced
<1>21. OncePlaced(usb', async)
  BY <1>17, <1>18, <1>19, <1>20 DEF OncePlaced, Carried
<1>22. Carried(usb', async) = Carried(usb, async) \cup {id}
  BY <1>17, <1>19, <1>20 DEF Carried
<1>23. OncePlaced(usb, async)' /\ Kept'
  BY <1>1, <1>4, <1>18, <1>21, <1>22 DEF Kept
<1>24. Seen'
  BY <1>1, <1>17 DEF IInv, Seen, Newest
<1> QED
  BY <1>16, <1>23, <1>24 DEF IInv

\* A session ends: in an interrupt every transfer is stopped.
LEMMA SessionEnds ==
  ASSUME IInv, Mild, BusResetIrq \/ Unconfigure
  PROVE  IInv'
<1> DEFINE w == StopAll(usb)
<1>1. /\ pc # "enable" /\ flag' = TRUE /\ enabled' = FALSE /\ cfg' = FALSE
      /\ owed' = {} /\ view' = {}
      /\ UNCHANGED <<placeVars, mask, async, crashed, inserted>>
  BY DEF Mild, BusResetIrq, Unconfigure, MayEnd, NewSession
<1>2. PICK f : /\ usb' = [w EXCEPT !.hw = f]
               /\ \/ f = [e \in Eps |-> BusReset(Deinit(w.hw[e]))]
                  \/ f = [e \in Eps |-> Deinit(w.hw[e])]
  BY DEF BusResetIrq, Unconfigure
<1>3. /\ Typed(w) /\ w.list = usb.list
      /\ \A e \in Eps :
           /\ ~w.hw[e].busy /\ SameLine(usb.hw[e], w.hw[e])
           /\ w.prog[e] = IF usb.hw[e].busy THEN None ELSE usb.prog[e]
  BY StopAllEffect DEF IInv, Types
<1> HIDE DEF w
<1>4. /\ f = [e \in Eps |-> f[e]]
      /\ \A e \in Eps :
           /\ f[e] \in EndpointType(Kind[e])
           /\ ~f[e].busy /\ ~f[e].on
           /\ Unhalted(w.hw[e]) => Unhalted(f[e])
  <2>1. \A e \in Eps : \A l \in {BusReset(Deinit(w.hw[e])), Deinit(w.hw[e])} :
          /\ l \in EndpointType(Kind[e])
          /\ ~l.busy /\ ~l.on
          /\ Unhalted(w.hw[e]) => Unhalted(l)
    BY <1>3 DEF Typed, EpType, Deinit, BusReset, EndpointType, Unhalted
  <2>2. \A e \in Eps : f[e] \in {BusReset(Deinit(w.hw[e])), Deinit(w.hw[e])}
    BY <1>2
  <2>3. f = [e \in Eps |-> f[e]]
    BY <1>2
  <2> QED
    BY <2>1, <2>2, <2>3
<1>5. Typed(usb') /\ usb'.hw = f /\ usb'.prog = w.prog /\ usb'.list = usb.list
  BY <1>2, <1>3, <1>4, NewLines
<1>6. Types'
  BY <1>1, <1>5 DEF IInv, Types, placeVars
<1>7. SessionState' /\ Emptied' /\ ~crashed'
  BY <1>1, <1>4, <1>5 DEF IInv, SessionState, Emptied, placeVars
<1>8. \A e \in Eps \ Haltable : Unhalted(f[e])
  BY <1>3, <1>4 DEF IInv, Sound, Unhalted, SameLine
<1>9. Sound'
  BY <1>1, <1>4, <1>5, <1>8 DEF Sound, Matched
<1>10. InHand'
  <2>1. hand # None => EpAt[pc] \in Eps
    BY SubmitPCs DEF IInv, Types
  <2> QED
    BY <1>1, <1>3, <1>4, <1>5, <2>1 DEF IInv, InHand, placeVars
<1>11. OncePlaced(usb', async)
  <2>1. usb'.prog["in"] \in {usb.prog["in"], None}
    BY <1>3, <1>5 DEF Eps
  <2>2. Typed(usb) /\ OncePlaced(usb, async)
    BY DEF IInv, Types
  <2>3. None \notin Elems(usb.list["out"]) \cup Elems(usb.list["in"])
    BY <2>2, ListTypes, ElemsType, NoneAssumption
  <2>4. {usb'.prog["in"]} \cap (Elems(usb.list["out"]) \cup Elems(usb.list["in"])) = {}
    BY <2>1, <2>2, <2>3 DEF OncePlaced
  <2> QED
    BY <1>5, <2>1, <2>2, <2>4 DEF OncePlaced
<1>12. OncePlaced(usb, async)' /\ Kept' /\ Seen'
  BY <1>1, <1>11 DEF Kept, Seen
<1> QED
  BY <1>6, <1>7, <1>9, <1>10, <1>12 DEF IInv

\* SetConfiguration(1) starts a session.
LEMMA ConfigureStep ==
  ASSUME IInv, Mild, Configure
  PROVE  IInv'
<1> DEFINE f == [e \in Eps |-> EpInit(usb.hw[e])]
<1>1. /\ ~cfg /\ flag' = flag /\ enabled' = TRUE /\ cfg' = TRUE
      /\ owed' = {} /\ view' = {}
      /\ UNCHANGED <<loopVars, mask, async, crashed, inserted>>
  BY DEF IInv, Types, Mild, Configure, NewSession
<1>2. Typed(usb) /\ ~enabled /\ (flag \/ pc = "enable")
  BY <1>1 DEF IInv, Types, SessionState
<1>3. usb' = [usb EXCEPT !.hw = f]
  BY <1>2 DEF Configure
<1>4. /\ f = [e \in Eps |-> f[e]]
      /\ \A e \in Eps :
           /\ f[e] \in EndpointType(Kind[e])
           /\ ~f[e].busy /\ f[e].on = usb.hw[e].on
           /\ Unhalted(usb.hw[e]) => Unhalted(f[e])
  BY <1>2 DEF Typed, EpType, EpInit, EndpointType, Unhalted
<1> HIDE DEF f
<1>5. Typed(usb') /\ usb'.hw = f /\ usb'.prog = usb.prog /\ usb'.list = usb.list
  BY <1>2, <1>3, <1>4, NewLines
<1>6. Types'
  BY <1>1, <1>5 DEF IInv, Types, loopVars
<1>7. SessionState' /\ Emptied' /\ ~crashed'
  BY <1>1, <1>4, <1>5 DEF IInv, SessionState, Emptied, loopVars
<1>8. Sound'
  BY <1>1, <1>2, <1>4, <1>5 DEF IInv, Sound, Matched, loopVars
<1>9. InHand'
  <2>1. hand # None => EpAt[pc] \in Eps
    BY SubmitPCs DEF IInv, Types
  <2>2. pc = "enable" => \A e \in Eps : usb.prog[e] = None
    BY DEF IInv, Emptied
  <2> QED
    BY <1>1, <1>2, <1>4, <1>5, <2>1, <2>2 DEF IInv, InHand, loopVars
<1>10. Unmoved(usb, usb')
  BY <1>5 DEF Unmoved
<1>11. OncePlaced(usb', async) /\ Carried(usb', async) = Carried(usb, async)
  BY <1>10, UnmovedCommands DEF IInv
<1>12. owed = {} /\ view = {}
  BY <1>2 DEF IInv, Kept, Seen, Emptied
<1>13. OncePlaced(usb, async)' /\ Kept' /\ Seen'
  BY <1>1, <1>5, <1>11, <1>12 DEF IInv, Kept, Seen, Newest
<1> QED
  BY <1>6, <1>7, <1>8, <1>9, <1>13 DEF IInv

\* The interrupt endpoint is halted and cleared.
LEMMA HaltSteps ==
  ASSUME IInv, Mild, Halts
  PROVE  IInv'
<1> DEFINE hw == usb.hw["irq"]
<1>1. /\ "irq" \in Eps /\ "irq" \in Haltable
      /\ "out" \in Eps \ {"irq"} /\ "in" \in Eps \ {"irq"}
      /\ HaltEndpoint("irq") \/ StallIrq("irq") \/ UnhaltEndpoint("irq")
  BY DEF Halts, Mild, Eps
<1>2. UNCHANGED <<placeVars, stateVars, hostVars>>
  BY <1>1 DEF loopVars, placeVars, HaltEndpoint, StallIrq, UnhaltEndpoint
<1>3. Typed(usb) /\ hw \in EndpointType(Kind["irq"]) /\ (hw.busy => hw.msg # None)
  BY <1>1 DEF IInv, Types, Typed, EpType
<1>4. \A l \in {HaltSet(hw), StallSent(hw), HaltCleared(hw)} :
        /\ l \in EndpointType(Kind["irq"]) /\ (l.busy => l.msg # None)
        /\ l.on = hw.on
        /\ LET u == [usb EXCEPT !.hw["irq"] = l]
           IN  /\ Typed(u) /\ u.prog = usb.prog /\ u.list = usb.list
               /\ u.hw["irq"] = l /\ \A d \in Eps \ {"irq"} : u.hw[d] = usb.hw[d]
  <2> TAKE l \in {HaltSet(hw), StallSent(hw), HaltCleared(hw)}
  <2>1. /\ l \in EndpointType(Kind["irq"]) /\ (l.busy => l.msg # None)
        /\ l.on = hw.on
    BY <1>3 DEF HaltSet, StallSent, HaltCleared, EndpointType
  <2> QED
    BY <1>1, <1>3, <2>1, NewLine
<1>5. /\ Typed(usb') /\ \A d \in Eps \ {"irq"} : Same(usb, usb', d)
      /\ usb'.hw["irq"].on = hw.on
      /\ pc = "enable" => usb'.list["irq"] = <<>> /\ usb'.prog["irq"] = None
  <2>0. pc = "enable" => usb.list["irq"] = <<>> /\ usb.prog["irq"] = None
    BY <1>1 DEF IInv, Emptied
  <2>1. CASE HaltEndpoint("irq")
    <3>1. usb' = [usb EXCEPT !.hw["irq"] = HaltSet(hw)]
      BY <2>1 DEF HaltEndpoint
    <3> QED
      BY <1>4, <2>0, <3>1 DEF Same
  <2>2. CASE StallIrq("irq")
    <3> DEFINE u == [usb EXCEPT !.hw["irq"] = StallSent(hw)]
    <3>1. usb' = Recycled(u, "irq")
      BY <2>2 DEF StallIrq
    <3>2. /\ Typed(u) /\ u.prog = usb.prog /\ u.list = usb.list
          /\ u.hw["irq"].on = hw.on /\ \A d \in Eps \ {"irq"} : u.hw[d] = usb.hw[d]
      BY <1>4
    <3> HIDE DEF u
    <3>3. /\ Typed(usb') /\ usb'.hw = u.hw /\ usb'.list = u.list
          /\ usb'.prog["irq"] = None
          /\ \A d \in Eps \ {"irq"} : usb'.prog[d] = u.prog[d]
      BY <1>1, <3>1, <3>2, RecycledEffect
    <3> QED
      BY <2>0, <3>2, <3>3 DEF Same
  <2>3. CASE UnhaltEndpoint("irq")
    <3> DEFINE u == [usb EXCEPT !.hw["irq"] = HaltCleared(hw)]
               w == Recycled(u, "irq")
    <3>1. usb' = RecycledNext(u, "irq")
      BY <2>3 DEF UnhaltEndpoint
    <3>2. /\ Typed(u) /\ u.prog = usb.prog /\ u.list = usb.list
          /\ u.hw["irq"].on = hw.on /\ \A d \in Eps \ {"irq"} : u.hw[d] = usb.hw[d]
      BY <1>4
    <3> HIDE DEF u
    <3>3. /\ Typed(usb') /\ Typed(w) /\ w.prog["irq"] = None /\ w.list = u.list
          /\ \A d \in Eps \ {"irq"} : Same(u, usb', d)
          /\ SameLine(u.hw["irq"], usb'.hw["irq"])
          /\ usb' = w \/ Advanced(w, usb', "irq")
      BY <1>1, <3>1, <3>2, RecycledNextEffect
    <3> HIDE DEF w
    <3>4. Advanced(w, usb', "irq") => w.list["irq"] # <<>>
      BY <1>1, <3>3, NextMsgFacts DEF Advanced
    <3> QED
      BY <2>0, <3>2, <3>3, <3>4 DEF Same, SameLine
  <2> QED
    BY <1>1, <2>1, <2>2, <2>3
<1>6. /\ owed' = owed /\ view' = view /\ crashed' = crashed
      /\ owed' \subseteq Ids /\ view' \subseteq Slots
      /\ pc = "enable" => owed' = {} /\ view' = {}
      /\ UNCHANGED <<placeVars, enabled, flag, mask, async, cfg, inserted>>
  BY <1>2 DEF IInv, Types, Emptied, stateVars, hostVars
<1>7. Types' /\ SessionState' /\ Emptied' /\ Sound' /\ InHand' /\ ~crashed'
  BY <1>1, <1>5, <1>6, EndpointStep
<1>8. Unmoved(usb, usb')
  BY <1>1, <1>5 DEF Same, Unmoved
<1>9. OncePlaced(usb, async)' /\ Kept' /\ Seen'
  BY <1>1, <1>6, <1>8, UnmovedCommands DEF IInv, Kept, Seen
<1> QED
  BY <1>7, <1>9 DEF IInv

\* One case for each action.
LEMMA Inductive == ASSUME Mild, IInv, [Next]_vars PROVE IInv'
<1>1. ASSUME UNCHANGED vars
      PROVE  IInv'
  <2>1. Types' /\ SessionState' /\ Emptied' /\ Sound' /\ InHand'
    BY <1>1 DEF IInv, Types, SessionState, Emptied, Sound, InHand,
                vars, loopVars, stateVars, hostVars
  <2>2. OncePlaced(usb, async)' /\ Kept' /\ Seen' /\ ~crashed'
    BY <1>1 DEF IInv, Kept, Seen, vars, loopVars, stateVars, hostVars
  <2> QED
    BY <2>1, <2>2 DEF IInv
<1>2. ASSUME MainLoop
      PROVE  IInv'
  BY <1>2, LookingSteps, AdjustStep, ResetStep, EpsEnableStep, TakeStep, XferStep,
     CardDetectStep, HandleEventsStep, FeedSteps DEF MainLoop
<1>3. ASSUME Host
      PROVE  IInv'
  BY <1>3, SendsStep, CollectsStep, PollsStep DEF Host
<1>4. ASSUME Session
      PROVE  IInv'
  BY <1>4, SessionEnds, ConfigureStep DEF Session
<1>5. ASSUME Halts
      PROVE  IInv'
  BY <1>5, HaltSteps
<1>6. ASSUME NEW s \in Slots, MoveCard(s)
      PROVE  IInv'
  BY <1>6, MoveCardStep
<1> QED
  BY <1>1, <1>2, <1>3, <1>4, <1>5, <1>6 DEF Next

\* The induction.
LEMMA Invariance == ASSUME Mild PROVE Spec => []IInv
<1>1. Init => IInv
  BY Initial
<1>2. IInv /\ [Next]_vars => IInv'
  BY Inductive
<1> QED
  BY <1>1, <1>2, PTL DEF Spec

-----------------------------------------------------------------------------
(* What is in the main loop's hand. *)

\* No interrupt recycles it, if nothing is halted.
FreedInv == freed \in 0..2 /\ (Haltable = {} => freed = 0)

\* An interrupt recycles what is armed, and what is in hand is not.
LEMMA RecyclesStep ==
  ASSUME IInv, FreedInv, NEW S, Recycles(S),
         \A e \in S : e \notin Haltable => usb.hw[e].busy
  PROVE  FreedInv'
<1>1. freed' \in {1, freed} /\ (hand = None \/ EpAt[pc] \notin S => freed' = freed)
  BY DEF Recycles
<1>2. Haltable = {} => hand = None \/ EpAt[pc] \notin S
  BY DEF IInv, InHand
<1> QED
  BY <1>1, <1>2 DEF FreedInv

\* The driver's refusal frees what the interrupt has freed.
LEMMA FreedStep ==
  ASSUME Mild, IInv, FreedInv, [Next]_vars
  PROVE  FreedInv'
<1>1. ASSUME UNCHANGED freed
      PROVE  FreedInv'
  BY <1>1 DEF FreedInv
<1>2. ASSUME UNCHANGED vars \/ (MainLoop /\ ~SubmitXfer) \/ Configure
             \/ (\E e \in Haltable : HaltEndpoint(e)) \/ (\E s \in Slots : MoveCard(s))
      PROVE  FreedInv'
  BY <1>1, <1>2 DEF vars, loopVars, MainLoop, Reset, NoReset, EpsEnable, SubmitTake,
     CardDetect, HandleEvents, NoEvent, FeedNothing, FeedReply, FeedAccept,
     CountFree, AdjustPool, Configure, HaltEndpoint, MoveCard
<1>3. ASSUME SubmitXfer
      PROVE  FreedInv'
  BY <1>3 DEF FreedInv, SubmitXfer
<1>4. ASSUME Host
      PROVE  FreedInv'
  BY <1>4, RecyclesStep DEF Host, HostSends, HostCollects, HostPolls, Ready
<1>5. ASSUME BusResetIrq \/ Unconfigure
      PROVE  FreedInv'
  BY <1>5, RecyclesStep DEF BusResetIrq, Unconfigure
<1>6. ASSUME NEW e \in Haltable, StallIrq(e) \/ UnhaltEndpoint(e)
      PROVE  FreedInv'
  BY <1>6, RecyclesStep DEF StallIrq, UnhaltEndpoint
<1> QED
  BY <1>2, <1>3, <1>4, <1>5, <1>6 DEF Next, Session, Halts

\* The induction.
LEMMA FreedInvariance == ASSUME Mild PROVE Spec => []FreedInv
<1>1. Init => FreedInv
  BY DEF Init, FreedInv
<1>2. IInv /\ FreedInv /\ [Next]_vars => FreedInv'
  BY FreedStep
<1> QED
  BY <1>1, <1>2, Invariance, PTL DEF Spec

-----------------------------------------------------------------------------
(* Theorems. *)

\* The type invariant: what main.c, the class driver and the endpoints keep.
THEOREM TypeCorrect == ASSUME Mild PROVE Spec => []TypeOK
<1>1. IInv /\ FreedInv => TypeOK
  <2> SUFFICES ASSUME IInv, FreedInv PROVE TypeOK
    OBVIOUS
  <2>1. hand \in Msgs \cup {None}
    BY SubmitPCs, Kinds DEF IInv, Types
  <2> QED
    BY <2>1 DEF IInv, FreedInv, Types, Typed, USB, TypeOK
<1> QED
  BY <1>1, Invariance, FreedInvariance, PTL

\* What main.c:309 returns to free_q is not what a submit routine has in hand, and
\* will return itself if the driver refuses it, if no endpoint is halted.
THEOREM FreedOnlyOnce == ASSUME Mild, Haltable = {} PROVE Spec => []FreedOnce
<1>1. FreedInv => FreedOnce
  BY DEF FreedInv, FreedOnce
<1> QED
  BY <1>1, FreedInvariance, PTL

\* main.c:271 OSMO_ASSERT(msg): no OUT transfer is completed that the queues
\* know nothing of, also if the interrupt endpoint is halted.
THEOREM NoAssertFails == ASSUME Mild PROVE Spec => []NoAssert
<1>1. IInv => NoAssert
  BY DEF IInv, NoAssert
<1> QED
  BY <1>1, Invariance, PTL

\* Pipeline sees what is in progress, which is what the hardware works on.
LEMMA PipelineKept == ASSUME Mild, IInv PROVE SessionKept
<1>1. CASE flag
  BY <1>1 DEF IInv, Kept, SessionKept
<1>2. CASE ~flag
  <2>1. owed = Carried(usb, async)
    BY <1>2 DEF IInv, Kept
  <2>2. Elems(usb.list["out"]) = InQueue("out") /\ Elems(usb.list["in"]) = InQueue("in")
    BY DEF Elems, InQueue
  <2>3. Ready(usb.hw["in"]) => usb.hw["in"].msg = usb.prog["in"]
    <3>1. "in" \in Eps \ Haltable
      BY DEF Mild, Eps
    <3>2. Ready(usb.hw["in"]) => pc # "enable"
      BY <3>1 DEF IInv, SessionState, Ready
    <3> QED
      BY <1>2, <3>1, <3>2, Alive DEF Ready
  <2>4. Pipeline = Carried(usb, async)
    BY <2>2, <2>3 DEF Pipeline, InProgress, Carried
  <2> QED
    BY <1>2, <2>1, <2>4 DEF SessionKept
<1> QED
  BY <1>1, <1>2

\* The reader has the commands of this session and no others (main.c:550), if no
\* endpoint is halted: no command is lost to the cleaning up after an earlier
\* session or to a refused submission, and none is answered late.
THEOREM SessionIsKept ==
  ASSUME Mild, Haltable = {} PROVE Spec => []SessionKept
<1>1. IInv => SessionKept
  BY PipelineKept
<1> QED
  BY <1>1, Invariance, PTL

\* A halt of the interrupt endpoint does not by itself cost a command, whatever it
\* meets (main.c:308), until it has made a buffer free twice.  Then it may, and
\* nothing is said.
THEOREM SessionKeptThatLong == ASSUME Mild PROVE Spec => []KeptUntilTwice
<1>1. IInv => KeptUntilTwice
  BY PipelineKept DEF KeptUntilTwice
<1> QED
  BY <1>1, Invariance, PTL

\* in_progress, the hardware and the main loop's hand name the same buffer, if
\* no endpoint is halted (main.c:205-309).
THEOREM BuffersOwnedOnce ==
  ASSUME Mild, Haltable = {} PROVE Spec => []OneOwner
<1>1. IInv => OneOwner
  <2> SUFFICES ASSUME IInv PROVE OneOwner
    OBVIOUS
  <2>1. hand # None => usb.prog[EpAt[pc]] = hand
    BY DEF IInv, InHand
  <2>2. ASSUME NEW e \in Eps
        PROVE  /\ Ready(usb.hw[e]) => usb.hw[e].msg = usb.prog[e]
               /\ usb.prog[e] # None /\ hand # usb.prog[e] => flag \/ Ready(usb.hw[e])
    <3>1. Ready(usb.hw[e]) => ~flag /\ pc # "enable"
      BY DEF IInv, SessionState, Ready
    <3>2. Ready(usb.hw[e]) => usb.hw[e].msg = usb.prog[e]
      BY <3>1, Alive DEF Ready
    <3>3. ASSUME usb.prog[e] # None, hand # usb.prog[e], ~flag
          PROVE  Ready(usb.hw[e])
      <4>1. pc # "enable"
        BY <3>3 DEF IInv, Emptied
      <4>2. usb.hw[e].busy
        BY <2>1, <3>3 DEF IInv, InHand
      <4> QED
        BY <3>3, <4>1, <4>2, Alive DEF Ready, Unhalted
    <3> QED
      BY <3>2, <3>3
  <2> QED
    BY <2>1, <2>2 DEF OneOwner
<1> QED
  BY <1>1, Invariance, PTL

\* A host with no notification to come knows the cards the reader has seen
\* (main.c:380), if no endpoint is halted.
THEOREM ViewIsCurrent ==
  ASSUME Mild, Haltable = {} PROVE Spec => []ViewCurrent
<1>1. IInv => ViewCurrent
  BY DEF IInv, Seen, Newest, ViewCurrent
<1> QED
  BY <1>1, Invariance, PTL

=============================================================================
