---------------------------- MODULE DataInduction -----------------------------
(***************************************************************************)
(* Induction over data for the proof modules. The induction theorems of    *)
(* the library take the property as an operator parameter, which the       *)
(* provers cannot instantiate; here the property is a set, and induction   *)
(* over 0..n follows from the least element its complement would have.     *)
(* What FlattenSeq returns is derived from it.                             *)
(*                                                                         *)
(* A hypothesis that says where sequences and functions lie is given a     *)
(* name (Steps, Starts, AreSuffixes): cited as an atom, a lemma is         *)
(* applied without searching for its parameters.                           *)
(***************************************************************************)
EXTENDS Integers, SequencesExt, SequenceTheorems, WellFoundedInduction, TLAPS

-----------------------------------------------------------------------------
(* Induction and recursion over an interval. *)

\* A set of numbers that is not empty has a least element.
LEMMA LeastElement ==
  ASSUME NEW S \in SUBSET Nat, S # {}
  PROVE  \E m \in S : \A k \in S : m <= k
<1> DEFINE R == {ss \in Nat \X Nat : ss[1] < ss[2]}
<1>1. IsWellFoundedOn(R, Nat)
  BY NatLessThanWellFounded, Zenon DEF OpToRel
<1> HIDE DEF R
<1>2. \E x \in S : \A y \in S : ~ (<<y, x>> \in R)
  BY <1>1, WFMin
<1>3. PICK x \in S : \A y \in S : ~ (<<y, x>> \in R)
  BY <1>2
<1>4. ASSUME NEW y \in S PROVE x <= y
  <2>1. ~ (<<y, x>> \in R)
    BY <1>3
  <2>2. ~ (y < x)
    BY <2>1 DEF R
  <2> QED BY <2>2
<1> QED BY <1>4

\* What holds of 0, and of i + 1 whenever it holds of i, holds of all of 0..n.
LEMMA SetInduction ==
  ASSUME NEW n \in Nat, NEW S, 0 \in S, \A i \in 0..n-1 : i \in S => i+1 \in S
  PROVE  \A i \in 0..n : i \in S
<1> DEFINE Out == {i \in 0..n : i \notin S}
<1> SUFFICES ASSUME Out # {} PROVE FALSE
  OBVIOUS
<1>1. Out \in SUBSET Nat
  OBVIOUS
<1>2. PICK m \in Out : \A k \in Out : m <= k
  <2> HIDE DEF Out
  <2> QED BY <1>1, LeastElement
<1>3. m \in 1..n
  BY <1>2
<1>4. m - 1 \in 0..n-1 /\ m - 1 \in S
  BY <1>2, <1>3
<1>5. (m - 1) + 1 \in S
  BY <1>4
<1>6. m \in S
  BY <1>5, <1>3
<1> QED BY <1>2, <1>6

\* step[i] takes a value f[i - 1] of T to f[i], from the value start of f[0].
Steps(n, T, start, step) ==
  n \in Nat /\ start \in T /\ step \in [1..n -> [T -> T]]

\* f is the function that the recursion start, step defines on 0..n.
Follows(f, n, T, start, step) ==
  /\ f \in [0..n -> T]
  /\ f[0] = start
  /\ \A i \in 1..n : f[i] = step[i][f[i-1]]

\* A recursion over 0..n defines a function.
LEMMA FiniteRecursion ==
  ASSUME NEW n, NEW T, NEW start, NEW step, Steps(n, T, start, step)
  PROVE  \E f : Follows(f, n, T, start, step)
<1>0. n \in Nat /\ start \in T /\ step \in [1..n -> [T -> T]]
  BY DEF Steps
<1> SUFFICES ASSUME n \in Nat, start \in T, step \in [1..n -> [T -> T]]
             PROVE  \E f \in [0..n -> T] :
                      f[0] = start /\ \A i \in 1..n : f[i] = step[i][f[i-1]]
  BY <1>0 DEF Follows
<1> DEFINE Good(m, f) == f[0] = start /\ \A i \in 1..m : f[i] = step[i][f[i-1]]
           S == {m \in 0..n : \E f \in [0..m -> T] : Good(m, f)}
<1>1. 0 \in S
  <2>1. [i \in 0..0 |-> start] \in [0..0 -> T]
    OBVIOUS
  <2>2. Good(0, [i \in 0..0 |-> start])
    OBVIOUS
  <2>3. \E f \in [0..0 -> T] : Good(0, f)
    <3> HIDE DEF Good
    <3> QED BY <2>1, <2>2
  <2> QED BY <2>3
<1>2. ASSUME NEW m \in 0..n-1, m \in S PROVE m + 1 \in S
  <2>1. PICK f \in [0..m -> T] : Good(m, f)
    BY <1>2
  <2> DEFINE g == [i \in 0..m+1 |-> IF i = m+1 THEN step[m+1][f[m]] ELSE f[i]]
  <2>2. m + 1 \in 1..n /\ f[m] \in T /\ step[m+1][f[m]] \in T
    OBVIOUS
  <2>3. g \in [0..m+1 -> T]
    BY <2>2
  <2>4. g[0] = start
    BY <2>1
  <2>5. ASSUME NEW i \in 1..m+1 PROVE g[i] = step[i][g[i-1]]
    <3>1. CASE i = m + 1
      BY <3>1
    <3>2. CASE i \in 1..m
      <4>1. g[i] = f[i] /\ g[i-1] = f[i-1]
        BY <3>2
      <4> QED BY <4>1, <3>2, <2>1
    <3> QED BY <3>1, <3>2
  <2>6. Good(m + 1, g)
    <3> HIDE DEF g
    <3> QED BY <2>4, <2>5
  <2>7. \E h \in [0..m+1 -> T] : Good(m + 1, h)
    <3> HIDE DEF g, Good
    <3> QED BY <2>3, <2>6
  <2> QED BY <2>7
<1>3. \A i \in 0..n : i \in S
  <2> HIDE DEF S
  <2> QED BY <1>1, <1>2, SetInduction
<1>4. n \in S
  BY <1>3
<1> QED BY <1>4

-----------------------------------------------------------------------------
(* Sequences taken apart at their head. *)

\* q consists of the element a and the sequence s.
Starts(q, S, a, s) == a \in S /\ s \in Seq(S) /\ q = <<a>> \o s

\* A sequence has one head and one tail.
LEMMA SameHead ==
  ASSUME NEW S, NEW q, NEW a, NEW b, NEW s, NEW t, Starts(q, S, a, s), Starts(q, S, b, t)
  PROVE  a = b /\ s = t
<1>0. a \in S /\ b \in S /\ s \in Seq(S) /\ t \in Seq(S) /\ <<a>> \o s = <<b>> \o t
  BY DEF Starts
<1> SUFFICES ASSUME a \in S, b \in S, s \in Seq(S), t \in Seq(S), <<a>> \o s = <<b>> \o t
             PROVE  a = b /\ s = t
  BY <1>0
<1>1. (<<a>> \o s)[1] = a /\ (<<b>> \o t)[1] = b
  OBVIOUS
<1>2. Len(<<a>> \o s) = 1 + Len(s) /\ Len(<<b>> \o t) = 1 + Len(t)
  OBVIOUS
<1>3. Len(s) = Len(t)
  BY <1>2
<1>4. ASSUME NEW i \in 1..Len(s) PROVE s[i] = t[i]
  <2>1. (<<a>> \o s)[i+1] = s[i]
    OBVIOUS
  <2>2. (<<b>> \o t)[i+1] = t[i]
    BY <1>3
  <2> QED BY <2>1, <2>2
<1>5. s = t
  BY <1>3, <1>4, SeqEqual
<1> QED BY <1>1, <1>5

\* A pair is the concatenation of its elements.
LEMMA PairIsConcat ==
  ASSUME NEW S, NEW a \in S, NEW b \in S
  PROVE  <<a, b>> = <<a>> \o <<b>>
<1>1. <<a, b>> \in Seq(S) /\ <<a>> \o <<b>> \in Seq(S)
  OBVIOUS
<1>2. Len(<<a, b>>) = 2 /\ Len(<<a>> \o <<b>>) = 2
  OBVIOUS
<1>3. \A i \in 1..2 : <<a, b>>[i] = (<<a>> \o <<b>>)[i]
  OBVIOUS
<1> QED BY <1>1, <1>2, <1>3, SeqEqual

\* Concatenation is associative, stated of three sequences.
Grouped(a, b, c) == (a \o b) \o c = a \o (b \o c)

\* Concatenation of typed sequences is associative.
LEMMA ConcatGrouped ==
  ASSUME NEW S, NEW a, NEW b, NEW c, a \in Seq(S), b \in Seq(S), c \in Seq(S)
  PROVE  Grouped(a, b, c)
  BY DEF Grouped

-----------------------------------------------------------------------------
(* A sequence of sequences, flattened. *)

\* rest[i] is what seqs[i], seqs[i+1], ... and then rest[n+1] make together.
AreSuffixes(rest, seqs, n, S) ==
  /\ n \in Nat \ {0}
  /\ seqs \in [1..n -> Seq(S)]
  /\ rest \in [1..n+1 -> Seq(S)]
  /\ \A i \in 1..n : rest[i] = seqs[i] \o rest[i+1]

\* FlattenSeq joins the sequences: followed by rest[n+1], it is rest[1].
LEMMA FlattenSuffixes ==
  ASSUME NEW S, NEW n, NEW seqs, NEW rest, AreSuffixes(rest, seqs, n, S)
  PROVE  FlattenSeq(seqs) \in Seq(S) /\ FlattenSeq(seqs) \o rest[n+1] = rest[1]
<1>0. /\ n \in Nat \ {0} /\ seqs \in [1..n -> Seq(S)] /\ rest \in [1..n+1 -> Seq(S)]
      /\ \A i \in 1..n : rest[i] = seqs[i] \o rest[i+1]
  BY DEF AreSuffixes
<1> SUFFICES ASSUME n \in Nat \ {0}, seqs \in [1..n -> Seq(S)], rest \in [1..n+1 -> Seq(S)],
                    \A i \in 1..n : rest[i] = seqs[i] \o rest[i+1]
             PROVE  FlattenSeq(seqs) \in Seq(S) /\ FlattenSeq(seqs) \o rest[n+1] = rest[1]
  BY <1>0
<1> DEFINE Flat(f) == [i \in 1..Len(seqs) |-> IF i = 1 THEN seqs[i] ELSE f[i-1] \o seqs[i]]
           flatten == CHOOSE f : f = Flat(f)
           step == [i \in 1..n |-> [t \in Seq(S) |-> IF i = 1 THEN seqs[i] ELSE t \o seqs[i]]]
<1>1. Len(seqs) = n /\ DOMAIN seqs = 1..n
  OBVIOUS
<1>2. FlattenSeq(seqs) = flatten[n]
  BY <1>1 DEF FlattenSeq
<1>3. <<>> \in Seq(S)
  OBVIOUS
<1>4. step \in [1..n -> [Seq(S) -> Seq(S)]]
  <2> SUFFICES ASSUME NEW i \in 1..n, NEW t \in Seq(S)
               PROVE  (IF i = 1 THEN seqs[i] ELSE t \o seqs[i]) \in Seq(S)
    OBVIOUS
  <2> QED BY ConcatProperties
<1>5. PICK f \in [0..n -> Seq(S)] :
        f[0] = <<>> /\ \A i \in 1..n : f[i] = step[i][f[i-1]]
  <2> HIDE DEF step
  <2>1. Steps(n, Seq(S), <<>>, step)
    BY <1>3, <1>4 DEF Steps
  <2>2. \E f : Follows(f, n, Seq(S), <<>>, step)
    BY <2>1, FiniteRecursion, Zenon
  <2> QED BY <2>2 DEF Follows
<1>6. ASSUME NEW i \in 1..n PROVE f[i] = IF i = 1 THEN seqs[i] ELSE f[i-1] \o seqs[i]
  <2>1. f[i-1] \in Seq(S)
    OBVIOUS
  <2>2. step[i][f[i-1]] = IF i = 1 THEN seqs[i] ELSE f[i-1] \o seqs[i]
    BY <2>1
  <2> QED BY <1>5, <2>2
<1>7. \E g : g = Flat(g)
  <2> DEFINE g == [i \in 1..n |-> f[i]]
  <2>1. ASSUME NEW i \in 1..n
        PROVE  g[i] = IF i = 1 THEN seqs[i] ELSE g[i-1] \o seqs[i]
    <3>1. CASE i = 1
      BY <3>1, <1>6
    <3>2. CASE i # 1
      <4>1. g[i] = f[i] /\ g[i-1] = f[i-1]
        BY <3>2
      <4> QED BY <4>1, <3>2, <1>6
    <3> QED BY <3>1, <3>2
  <2>2. g = Flat(g)
    BY <2>1, <1>1
  <2> QED BY <2>2
<1>8. flatten = Flat(flatten)
  <2> HIDE DEF Flat
  <2> QED BY <1>7
<1> HIDE DEF flatten
<1>9. ASSUME NEW i \in 1..n
      PROVE  flatten[i] = IF i = 1 THEN seqs[i] ELSE flatten[i-1] \o seqs[i]
  BY <1>8, <1>1
<1> DEFINE Joined(j) == flatten[j+1] \in Seq(S) /\ flatten[j+1] \o rest[j+2] = rest[1]
           Whole == {j \in 0..n-1 : Joined(j)}
<1>10. Joined(0)
  <2>1. flatten[1] = seqs[1] /\ seqs[1] \in Seq(S)
    BY <1>9
  <2>2. rest[1] = seqs[1] \o rest[2]
    <3>1. 1 \in 1..n /\ 1+1 = 2
      OBVIOUS
    <3> QED BY <3>1
  <2>3. 0+1 = 1 /\ 0+2 = 2
    OBVIOUS
  <2> QED BY <2>1, <2>2, <2>3, Zenon
<1>11. ASSUME NEW j \in 0..(n-1)-1, Joined(j) PROVE Joined(j+1)
  <2>0. j+2 \in 1..n /\ j+3 \in 1..n+1 /\ (j+2)+1 = j+3 /\ (j+2)-1 = j+1 /\ j+2 # 1
        /\ (j+1)+1 = j+2 /\ (j+1)+2 = j+3
    OBVIOUS
  <2>1. flatten[j+1] \in Seq(S) /\ seqs[j+2] \in Seq(S) /\ rest[j+3] \in Seq(S)
    BY <1>11, <2>0
  <2>2. rest[j+2] = seqs[j+2] \o rest[j+3]
    <3> HIDE DEF Joined
    <3> QED BY <2>0, Zenon
  <2>3. flatten[j+2] = flatten[j+1] \o seqs[j+2]
    BY <2>0, <1>9
  <2>4. flatten[j+2] \in Seq(S)
    BY <2>1, <2>3, ConcatProperties
  <2>5. flatten[j+2] \o rest[j+3] = flatten[j+1] \o (seqs[j+2] \o rest[j+3])
    <3>1. (flatten[j+1] \o seqs[j+2]) \o rest[j+3] = flatten[j+1] \o (seqs[j+2] \o rest[j+3])
      <4>1. Grouped(flatten[j+1], seqs[j+2], rest[j+3])
        BY <2>1, ConcatGrouped, Zenon
      <4> QED BY <4>1, Zenon DEF Grouped
    <3> QED BY <3>1, <2>3, Zenon
  <2>6. flatten[j+2] \o rest[j+3] = rest[1]
    BY <2>5, <2>2, <1>11, Zenon
  <2> QED BY <2>0, <2>4, <2>6, Zenon
<1>12. Joined(n-1)
  <2> HIDE DEF Joined
  <2>1. n-1 \in Nat
    OBVIOUS
  <2>2. 0 \in Whole /\ \A j \in 0..(n-1)-1 : j \in Whole => j+1 \in Whole
    BY <1>10, <1>11
  <2>3. \A j \in 0..n-1 : j \in Whole
    <3> HIDE DEF Whole
    <3> QED BY <2>1, <2>2, SetInduction
  <2> QED BY <2>3
<1>13. flatten[n] \in Seq(S) /\ flatten[n] \o rest[n+1] = rest[1]
  <2>1. (n-1)+1 = n /\ (n-1)+2 = n+1
    OBVIOUS
  <2> QED BY <1>12, <2>1, Zenon
<1> QED BY <1>13, <1>2

===============================================================================
