--------------------------- MODULE DatabaseProofs ----------------------------
(***************************************************************************)
(* The database of the broker stays in order (Sound): its tree of topics   *)
(* hangs together, leaves and the lists of the clients agree, reference    *)
(* counts say what they should.  One lemma for every operation of          *)
(* TopicTree, BrokerDb and Broker that changes the database; folds are     *)
(* reached through instances of FoldInduction.                             *)
(***************************************************************************)
EXTENDS Broker, FiniteSetTheorems, TLAPS
-----------------------------------------------------------------------------
(* Sequences and the functions of TopicTree.                               *)

(* A sequence, whatever its elements are.                                  *)
Listed(s) == s \in Seq(Range(s))

(* A finite set can be enumerated: what FoldInduction asks for.            *)
Numbered(S) == \E n \in Nat : \E f \in [1..n -> S] : \A x \in S : \E i \in 1..n : f[i] = x

(* The elements of a finite set can be numbered.                           *)
LEMMA FiniteNumbered ==
    ASSUME NEW S, IsFiniteSet(S)
    PROVE  Numbered(S)
<1>1. PICK m \in Nat : ExistsBijection(1..m, S)
  BY FS_NatBijection
<1>2. PICK g : g \in Bijection(1..m, S)
  BY <1>1 DEF ExistsBijection
<1>3. g \in [1..m -> S] /\ \A t \in S : \E a \in 1..m : g[a] = t
  BY <1>2 DEF Bijection, Surjection
<1> QED
  BY <1>3 DEF Numbered

(* Members of Seq(S) are sequences with elements in S.                     *)
LEMMA SeqListed ==
    ASSUME NEW S, NEW s \in Seq(S)
    PROVE  Listed(s) /\ Range(s) \subseteq S
BY DEF Listed, Range

(* A sequence is a function on 1..Len.                                     *)
LEMMA ListedDomain ==
    ASSUME NEW s, Listed(s)
    PROVE  /\ Len(s) \in Nat /\ DOMAIN s = 1..Len(s)
           /\ s = [i \in 1..Len(s) |-> s[i]]
           /\ \A i \in 1..Len(s) : s[i] \in Range(s)
           /\ IsFiniteSet(DOMAIN s)
<1>1. /\ Len(s) \in Nat /\ DOMAIN s = 1..Len(s)
      /\ s = [i \in 1..Len(s) |-> s[i]]
  BY DEF Listed
<1>2. IsFiniteSet(DOMAIN s)
  BY <1>1, FS_Interval
<1> QED
  BY <1>1, <1>2 DEF Range

(* The size of an interval from 1.                                         *)
LEMMA IntervalSize ==
    ASSUME NEW n \in Nat
    PROVE  IsFiniteSet(1..n) /\ Cardinality(1..n) = n
<1>1. IsFiniteSet(1..n) /\ Cardinality(1..n) = IF 1 > n THEN 0 ELSE n - 1 + 1
  BY FS_Interval
<1> QED
  BY <1>1

(* A function on 1..n is a sequence of length n.                           *)
LEMMA FunctionListed ==
    ASSUME NEW n \in Nat, NEW s, s = [i \in 1..n |-> s[i]]
    PROVE  Listed(s) /\ Len(s) = n
<1>1. s \in [1..n -> Range(s)]
  BY DEF Range
<1>2. s \in Seq(Range(s))
  BY <1>1
<1> QED
  BY <1>1, <1>2 DEF Listed

(* The empty sequence is one.                                              *)
LEMMA EmptyListed == Listed(<<>>) /\ Range(<<>>) = {}
BY DEF Listed, Range

(* Append adds one element at the end.                                     *)
LEMMA AppendListed ==
    ASSUME NEW s, Listed(s), NEW e
    PROVE  /\ Listed(Append(s, e)) /\ Len(Append(s, e)) = Len(s) + 1
           /\ \A i \in 1..Len(s) : Append(s, e)[i] = s[i]
           /\ Append(s, e)[Len(s) + 1] = e
           /\ Range(Append(s, e)) = Range(s) \cup {e}
<1> DEFINE S == Range(s) \cup {e}
           t == Append(s, e)
<1>1. s \in Seq(S)
  BY DEF Listed
<1>2. /\ t \in Seq(S) /\ Len(t) = Len(s) + 1
      /\ \A i \in 1..Len(s) : t[i] = s[i]
      /\ t[Len(s) + 1] = e
  <2> HIDE DEF S
  <2>1. e \in S
    BY DEF S
  <2> QED
    BY <1>1, <2>1
<1>3. Listed(t) /\ Range(t) \subseteq S
  BY <1>2, SeqListed
<1>4. Len(s) \in Nat /\ DOMAIN s = 1..Len(s) /\ DOMAIN t = 1..(Len(s) + 1)
  BY <1>1, <1>2
<1>5. S \subseteq Range(t)
  <2> HIDE DEF t
  <2> QED
    BY <1>2, <1>4 DEF Range
<1> QED
  BY <1>2, <1>3, <1>5

(* Concatenation keeps the elements of both, in order.                     *)
LEMMA ConcatListed ==
    ASSUME NEW s, Listed(s), NEW t, Listed(t)
    PROVE  /\ Listed(s \o t) /\ Len(s \o t) = Len(s) + Len(t)
           /\ \A i \in 1..Len(s) : (s \o t)[i] = s[i]
           /\ \A i \in 1..Len(t) : (s \o t)[Len(s) + i] = t[i]
           /\ Range(s \o t) = Range(s) \cup Range(t)
<1> DEFINE S == Range(s) \cup Range(t)
           u == s \o t
<1>1. s \in Seq(S) /\ t \in Seq(S)
  BY DEF Listed
<1>2. /\ u \in Seq(S) /\ Len(u) = Len(s) + Len(t)
      /\ \A i \in 1..Len(u) : u[i] = IF i <= Len(s) THEN s[i] ELSE t[i - Len(s)]
  <2> HIDE DEF S
  <2> QED
    BY <1>1
<1>3. Listed(u) /\ Range(u) \subseteq S
  BY <1>2, SeqListed
<1>4. /\ Len(s) \in Nat /\ DOMAIN s = 1..Len(s) /\ Len(t) \in Nat /\ DOMAIN t = 1..Len(t)
      /\ DOMAIN u = 1..(Len(s) + Len(t))
  BY <1>1, <1>2
<1> HIDE DEF u
<1>5. /\ \A i \in 1..Len(s) : u[i] = s[i]
      /\ \A i \in 1..Len(t) : u[Len(s) + i] = t[i]
  BY <1>2, <1>4
<1>6. S \subseteq Range(u)
  <2>1. Range(s) \subseteq Range(u)
    BY <1>4, <1>5 DEF Range
  <2>2. ASSUME NEW i \in DOMAIN t PROVE t[i] \in Range(u)
    <3>1. Len(s) + i \in DOMAIN u /\ u[Len(s) + i] = t[i]
      BY <1>4, <1>5
    <3> QED
      BY <3>1 DEF Range
  <2> QED
    BY <2>1, <2>2 DEF Range
<1> QED
  BY <1>2, <1>3, <1>5, <1>6 DEF u

(* A part of a sequence is one, from the m-th to the n-th element.         *)
LEMMA SubSeqListed ==
    ASSUME NEW s, Listed(s), NEW m \in Nat \ {0}, NEW n \in Nat, n <= Len(s)
    PROVE  /\ Listed(SubSeq(s, m, n))
           /\ Len(SubSeq(s, m, n)) = IF m <= n THEN n - m + 1 ELSE 0
           /\ \A i \in 1..Len(SubSeq(s, m, n)) : SubSeq(s, m, n)[i] = s[m + i - 1]
           /\ Range(SubSeq(s, m, n)) \subseteq Range(s)
<1>1. s \in Seq(Range(s)) /\ Len(s) \in Nat
  BY DEF Listed
<1>2. /\ SubSeq(s, m, n) \in Seq(Range(s))
      /\ Len(SubSeq(s, m, n)) = IF m <= n THEN n - m + 1 ELSE 0
      /\ \A i \in 1..Len(SubSeq(s, m, n)) : SubSeq(s, m, n)[i] = s[m + i - 1]
  BY <1>1
<1> QED
  BY <1>2, SeqListed

(* RemoveAt leaves out one element and moves up the others.                *)
LEMMA RemoveListed ==
    ASSUME NEW s, Listed(s), NEW i \in 1..Len(s)
    PROVE  /\ Listed(RemoveAt(s, i)) /\ Len(RemoveAt(s, i)) = Len(s) - 1
           /\ \A j \in 1..(Len(s) - 1) : RemoveAt(s, i)[j] = IF j < i THEN s[j] ELSE s[j + 1]
           /\ Range(RemoveAt(s, i)) \subseteq Range(s)
<1> DEFINE a == SubSeq(s, 1, i - 1)
           b == SubSeq(s, i + 1, Len(s))
<1>1. Len(s) \in Nat /\ i \in Nat /\ i - 1 \in Nat /\ i - 1 <= Len(s) /\ 1 <= i /\ i <= Len(s)
  BY ListedDomain
<1>2. /\ Listed(a) /\ Len(a) = i - 1 /\ Range(a) \subseteq Range(s)
      /\ \A j \in 1..(i - 1) : a[j] = s[j]
  <2>1. /\ Listed(a) /\ Len(a) = (IF 1 <= i - 1 THEN (i - 1) - 1 + 1 ELSE 0)
        /\ Range(a) \subseteq Range(s)
        /\ \A j \in 1..Len(a) : a[j] = s[1 + j - 1]
    <3> HIDE DEF a
    <3> QED
      BY <1>1, SubSeqListed DEF a
  <2> HIDE DEF a
  <2> QED
    BY <1>1, <2>1
<1>3. /\ Listed(b) /\ Len(b) = Len(s) - i /\ Range(b) \subseteq Range(s)
      /\ \A j \in 1..(Len(s) - i) : b[j] = s[i + j]
  <2>1. /\ Listed(b) /\ Len(b) = (IF i + 1 <= Len(s) THEN Len(s) - (i + 1) + 1 ELSE 0)
        /\ Range(b) \subseteq Range(s)
        /\ \A j \in 1..Len(b) : b[j] = s[(i + 1) + j - 1]
    <3> HIDE DEF b
    <3> QED
      BY <1>1, SubSeqListed DEF b
  <2> HIDE DEF b
  <2> QED
    BY <1>1, <2>1
<1> HIDE DEF a, b
<1>4. RemoveAt(s, i) = a \o b
  BY DEF RemoveAt, a, b
<1>5. /\ Listed(a \o b) /\ Len(a \o b) = Len(a) + Len(b)
      /\ \A j \in 1..Len(a) : (a \o b)[j] = a[j]
      /\ \A j \in 1..Len(b) : (a \o b)[Len(a) + j] = b[j]
      /\ Range(a \o b) = Range(a) \cup Range(b)
  BY <1>2, <1>3, ConcatListed
<1>6. ASSUME NEW j \in 1..(Len(s) - 1)
      PROVE  (a \o b)[j] = IF j < i THEN s[j] ELSE s[j + 1]
  <2>1. CASE j < i
    BY <1>1, <1>2, <1>5, <2>1
  <2>2. CASE ~(j < i)
    <3>1. j - (i - 1) \in 1..Len(b) /\ Len(a) + (j - (i - 1)) = j /\ i + (j - (i - 1)) = j + 1
      BY <1>1, <1>2, <1>3, <2>2
    <3>2. (a \o b)[Len(a) + (j - (i - 1))] = b[j - (i - 1)]
      BY <1>5, <3>1
    <3>3. b[j - (i - 1)] = s[i + (j - (i - 1))]
      BY <1>3, <3>1
    <3> QED
      BY <2>2, <3>1, <3>2, <3>3
  <2> QED
    BY <2>1, <2>2
<1>7. Len(a \o b) = Len(s) - 1
  BY <1>1, <1>2, <1>3, <1>5
<1>8. Range(a \o b) \subseteq Range(s)
  BY <1>2, <1>3, <1>5
<1> QED
  BY <1>4, <1>5, <1>6, <1>7, <1>8
(* InsertAt adds one element.                                              *)
LEMMA InsertListed ==
    ASSUME NEW s, Listed(s), NEW i \in 1..(Len(s) + 1), NEW e
    PROVE  /\ Listed(InsertAt(s, i, e)) /\ Len(InsertAt(s, i, e)) = Len(s) + 1
           /\ Range(InsertAt(s, i, e)) = Range(s) \cup {e}
<1> DEFINE a == SubSeq(s, 1, i - 1)
           b == SubSeq(s, i, Len(s))
           m == <<e>>
<1>1. Len(s) \in Nat /\ i \in Nat \ {0} /\ i - 1 \in Nat /\ i - 1 <= Len(s) /\ DOMAIN s = 1..Len(s)
  BY ListedDomain
<1>2. /\ Listed(a) /\ Len(a) = i - 1 /\ Range(a) \subseteq Range(s)
      /\ \A j \in 1..(i - 1) : a[j] = s[j]
  <2>1. /\ Listed(a) /\ Len(a) = (IF 1 <= i - 1 THEN (i - 1) - 1 + 1 ELSE 0)
        /\ Range(a) \subseteq Range(s)
        /\ \A j \in 1..Len(a) : a[j] = s[1 + j - 1]
    <3> HIDE DEF a
    <3> QED
      BY <1>1, SubSeqListed DEF a
  <2> HIDE DEF a
  <2> QED
    BY <1>1, <2>1
<1>3. /\ Listed(b) /\ Len(b) = Len(s) - i + 1 /\ Range(b) \subseteq Range(s)
      /\ \A j \in 1..(Len(s) - i + 1) : b[j] = s[i + j - 1]
  <2>1. /\ Listed(b) /\ Len(b) = (IF i <= Len(s) THEN Len(s) - i + 1 ELSE 0)
        /\ Range(b) \subseteq Range(s)
        /\ \A j \in 1..Len(b) : b[j] = s[i + j - 1]
    <3> HIDE DEF b
    <3> QED
      BY <1>1, SubSeqListed DEF b
  <2> HIDE DEF b
  <2> QED
    BY <1>1, <2>1
<1>4. Listed(m) /\ Len(m) = 1 /\ Range(m) = {e}
  <2>1. m \in Seq({e}) /\ Len(m) = 1 /\ m[1] = e
    OBVIOUS
  <2>2. DOMAIN m = {1}
    OBVIOUS
  <2> HIDE DEF m
  <2>3. Listed(m)
    BY <2>1, SeqListed
  <2>4. Range(m) = {m[1]}
    BY <2>2 DEF Range
  <2> QED
    BY <2>1, <2>3, <2>4
<1> HIDE DEF a, b, m
<1>5. InsertAt(s, i, e) = (a \o m) \o b
  BY DEF InsertAt, a, b, m
<1>6. Listed(a \o m) /\ Len(a \o m) = Len(a) + Len(m) /\ Range(a \o m) = Range(a) \cup Range(m)
  BY <1>2, <1>4, ConcatListed
<1>7. /\ Listed((a \o m) \o b) /\ Len((a \o m) \o b) = Len(a \o m) + Len(b)
      /\ Range((a \o m) \o b) = Range(a \o m) \cup Range(b)
  BY <1>3, <1>6, ConcatListed
<1>8. Range(s) \subseteq Range(a) \cup Range(b)
  <2> SUFFICES ASSUME NEW j \in 1..Len(s) PROVE s[j] \in Range(a) \cup Range(b)
    BY <1>1 DEF Range
  <2>1. CASE j < i
    <3>1. j \in 1..(i - 1) /\ a[j] \in Range(a)
      BY <1>1, <1>2, <2>1, ListedDomain
    <3> QED
      BY <1>2, <3>1
  <2>2. CASE ~(j < i)
    <3>1. j - i + 1 \in 1..(Len(s) - i + 1) /\ i + (j - i + 1) - 1 = j
      BY <1>1, <2>2
    <3>2. b[j - i + 1] \in Range(b)
      BY <1>3, <3>1, ListedDomain
    <3>3. b[j - i + 1] = s[i + (j - i + 1) - 1]
      BY <1>3, <3>1
    <3> QED
      BY <3>1, <3>2, <3>3
  <2> QED
    BY <2>1, <2>2
<1> QED
  BY <1>1, <1>2, <1>3, <1>4, <1>5, <1>6, <1>7, <1>8

(* Picked keeps the chosen elements and their order: what is at position j *)
(* was at position e[j].                                                   *)
Embeds(s, I, t, e) ==
    /\ e \in [1..Len(t) -> I]
    /\ \A i \in I : \E j \in 1..Len(t) : e[j] = i
    /\ \A j, k \in 1..Len(t) : j < k => e[j] < e[k]
    /\ \A j \in 1..Len(t) : t[j] = s[e[j]]

(* One turn of Picked, and what is known after some of them.               *)
Pick(c, acc, i) == IF i \in c.I THEN Append(acc, c.s[i]) ELSE acc
PickedSoFar(c, k, acc) == Listed(acc) /\ \E e : Embeds(c.s, c.I \cap (1..k), acc, e)
Pck == INSTANCE FoldInduction WITH Op <- Pick, Inv <- PickedSoFar

(* Picked keeps exactly the elements asked for, in their order.            *)
LEMMA PickedListed ==
    ASSUME NEW s, Listed(s), NEW I, I \subseteq DOMAIN s
    PROVE  Listed(Picked(s, I)) /\ \E e : Embeds(s, I, Picked(s, I), e)
<1> DEFINE c == [s |-> s, I |-> I]
           n == Len(s)
           at == [i \in DOMAIN s |-> i]
<1>1. n \in Nat /\ DOMAIN s = 1..n /\ DOMAIN at = 1..n /\ \A k \in 0..(n - 1) : at[k + 1] = k + 1
  BY ListedDomain
<1>2. PickedSoFar(c, 0, <<>>)
  <2> DEFINE e == [j \in 1..0 |-> j]
  <2>1. Embeds(s, I \cap (1..0), <<>>, e)
    BY DEF Embeds
  <2> HIDE DEF e
  <2> QED
    BY <2>1, EmptyListed DEF PickedSoFar
<1>3. ASSUME NEW k \in 0..(n - 1), NEW acc, PickedSoFar(c, k, acc)
      PROVE  PickedSoFar(c, k + 1, Pick(c, acc, k + 1))
  <2>1. PICK e : Embeds(s, I \cap (1..k), acc, e)
    BY <1>3 DEF PickedSoFar
  <2>2. Listed(acc) /\ Len(acc) \in Nat
    BY <1>3, ListedDomain DEF PickedSoFar
  <2>3. CASE k + 1 \notin I
    <3>1. I \cap (1..(k + 1)) = I \cap (1..k)
      BY <1>1, <2>3
    <3>2. Pick(c, acc, k + 1) = acc
      BY <2>3 DEF Pick
    <3> QED
      BY <2>1, <2>2, <3>1, <3>2 DEF PickedSoFar
  <2>4. CASE k + 1 \in I
    <3> DEFINE t == Append(acc, s[k + 1])
               e2 == [j \in 1..(Len(acc) + 1) |-> IF j <= Len(acc) THEN e[j] ELSE k + 1]
    <3>1. Pick(c, acc, k + 1) = t
      BY <2>4 DEF Pick
    <3>2. /\ Listed(t) /\ Len(t) = Len(acc) + 1 /\ t[Len(acc) + 1] = s[k + 1]
          /\ \A j \in 1..Len(acc) : t[j] = acc[j]
      BY <2>2, AppendListed
    <3> HIDE DEF t
    <3>3. /\ \A j \in 1..Len(acc) : e2[j] = e[j] /\ e[j] \in I /\ e[j] \in 1..k
          /\ e2[Len(acc) + 1] = k + 1 /\ DOMAIN e2 = 1..Len(t)
          /\ e2 = [j \in 1..Len(t) |-> e2[j]]
      BY <2>1, <2>2, <3>2 DEF Embeds
    <3> HIDE DEF e2
    <3>4. e2 \in [1..Len(t) -> I \cap (1..(k + 1))]
      <4>1. ASSUME NEW j \in 1..Len(t) PROVE e2[j] \in I \cap (1..(k + 1))
        <5>1. CASE j \in 1..Len(acc)
          <6>1. e2[j] \in I /\ e2[j] \in 1..k
            BY <3>3, <5>1
          <6> QED
            BY <6>1
        <5>2. CASE j = Len(acc) + 1
          BY <2>4, <3>3, <5>2
        <5> QED
          BY <2>2, <3>2, <5>1, <5>2
      <4> QED
        BY <3>3, <4>1
    <3>5. ASSUME NEW i \in I \cap (1..(k + 1)) PROVE \E j \in 1..Len(t) : e2[j] = i
      <4>1. CASE i = k + 1
        BY <2>2, <3>2, <3>3, <4>1
      <4>2. CASE i # k + 1
        <5>1. i \in I \cap (1..k)
          BY <1>1, <4>2
        <5>2. PICK j \in 1..Len(acc) : e[j] = i
          BY <2>1, <5>1 DEF Embeds
        <5>3. j \in 1..Len(t)
          BY <2>2, <3>2
        <5>4. e2[j] = i
          BY <3>3, <5>2
        <5> QED
          BY <5>3, <5>4
      <4> QED
        BY <4>1, <4>2
    <3>6. ASSUME NEW j \in 1..Len(t), NEW l \in 1..Len(t), j < l PROVE e2[j] < e2[l]
      <4>1. j \in 1..Len(acc)
        BY <2>2, <3>2, <3>6
      <4>2. CASE l \in 1..Len(acc)
        BY <2>1, <3>3, <3>6, <4>1, <4>2 DEF Embeds
      <4>3. CASE l = Len(acc) + 1
        <5>1. e2[j] \in 1..k /\ e2[l] = k + 1
          BY <3>3, <4>1, <4>3
        <5> QED
          BY <1>1, <5>1
      <4> QED
        BY <2>2, <3>2, <4>2, <4>3
    <3>7. ASSUME NEW j \in 1..Len(t) PROVE t[j] = s[e2[j]]
      <4>1. CASE j \in 1..Len(acc)
        BY <2>1, <3>2, <3>3, <4>1 DEF Embeds
      <4>2. CASE j = Len(acc) + 1
        BY <3>2, <3>3, <4>2
      <4> QED
        BY <2>2, <3>2, <4>1, <4>2
    <3>8. Embeds(s, I \cap (1..(k + 1)), t, e2)
      BY <3>4, <3>5, <3>6, <3>7 DEF Embeds
    <3> QED
      BY <3>1, <3>2, <3>8 DEF PickedSoFar
  <2> QED
    BY <2>3, <2>4
<1>4. \A k \in 0..(n - 1) : \A acc : PickedSoFar(c, k, acc) => PickedSoFar(c, k + 1, Pick(c, acc, at[k + 1]))
  BY <1>1, <1>3
<1>5. Pck!Left(c, <<>>, at) = Picked(s, I)
  BY DEF Pck!Left, Pick, Picked, FoldLeftDomain, FoldLeft,
         MapThenFoldSet, Max
<1>6. PickedSoFar(c, n, Pck!Left(c, <<>>, at))
  <2> HIDE DEF c, at
  <2> QED
    BY <1>1, <1>2, <1>4, Pck!LeftInduction
<1>7. PickedSoFar(c, n, Picked(s, I))
  BY <1>5, <1>6
<1>8. I \cap (1..n) = I
  BY <1>1
<1> QED
  BY <1>7, <1>8 DEF PickedSoFar
(* The walk visits the nodes it is given, each of them once.               *)
Enter(c, seq, p) ==
    InsertAt(seq, Cardinality({i \in DOMAIN seq : Earlier(c, seq[i], p)}) + 1, p)
(* Walk has put so many nodes in order.                                    *)
Entered(c, done, seq) == Listed(seq) /\ Range(seq) = done
Wlk == INSTANCE FoldInduction WITH Op <- Enter, Inv <- Entered

(* Walk lists exactly the nodes it is given.                               *)
LEMMA WalkListed ==
    ASSUME NEW tree, NEW nodes, IsFiniteSet(nodes)
    PROVE  Listed(Walk(tree, nodes)) /\ Range(Walk(tree, nodes)) = nodes
<1>1. Entered(tree, {}, <<>>)
  BY EmptyListed DEF Entered
<1>2. ASSUME NEW done, NEW p, NEW seq, Entered(tree, done, seq)
      PROVE  Entered(tree, done \cup {p}, Enter(tree, seq, p))
  <2> DEFINE before == {i \in DOMAIN seq : Earlier(tree, seq[i], p)}
  <2>1. Listed(seq) /\ Len(seq) \in Nat /\ DOMAIN seq = 1..Len(seq)
    BY <1>2, ListedDomain DEF Entered
  <2>2. Cardinality(before) \in Nat /\ Cardinality(before) <= Len(seq)
    <3>1. before \subseteq 1..Len(seq)
      BY <2>1
    <3>2. IsFiniteSet(1..Len(seq)) /\ Cardinality(1..Len(seq)) = Len(seq)
      BY <2>1, IntervalSize
    <3> HIDE DEF before
    <3>3. IsFiniteSet(before) /\ Cardinality(before) <= Cardinality(1..Len(seq))
      BY <3>1, <3>2, FS_Subset
    <3> QED
      BY <3>2, <3>3, FS_CardinalityType
  <2> HIDE DEF before
  <2>3. Cardinality(before) + 1 \in 1..(Len(seq) + 1)
    BY <2>1, <2>2
  <2>4. Enter(tree, seq, p) = InsertAt(seq, Cardinality(before) + 1, p)
    BY DEF Enter, before
  <2> QED
    BY <1>2, <2>1, <2>3, <2>4, InsertListed DEF Entered
<1>3. \A done \in SUBSET nodes : \A p \in nodes \ done : \A seq :
          Entered(tree, done, seq) => Entered(tree, done \cup {p}, Enter(tree, seq, p))
  BY <1>2
<1>4. Entered(tree, nodes, Wlk!OfSet(tree, <<>>, nodes))
  <2>1. Numbered(nodes)
    BY FiniteNumbered
  <2> QED
    BY <1>1, <1>3, <2>1, Wlk!SetInduction DEF Numbered
<1>5. Wlk!OfSet(tree, <<>>, nodes) = Walk(tree, nodes)
  BY DEF Wlk!OfSet, Enter, Walk, FoldSet, MapThenFoldSet
<1> QED
  BY <1>4, <1>5 DEF Entered

(* A sequence has finitely many elements.                                  *)
LEMMA RangeFinite ==
    ASSUME NEW s, Listed(s)
    PROVE  IsFiniteSet(Range(s))
<1>1. IsFiniteSet(DOMAIN s)
  BY ListedDomain
<1>2. s \in Surjection(DOMAIN s, Range(s))
  <2>1. s \in [DOMAIN s -> Range(s)]
    BY ListedDomain DEF Range
  <2> QED
    BY <2>1 DEF Surjection, Range
<1> QED
  BY <1>1, <1>2, FS_Surjection

(* The elements of Picked.                                                 *)
LEMMA PickedRange ==
    ASSUME NEW s, Listed(s), NEW I, I \subseteq DOMAIN s
    PROVE  Listed(Picked(s, I)) /\ Range(Picked(s, I)) = {s[i] : i \in I}
<1> DEFINE t == Picked(s, I)
<1>1. PICK e : Embeds(s, I, t, e)
  BY PickedListed
<1>2. Listed(t)
  BY PickedListed
<1> HIDE DEF t
<1>3. DOMAIN t = 1..Len(t)
  BY <1>2, ListedDomain
<1>4. Range(t) = {s[i] : i \in I}
  BY <1>1, <1>3 DEF Embeds, Range
<1> QED
  BY <1>2, <1>4 DEF t

(* Pruning a tree only takes nodes away.                                   *)
LEMMA PrunedListed ==
    ASSUME NEW tree, Listed(tree), NEW tokens, NEW used
    PROVE  Listed(Pruned(tree, tokens, used)) /\ Range(Pruned(tree, tokens, used)) \subseteq Range(tree)
<1>1. ASSUME NEW I, I \subseteq DOMAIN tree
      PROVE  Listed(Picked(tree, I)) /\ Range(Picked(tree, I)) \subseteq Range(tree)
  <2>1. {tree[i] : i \in I} \subseteq Range(tree)
    BY <1>1 DEF Range
  <2> QED
    BY <1>1, <2>1, PickedRange
<1> QED
  BY <1>1 DEF Pruned

(* Growing a tree adds the prefixes of the new name.                       *)
LEMMA GrownListed ==
    ASSUME NEW tree, Listed(tree), NEW tokens, Listed(tokens)
    PROVE  /\ Listed(Grown(tree, tokens))
           /\ Range(Grown(tree, tokens)) = Range(tree) \cup {SubSeq(tokens, 1, i) : i \in 1..Len(tokens)}
<1> DEFINE path == [i \in 1..Len(tokens) |-> SubSeq(tokens, 1, i)]
           I == {i \in DOMAIN path : path[i] \notin Range(tree)}
<1>1. Listed(path) /\ I \subseteq DOMAIN path
  <2>1. Len(tokens) \in Nat
    BY ListedDomain
  <2>2. path = [i \in 1..Len(tokens) |-> path[i]]
    OBVIOUS
  <2> HIDE DEF path
  <2> QED
    BY <2>1, <2>2, FunctionListed
<1>2. Range(path) = {SubSeq(tokens, 1, i) : i \in 1..Len(tokens)}
  BY DEF Range
<1>3. Grown(tree, tokens) = tree \o Picked(path, I)
  BY DEF Grown
<1> HIDE DEF path
<1>4. Listed(Picked(path, I)) /\ Range(Picked(path, I)) = {path[i] : i \in I}
  <2> HIDE DEF I
  <2> QED
    BY <1>1, PickedRange
<1>5. Range(tree) \cup {path[i] : i \in I} = Range(tree) \cup Range(path)
  BY DEF Range
<1>6. /\ Listed(tree \o Picked(path, I))
      /\ Range(tree \o Picked(path, I)) = Range(tree) \cup Range(Picked(path, I))
  BY <1>4, ConcatListed
<1> QED
  BY <1>2, <1>3, <1>4, <1>5, <1>6
-----------------------------------------------------------------------------
(* Counting in sequences and sets.                                         *)

(* How often s occurs in a sequence.                                       *)
Times(q, s) == Cardinality({i \in DOMAIN q : q[i] = s})

(* Finite sets with a one-to-one map between them have one size.           *)
LEMMA SameSize ==
    ASSUME NEW S, IsFiniteSet(S), NEW T, NEW f \in [S -> T],
           \A x, y \in S : f[x] = f[y] => x = y,
           \A t \in T : \E x \in S : f[x] = t
    PROVE  IsFiniteSet(T) /\ Cardinality(T) = Cardinality(S)
<1>1. f \in Bijection(S, T)
  BY DEF Bijection, Injection, Surjection, IsInjective
<1>2. ExistsBijection(S, T)
  BY <1>1 DEF ExistsBijection
<1> QED
  BY <1>2, FS_Bijection

(* The sizes of disjoint sets add up.                                      *)
LEMMA DisjointSize ==
    ASSUME NEW S, IsFiniteSet(S), NEW T, IsFiniteSet(T), S \cap T = {}
    PROVE  /\ IsFiniteSet(S \cup T) /\ Cardinality(S \cup T) = Cardinality(S) + Cardinality(T)
           /\ Cardinality(S) \in Nat /\ Cardinality(T) \in Nat
<1>1. Cardinality(S) \in Nat /\ Cardinality(T) \in Nat
  BY FS_CardinalityType
<1>2. Cardinality(S \cap T) = 0
  BY FS_EmptySet
<1>3. IsFiniteSet(S \cup T) /\ Cardinality(S \cup T) = Cardinality(S) + Cardinality(T) - Cardinality(S \cap T)
  BY FS_Union
<1> QED
  BY <1>1, <1>2, <1>3

(* Times is a number, positive when the element occurs.                    *)
LEMMA TimesNat ==
    ASSUME NEW q, Listed(q), NEW s
    PROVE  /\ IsFiniteSet({i \in DOMAIN q : q[i] = s}) /\ Times(q, s) \in Nat
           /\ Times(q, s) > 0 <=> \E i \in DOMAIN q : q[i] = s
<1> DEFINE S == {i \in DOMAIN q : q[i] = s}
<1>1. IsFiniteSet(S)
  <2>1. IsFiniteSet(DOMAIN q) /\ S \in SUBSET DOMAIN q
    BY ListedDomain
  <2> HIDE DEF S
  <2> QED
    BY <2>1, FS_Subset
<1>2. Cardinality(S) \in Nat /\ (Cardinality(S) = 0 <=> S = {})
  <2> HIDE DEF S
  <2> QED
    BY <1>1, FS_CardinalityType, FS_EmptySet
<1> QED
  BY <1>1, <1>2 DEF Times

(* Nothing occurs in an empty sequence.                                    *)
LEMMA TimesEmpty == \A s : Times(<<>>, s) = 0
<1> SUFFICES ASSUME NEW s PROVE Times(<<>>, s) = 0
  OBVIOUS
<1>1. {i \in DOMAIN <<>> : <<>>[i] = s} = {}
  OBVIOUS
<1> QED
  BY <1>1, FS_EmptySet DEF Times

(* An appended element occurs once more.                                   *)
LEMMA TimesAppend ==
    ASSUME NEW q, Listed(q), NEW e, NEW s
    PROVE  Times(Append(q, e), s) = Times(q, s) + (IF e = s THEN 1 ELSE 0)
<1> DEFINE t == Append(q, e)
           S == {i \in DOMAIN q : q[i] = s}
           n == Len(q)
<1>1. /\ n \in Nat /\ DOMAIN q = 1..n /\ DOMAIN t = 1..(n + 1)
      /\ \A i \in 1..n : t[i] = q[i] /\ t[n + 1] = e
  BY AppendListed, ListedDomain
<1>2. IsFiniteSet(S) /\ Times(q, s) = Cardinality(S) /\ Times(q, s) \in Nat
  BY TimesNat DEF Times
<1>3. t[n + 1] = e
  BY AppendListed
<1> HIDE DEF t
<1>4. {i \in DOMAIN t : t[i] = s} = IF e = s THEN S \cup {n + 1} ELSE S
  BY <1>1, <1>3
<1>5. n + 1 \notin S
  BY <1>1
<1> HIDE DEF S, n
<1>6. IsFiniteSet(S) => Cardinality(S \cup {n + 1}) = Cardinality(S) + 1
  BY <1>5, FS_AddElement
<1>7. Times(t, s) = Cardinality(IF e = s THEN S \cup {n + 1} ELSE S)
  BY <1>4 DEF Times
<1>8. Times(t, s) = Times(q, s) + (IF e = s THEN 1 ELSE 0)
  BY <1>2, <1>6, <1>7
<1> QED
  BY <1>8 DEF t

(* A removed element occurs once less.                                     *)
LEMMA TimesRemove ==
    ASSUME NEW q, Listed(q), NEW i \in 1..Len(q), NEW s
    PROVE  Times(q, s) = Times(RemoveAt(q, i), s) + (IF q[i] = s THEN 1 ELSE 0)
<1> DEFINE t == RemoveAt(q, i)
           n == Len(q)
           S == {j \in DOMAIN t : t[j] = s}
           T == {j \in DOMAIN q : q[j] = s}
           f == [j \in S |-> IF j < i THEN j ELSE j + 1]
<1>1. /\ n \in Nat /\ i \in 1..n /\ DOMAIN q = 1..n /\ Listed(t) /\ DOMAIN t = 1..(n - 1)
      /\ \A j \in 1..(n - 1) : t[j] = IF j < i THEN q[j] ELSE q[j + 1]
  <2>1. n \in Nat /\ DOMAIN q = 1..n /\ n - 1 \in Nat
    BY ListedDomain
  <2>2. /\ Listed(t) /\ Len(t) = n - 1
        /\ \A j \in 1..(n - 1) : t[j] = IF j < i THEN q[j] ELSE q[j + 1]
    BY RemoveListed
  <2> HIDE DEF t
  <2> QED
    BY <2>1, <2>2, ListedDomain
<1>2. IsFiniteSet(S) /\ IsFiniteSet(T)
  <2> HIDE DEF t
  <2> QED
    BY <1>1, TimesNat
<1> HIDE DEF t
<1>3. f \in [S -> T \ {i}]
  BY <1>1
<1>4. \A x, y \in S : f[x] = f[y] => x = y
  BY <1>1
<1>5. ASSUME NEW x \in T \ {i} PROVE \E j \in S : f[j] = x
  <2>1. CASE x < i
    <3>1. x \in S /\ f[x] = x
      BY <1>1, <2>1
    <3> QED
      BY <3>1
  <2>2. CASE x > i
    <3>1. x - 1 \in S /\ f[x - 1] = x
      BY <1>1, <2>2
    <3> QED
      BY <3>1
  <2> QED
    BY <1>1, <2>1, <2>2
<1> HIDE DEF S, T, f
<1>6. IsFiniteSet(T \ {i}) /\ Cardinality(T \ {i}) = Cardinality(S)
  BY <1>2, <1>3, <1>4, <1>5, SameSize
<1>7. Cardinality(T \ {i}) = IF i \in T THEN Cardinality(T) - 1 ELSE Cardinality(T)
  BY <1>2, FS_RemoveElement
<1>8. i \in T <=> q[i] = s
  BY <1>1 DEF T
<1>9. Cardinality(T) \in Nat
  BY <1>2, FS_CardinalityType
<1> QED
  BY <1>6, <1>7, <1>8, <1>9 DEF Times, S, T, t

(* Sequences of the same length that agree position by position.           *)
LEMMA TimesSplit ==
    ASSUME NEW q, Listed(q), NEW J, NEW K, J \cup K = DOMAIN q, J \cap K = {}, NEW s,
           NEW t, NEW u, NEW e, NEW g,
           DOMAIN t = 1..Len(t), DOMAIN u = 1..Len(u),
           Embeds(q, J, t, e), Embeds(q, K, u, g),
           Len(t) \in Nat, Len(u) \in Nat
    PROVE  Times(q, s) = Times(t, s) + Times(u, s)
<1> DEFINE Q == {i \in DOMAIN q : q[i] = s}
           A == {i \in J : q[i] = s}
           B == {i \in K : q[i] = s}
           T == {j \in DOMAIN t : t[j] = s}
           U == {j \in DOMAIN u : u[j] = s}
<1>1. IsFiniteSet(Q) /\ IsFiniteSet(A) /\ IsFiniteSet(B)
  <2>1. IsFiniteSet(Q)
    BY TimesNat
  <2>2. A \in SUBSET Q /\ B \in SUBSET Q
    OBVIOUS
  <2> HIDE DEF Q, A, B
  <2> QED
    BY <2>1, <2>2, FS_Subset
<1>2. Cardinality(Q) = Cardinality(A) + Cardinality(B)
  <2>1. A \cap B = {} /\ Q = A \cup B
    OBVIOUS
  <2> HIDE DEF Q, A, B
  <2> QED
    BY <1>1, <2>1, DisjointSize
<1>3. IsFiniteSet(T) /\ IsFiniteSet(U)
  <2>1. T \in SUBSET (1..Len(t)) /\ U \in SUBSET (1..Len(u))
    OBVIOUS
  <2>2. IsFiniteSet(1..Len(t)) /\ IsFiniteSet(1..Len(u))
    BY FS_Interval
  <2> HIDE DEF T, U
  <2> QED
    BY <2>1, <2>2, FS_Subset
<1>4. Cardinality(A) = Cardinality(T)
  <2> DEFINE f == [j \in T |-> e[j]]
  <2>1. f \in [T -> A]
    BY DEF Embeds
  <2>2. \A x, y \in T : f[x] = f[y] => x = y
    <3> SUFFICES ASSUME NEW x \in T, NEW y \in T, e[x] = e[y] PROVE x = y
      OBVIOUS
    <3>1. x \in 1..Len(t) /\ y \in 1..Len(t)
      OBVIOUS
    <3>2. ~(x < y) /\ ~(y < x)
      <4>1. e[x] \in Nat
        BY <3>1, ListedDomain DEF Embeds
      <4> QED
        BY <3>1, <4>1 DEF Embeds
    <3> QED
      BY <3>1, <3>2
  <2>3. ASSUME NEW i \in A PROVE \E j \in T : f[j] = i
    <3>1. PICK j \in 1..Len(t) : e[j] = i
      BY DEF Embeds
    <3>2. j \in T
      BY <3>1 DEF Embeds
    <3> QED
      BY <3>1, <3>2
  <2> HIDE DEF f, A, T
  <2> QED
    BY <1>3, <2>1, <2>2, <2>3, SameSize
<1>5. Cardinality(B) = Cardinality(U)
  <2> DEFINE f == [j \in U |-> g[j]]
  <2>1. f \in [U -> B]
    BY DEF Embeds
  <2>2. \A x, y \in U : f[x] = f[y] => x = y
    <3> SUFFICES ASSUME NEW x \in U, NEW y \in U, g[x] = g[y] PROVE x = y
      OBVIOUS
    <3>1. x \in 1..Len(u) /\ y \in 1..Len(u)
      OBVIOUS
    <3>2. ~(x < y) /\ ~(y < x)
      <4>1. g[x] \in Nat
        BY <3>1, ListedDomain DEF Embeds
      <4> QED
        BY <3>1, <4>1 DEF Embeds
    <3> QED
      BY <3>1, <3>2
  <2>3. ASSUME NEW i \in B PROVE \E j \in U : f[j] = i
    <3>1. PICK j \in 1..Len(u) : g[j] = i
      BY DEF Embeds
    <3>2. j \in U
      BY <3>1 DEF Embeds
    <3> QED
      BY <3>1, <3>2
  <2> HIDE DEF f, B, U
  <2> QED
    BY <1>3, <2>1, <2>2, <2>3, SameSize
<1> QED
  BY <1>2, <1>4, <1>5 DEF Times

(* The occurrences behind position k.                                      *)
Behind(q, k, s) == Cardinality({i \in DOMAIN q : i > k /\ q[i] = s})

(* What is still ahead, from all to nothing, one element at a time.        *)
LEMMA BehindStep ==
    ASSUME NEW q, Listed(q), NEW s
    PROVE  /\ Behind(q, 0, s) = Times(q, s)
           /\ Behind(q, Len(q), s) = 0
           /\ \A k \in 0..(Len(q) - 1) :
                 /\ Behind(q, k, s) = Behind(q, k + 1, s) + (IF q[k + 1] = s THEN 1 ELSE 0)
                 /\ Behind(q, k + 1, s) \in Nat
<1> DEFINE S(k) == {i \in DOMAIN q : i > k /\ q[i] = s}
<1>1. Len(q) \in Nat /\ DOMAIN q = 1..Len(q)
  BY ListedDomain
<1>2. S(0) = {i \in DOMAIN q : q[i] = s} /\ S(Len(q)) = {}
  BY <1>1
<1>3. ASSUME NEW k \in 0..(Len(q) - 1)
      PROVE  /\ Cardinality(S(k)) = Cardinality(S(k + 1)) + (IF q[k + 1] = s THEN 1 ELSE 0)
             /\ Cardinality(S(k + 1)) \in Nat
  <2>1. S(k) = IF q[k + 1] = s THEN S(k + 1) \cup {k + 1} ELSE S(k + 1)
    BY <1>1
  <2>2. k + 1 \notin S(k + 1)
    BY <1>1
  <2>3. IsFiniteSet(S(k + 1))
    <3>1. IsFiniteSet(DOMAIN q) /\ S(k + 1) \in SUBSET DOMAIN q
      BY ListedDomain
    <3> QED
      BY <3>1, FS_Subset
  <2> HIDE DEF S
  <2>4. Cardinality(S(k + 1) \cup {k + 1}) = Cardinality(S(k + 1)) + 1 /\ Cardinality(S(k + 1)) \in Nat
    BY <2>2, <2>3, FS_AddElement, FS_CardinalityType
  <2> QED
    BY <2>1, <2>4
<1> QED
  BY <1>2, <1>3, FS_EmptySet DEF Times, Behind
-----------------------------------------------------------------------------
(* What the queues of the clients hold.                                    *)

(* The stored messages a queue refers to.                                  *)
Stores(msgs) == [i \in DOMAIN msgs |-> msgs[i].store]

(* They are as many as the queue is long.                                  *)
LEMMA StoresListed ==
    ASSUME NEW msgs, Listed(msgs)
    PROVE  /\ Listed(Stores(msgs)) /\ Len(Stores(msgs)) = Len(msgs) /\ DOMAIN Stores(msgs) = DOMAIN msgs
           /\ \A i \in DOMAIN msgs : Stores(msgs)[i] = msgs[i].store
<1>1. Len(msgs) \in Nat /\ DOMAIN msgs = 1..Len(msgs)
  BY ListedDomain
<1>2. Stores(msgs) = [i \in 1..Len(msgs) |-> Stores(msgs)[i]]
  BY <1>1 DEF Stores
<1>3. Listed(Stores(msgs)) /\ Len(Stores(msgs)) = Len(msgs)
  BY <1>1, <1>2, FunctionListed
<1> QED
  BY <1>1, <1>3 DEF Stores

(* The places in the queues of the contexts in C where message s waits.    *)
Places(Q, C, s) == {x \in C \X Nat : x[2] \in DOMAIN Q[x[1]] /\ Q[x[1]][x[2]].store = s}
(* All places.                                                             *)
Held(Q, s) == Cardinality(Places(Q, DOMAIN Q, s))

(* The places in one queue are the times the message occurs in it.         *)
LEMMA PlacesOne ==
    ASSUME NEW Q, NEW c, Listed(Q[c]), NEW s
    PROVE  /\ IsFiniteSet(Places(Q, {c}, s))
           /\ Cardinality(Places(Q, {c}, s)) = Times(Stores(Q[c]), s)
<1> DEFINE q == Stores(Q[c])
           S == {i \in DOMAIN q : q[i] = s}
           P == Places(Q, {c}, s)
           f == [i \in S |-> <<c, i>>]
<1>1. DOMAIN q = 1..Len(Q[c]) /\ DOMAIN Q[c] = 1..Len(Q[c]) /\ \A i \in DOMAIN q : q[i] = Q[c][i].store
  BY StoresListed, ListedDomain
<1>2. IsFiniteSet(S)
  <2>1. Listed(q)
    BY StoresListed
  <2> HIDE DEF q
  <2> QED
    BY <2>1, TimesNat
<1> HIDE DEF q
<1>3. f \in [S -> P]
  BY <1>1 DEF Places
<1>4. \A x, y \in S : f[x] = f[y] => x = y
  OBVIOUS
<1>5. ASSUME NEW x \in P PROVE \E i \in S : f[i] = x
  <2>1. x[2] \in S /\ x = <<c, x[2]>>
    BY <1>1 DEF Places
  <2> QED
    BY <2>1
<1> HIDE DEF S, P, f
<1>6. IsFiniteSet(P) /\ Cardinality(P) = Cardinality(S)
  BY <1>2, <1>3, <1>4, <1>5, SameSize
<1> QED
  BY <1>6 DEF Times, S, P, q

(* Finitely many queues have finitely many places.                         *)
LEMMA PlacesFinite ==
    ASSUME NEW Q, NEW C, IsFiniteSet(C), \A c \in C : Listed(Q[c]), NEW s
    PROVE  IsFiniteSet(Places(Q, C, s))
<1> DEFINE f == [c \in C |-> Places(Q, {c}, s)]
           T == {Places(Q, {c}, s) : c \in C}
<1>1. f \in Surjection(C, T)
  BY DEF Surjection
<1>2. \A t \in T : IsFiniteSet(t)
  BY PlacesOne
<1>3. UNION T = Places(Q, C, s)
  BY DEF Places
<1> HIDE DEF f, T
<1>4. IsFiniteSet(UNION T)
  BY <1>1, <1>2, FS_Surjection, FS_UNION
<1> QED
  BY <1>3, <1>4

(* Queues: what is said of the messages in them.                           *)
MsgFields == {"store", "mid", "dir", "state", "dup", "qos", "retain"}
(* A message of a client refers to a stored one.                           *)
Message(m) ==
    /\ MsgFields \subseteq DOMAIN m
    /\ m.store \in Nat \ {0}
    /\ m.state = "publish_qos0" => ~(m.qos > 0)
(* The queue of a client.                                                  *)
Queue(msgs) == Listed(msgs) /\ \A i \in DOMAIN msgs : Message(msgs[i])
(* The queues of all.                                                      *)
Queued(Q) == IsFiniteSet(DOMAIN Q) /\ \A c \in DOMAIN Q : Queue(Q[c])

(* A message in some queue is held.                                        *)
LEMMA HeldNat ==
    ASSUME NEW Q, Queued(Q), NEW s
    PROVE  /\ Held(Q, s) \in Nat
           /\ \A c \in DOMAIN Q : \A i \in DOMAIN Q[c] : Q[c][i].store = s => Held(Q, s) > 0
<1>1. IsFiniteSet(Places(Q, DOMAIN Q, s))
  BY PlacesFinite DEF Queued, Queue
<1>2. Held(Q, s) \in Nat /\ (Held(Q, s) = 0 <=> Places(Q, DOMAIN Q, s) = {})
  BY <1>1, FS_CardinalityType, FS_EmptySet DEF Held
<1>3. ASSUME NEW c \in DOMAIN Q, NEW i \in DOMAIN Q[c], Q[c][i].store = s
      PROVE  <<c, i>> \in Places(Q, DOMAIN Q, s)
  <2>1. i \in Nat
    BY ListedDomain DEF Queued, Queue
  <2> QED
    BY <1>3, <2>1 DEF Places
<1>4. ASSUME NEW c \in DOMAIN Q, NEW i \in DOMAIN Q[c], Q[c][i].store = s
      PROVE  Held(Q, s) > 0
  <2>1. Places(Q, DOMAIN Q, s) # {}
    BY <1>3, <1>4
  <2> QED
    BY <1>2, <2>1
<1> QED
  BY <1>2, <1>4

(* One queue against the others.                                           *)
LEMMA HeldApart ==
    ASSUME NEW Q, Queued(Q), NEW c \in DOMAIN Q, NEW s
    PROVE  /\ Held(Q, s) = Cardinality(Places(Q, DOMAIN Q \ {c}, s)) + Times(Stores(Q[c]), s)
           /\ Cardinality(Places(Q, DOMAIN Q \ {c}, s)) \in Nat
           /\ Times(Stores(Q[c]), s) \in Nat
<1>1. /\ DOMAIN Q = (DOMAIN Q \ {c}) \cup {c}
      /\ Places(Q, DOMAIN Q, s) = Places(Q, DOMAIN Q \ {c}, s) \cup Places(Q, {c}, s)
      /\ Places(Q, DOMAIN Q \ {c}, s) \cap Places(Q, {c}, s) = {}
  BY DEF Places
<1>2. IsFiniteSet(Places(Q, {c}, s)) /\ Cardinality(Places(Q, {c}, s)) = Times(Stores(Q[c]), s)
  BY PlacesOne DEF Queued, Queue
<1>3. IsFiniteSet(Places(Q, DOMAIN Q \ {c}, s))
  <2>1. IsFiniteSet(DOMAIN Q \ {c})
    BY FS_RemoveElement DEF Queued
  <2> QED
    BY <2>1, PlacesFinite DEF Queued, Queue
<1> QED
  BY <1>1, <1>2, <1>3, DisjointSize DEF Held

(* One queue replaced: what is held changes by the difference.             *)
LEMMA HeldReplaced ==
    ASSUME NEW Q, Queued(Q), NEW c \in DOMAIN Q, NEW msgs, Queue(msgs), NEW R,
           DOMAIN R = DOMAIN Q, R[c] = msgs, \A x \in DOMAIN Q \ {c} : R[x] = Q[x]
    PROVE  /\ Queued(R)
           /\ \A s : Held(R, s) + Times(Stores(Q[c]), s) = Held(Q, s) + Times(Stores(msgs), s)
<1>1. Queued(R)
  BY DEF Queued
<1>2. ASSUME NEW s
      PROVE  Held(R, s) + Times(Stores(Q[c]), s) = Held(Q, s) + Times(Stores(msgs), s)
  <2>1. Places(R, DOMAIN R \ {c}, s) = Places(Q, DOMAIN Q \ {c}, s)
    BY DEF Places
  <2>2. /\ Held(Q, s) = Cardinality(Places(Q, DOMAIN Q \ {c}, s)) + Times(Stores(Q[c]), s)
        /\ Cardinality(Places(Q, DOMAIN Q \ {c}, s)) \in Nat
        /\ Times(Stores(Q[c]), s) \in Nat
    BY HeldApart
  <2>3. /\ Held(R, s) = Cardinality(Places(R, DOMAIN R \ {c}, s)) + Times(Stores(R[c]), s)
        /\ Times(Stores(R[c]), s) \in Nat
    BY <1>1, HeldApart
  <2> QED
    BY <2>1, <2>2, <2>3
<1> QED
  BY <1>1, <1>2

(* A context comes with an empty queue, or goes with its queue.            *)
LEMMA HeldWithout ==
    ASSUME NEW Q, Queued(Q), NEW c \in DOMAIN Q, NEW R,
           DOMAIN R = DOMAIN Q \ {c}, \A x \in DOMAIN R : R[x] = Q[x]
    PROVE  /\ Queued(R)
           /\ \A s : Held(Q, s) = Held(R, s) + Times(Stores(Q[c]), s)
<1>1. Queued(R)
  BY FS_RemoveElement DEF Queued
<1>2. ASSUME NEW s PROVE Places(R, DOMAIN R, s) = Places(Q, DOMAIN Q \ {c}, s)
  BY DEF Places
<1> QED
  BY <1>1, <1>2, HeldApart DEF Held

(* A new queue is empty.                                                   *)
LEMMA HeldWith ==
    ASSUME NEW Q, Queued(Q), NEW c, c \notin DOMAIN Q, NEW R,
           DOMAIN R = DOMAIN Q \cup {c}, R[c] = <<>>, \A x \in DOMAIN Q : R[x] = Q[x]
    PROVE  /\ Queued(R)
           /\ \A s : Held(R, s) = Held(Q, s)
<1>1. Queue(<<>>)
  BY EmptyListed DEF Queue
<1>2. Queued(R)
  <2>1. IsFiniteSet(DOMAIN R)
    BY FS_AddElement DEF Queued
  <2> QED
    BY <1>1, <2>1 DEF Queued
<1>3. ASSUME NEW s PROVE Places(R, DOMAIN R, s) = Places(Q, DOMAIN Q, s)
  <2>1. DOMAIN <<>> = {}
    OBVIOUS
  <2> QED
    BY <2>1 DEF Places
<1> QED
  BY <1>2, <1>3 DEF Held
-----------------------------------------------------------------------------
(* A database in order.                                                    *)

(* The fields of the records of BrokerDb that proofs rely on.              *)
Fields == {"store", "last_db_id", "roots", "tree", "subs", "retained", "ctx", "disused", "sec"}
ContextFields == {"id", "sock", "state", "clean", "subs", "msgs", "count12", "last_mid", "will",
                  "out", "username", "password", "acl"}
StoreFields == {"ref", "source", "source_mid", "topic", "qos", "retain", "payload", "dest_ids"}

(* Names of topics and filters, and wills with one.                        *)
Topic(t) == Listed(t) /\ Len(t) >= 1
Willing(will) == will = NoWill \/ Topic(will.topic)
(* The shape of a context and of the database.                             *)
Context(x) == ContextFields \subseteq DOMAIN x /\ Willing(x.will)
Shaped(d) ==
    /\ Fields \subseteq DOMAIN d
    /\ \A c \in DOMAIN d.ctx : Context(d.ctx[c])
    /\ Listed(d.roots)

(* Messages are stored under numbers given out so far; T says how often    *)
(* each is referred to, and only those in Z may be without a reference.    *)
Ref(store, s) == IF s \in DOMAIN store THEN store[s].ref ELSE 0
StoredMsg(x) == StoreFields \subseteq DOMAIN x /\ x.ref \in Nat /\ Listed(x.topic)
Stocked(store, last, T, Z) ==
    /\ last \in Nat /\ DOMAIN store \subseteq 1..last
    /\ \A s \in DOMAIN store : StoredMsg(store[s]) /\ (s \notin Z => store[s].ref > 0)
    /\ \A s \in Nat \ {0} : Ref(store, s) = T[s]

(* Nodes hang together, and each has its subscriptions and a place for a   *)
(* retained message.                                                       *)
Node(nodes, p) == Listed(p) /\ Len(p) >= 1 /\ (Len(p) > 1 => Front(p) \in nodes)
Wooded(tree, subs, retained) ==
    /\ Listed(tree)
    /\ DOMAIN subs = Range(tree)
    /\ retained \in [Range(tree) -> Nat]
    /\ \A p \in Range(tree) : Node(Range(tree), p)

(* A context is at a node exactly when it lists the node, once; the root   *)
(* of all topics that do not begin with $ is not a filter.                 *)
Proper(p) == p[1] = "" => Len(p) > 1
Once(leaves) == Listed(leaves) /\ \A i, j \in DOMAIN leaves : leaves[i].ctx = leaves[j].ctx => i = j
Leafy(subs, L) ==
    /\ \A p \in DOMAIN subs : Once(subs[p])
    /\ \A p \in DOMAIN subs : \A i \in DOMAIN subs[p] : {"ctx", "qos"} \subseteq DOMAIN subs[p][i]
    /\ \A p \in DOMAIN subs : \A i \in DOMAIN subs[p] : subs[p][i].ctx \in DOMAIN L
    /\ \A c \in DOMAIN L : L[c] \subseteq DOMAIN subs
    /\ \A c \in DOMAIN L : \A p \in DOMAIN subs : p \in L[c] <=> \E i \in DOMAIN subs[p] : subs[p][i].ctx = c
    /\ \A c \in DOMAIN L : \A p \in L[c] : Proper(p)

(* What the contexts list and hold, as functions.                          *)
Lists(d) == [c \in DOMAIN d.ctx |-> d.ctx[c].subs]
Queues(d) == [c \in DOMAIN d.ctx |-> d.ctx[c].msgs]
(* The retained messages among the references.                             *)
Pinned(R, s) == Cardinality({p \in DOMAIN R : R[p] = s})
(* Everything a reference count should count.                              *)
Refs(d, H) == [s \in Nat |-> Held(Queues(d), s) + Pinned(d.retained, s) + H[s]]

(* The database between two calls; H counts the references that handlers   *)
(* under way hold.                                                         *)
Sound(d, H, Z) ==
    /\ Shaped(d)
    /\ H \in [Nat -> Nat]
    /\ Stocked(d.store, d.last_db_id, Refs(d, H), Z)
    /\ Wooded(d.tree, d.subs, d.retained)
    /\ Leafy(d.subs, Lists(d))
    /\ Queued(Queues(d))
(* No handler, or one more, holds a reference.                             *)
Nobody == [s \in Nat |-> 0]
Plus(H, s) == [H EXCEPT ![s] = @ + 1]

(* The counter of a context is right: context->msg_count12.                *)
Mark(msgs) == [i \in DOMAIN msgs |-> IF msgs[i].qos > 0 THEN 1 ELSE 0]
Tally(x) == x.count12 = Times(Mark(x.msgs), 1)
(* No message waits that could go: at least the first is under way.        *)
Flows(msgs) == \A i \in DOMAIN msgs : msgs[i].state = "queued" => max_inflight # 0 /\ i # 1
(* ... and the queue of a connected client does not stand still.           *)
Paced(x) == Tally(x) /\ (x.sock => Flows(x.msgs))

(* What the handling of messages leaves alone.                             *)
SameClient(x, y) ==
    /\ \A f \in {"id", "sock", "state", "clean", "username", "password", "acl", "will"} : y[f] = x[f]
    /\ Paced(x) => Paced(y)
    /\ x.id = NoId => y.msgs = x.msgs /\ y.subs = x.subs
(* Between two steps of one handler.                                       *)
Keeps(d, e) ==
    /\ e.sec = d.sec /\ e.disused = d.disused /\ e.last_db_id >= d.last_db_id
    /\ DOMAIN e.ctx = DOMAIN d.ctx
    /\ \A c \in DOMAIN d.ctx : SameClient(d.ctx[c], e.ctx[c])
(* The tree has not changed.                                               *)
Stands(d, e) == e.tree = d.tree /\ e.subs = d.subs /\ e.roots = d.roots
(* Nothing but the store has changed.                                      *)
OnlyStore(d, e) == DOMAIN e = DOMAIN d /\ \A f \in DOMAIN d \ {"store"} : e[f] = d[f]

(* An empty queue does not stand still.                                    *)
LEMMA FlowsEmpty == Flows(<<>>)
BY DEF Flows

(* Doing nothing leaves everything alone.                                  *)
LEMMA KeepsSelf == \A d : d.last_db_id \in Nat => Keeps(d, d) /\ Stands(d, d)
BY DEF Keeps, SameClient, Stands

(* What two steps leave alone, both together do.                           *)
LEMMA KeepsTrans ==
    ASSUME NEW a, NEW b, NEW e, Keeps(a, b), Keeps(b, e),
           a.last_db_id \in Nat, b.last_db_id \in Nat, e.last_db_id \in Nat
    PROVE  Keeps(a, e)
<1>1. e.last_db_id >= a.last_db_id
  BY DEF Keeps
<1>2. ASSUME NEW c \in DOMAIN a.ctx PROVE SameClient(a.ctx[c], e.ctx[c])
  <2>1. SameClient(a.ctx[c], b.ctx[c]) /\ SameClient(b.ctx[c], e.ctx[c])
    BY DEF Keeps
  <2> QED
    BY <2>1 DEF SameClient
<1> QED
  BY <1>1, <1>2 DEF Keeps

(* The counts are numbers; a message referred to is stored.                *)
LEMMA SoundNat ==
    ASSUME NEW d, NEW H, NEW Z, Sound(d, H, Z)
    PROVE  /\ d.last_db_id \in Nat
           /\ \A s \in Nat : Held(Queues(d), s) \in Nat /\ Pinned(d.retained, s) \in Nat /\ H[s] \in Nat
           /\ \A s \in Nat : Refs(d, H)[s] = Held(Queues(d), s) + Pinned(d.retained, s) + H[s]
           /\ \A s \in Nat \ {0} : Refs(d, H)[s] > 0 => s \in DOMAIN d.store
<1>1. ASSUME NEW s \in Nat PROVE Held(Queues(d), s) \in Nat /\ Pinned(d.retained, s) \in Nat /\ H[s] \in Nat
  <2>1. Held(Queues(d), s) \in Nat
    BY HeldNat DEF Sound
  <2>2. IsFiniteSet(DOMAIN d.retained)
    BY RangeFinite DEF Sound, Wooded
  <2>3. IsFiniteSet({p \in DOMAIN d.retained : d.retained[p] = s})
    BY <2>2, FS_Subset
  <2>4. Pinned(d.retained, s) \in Nat
    BY <2>3, FS_CardinalityType DEF Pinned
  <2> QED
    BY <2>1, <2>4 DEF Sound
<1>2. \A s \in Nat : Refs(d, H)[s] = Held(Queues(d), s) + Pinned(d.retained, s) + H[s]
  BY DEF Refs
<1>3. \A s \in Nat \ {0} : Refs(d, H)[s] > 0 => s \in DOMAIN d.store
  BY DEF Sound, Stocked, Ref
<1> QED
  BY <1>1, <1>2, <1>3 DEF Sound, Stocked

(* What is referred to is there.                                           *)
LEMMA Referred ==
    ASSUME NEW d, NEW H, NEW Z, Sound(d, H, Z)
    PROVE  /\ \A s \in Nat \ {0} : H[s] > 0 => s \in DOMAIN d.store
           /\ \A p \in DOMAIN d.retained : d.retained[p] # 0 => d.retained[p] \in DOMAIN d.store
           /\ \A c \in DOMAIN d.ctx : \A i \in DOMAIN d.ctx[c].msgs : d.ctx[c].msgs[i].store \in DOMAIN d.store
<1>1. ASSUME NEW s \in Nat \ {0}, H[s] > 0 PROVE s \in DOMAIN d.store
  BY <1>1, SoundNat
<1>2. ASSUME NEW p \in DOMAIN d.retained, d.retained[p] # 0 PROVE d.retained[p] \in DOMAIN d.store
  <2> DEFINE s == d.retained[p]
             S == {q \in DOMAIN d.retained : d.retained[q] = s}
  <2>1. s \in Nat \ {0}
    BY <1>2 DEF Sound, Wooded
  <2>2. IsFiniteSet(DOMAIN d.retained)
    BY RangeFinite DEF Sound, Wooded
  <2>3. IsFiniteSet(S) /\ p \in S
    BY <2>2, FS_Subset
  <2> HIDE DEF S
  <2>4. Cardinality(S) \in Nat /\ Cardinality(S) # 0
    BY <2>3, FS_EmptySet, FS_CardinalityType
  <2>5. Pinned(d.retained, s) = Cardinality(S)
    BY DEF S, Pinned
  <2> HIDE DEF s
  <2>6. Refs(d, H)[s] > 0
    BY <2>1, <2>4, <2>5, SoundNat
  <2> QED
    BY <2>1, <2>6, SoundNat DEF s
<1>3. ASSUME NEW c \in DOMAIN d.ctx, NEW i \in DOMAIN d.ctx[c].msgs
      PROVE  d.ctx[c].msgs[i].store \in DOMAIN d.store
  <2> DEFINE s == d.ctx[c].msgs[i].store
             Q == Queues(d)
  <2>1. c \in DOMAIN Q /\ Q[c] = d.ctx[c].msgs /\ Queued(Q)
    BY DEF Queues, Sound
  <2>2. s \in Nat \ {0}
    BY <2>1 DEF Queued, Queue, Message
  <2>3. Held(Q, s) > 0
    <3>1. i \in DOMAIN Q[c] /\ Q[c][i].store = s
      BY <2>1
    <3> HIDE DEF Q, s
    <3> QED
      BY <2>1, <3>1, HeldNat
  <2> HIDE DEF s
  <2>4. Refs(d, H)[s] > 0
    BY <2>2, <2>3, SoundNat
  <2> QED
    BY <2>2, <2>4, SoundNat DEF s
<1> QED
  BY <1>1, <1>2, <1>3

(* A change that concerns neither messages nor subscriptions.              *)
LEMMA Framed ==
    ASSUME NEW d, NEW H, NEW Z, Sound(d, H, Z), NEW e, Shaped(e),
           e.store = d.store, e.last_db_id = d.last_db_id, e.tree = d.tree, e.subs = d.subs,
           e.retained = d.retained, Lists(e) = Lists(d), Queues(e) = Queues(d)
    PROVE  Sound(e, H, Z)
<1>1. Refs(e, H) = Refs(d, H)
  BY DEF Refs
<1> QED
  BY <1>1 DEF Sound
-----------------------------------------------------------------------------
(* References: taken, given up, and given up all at once.                  *)

(* One reference less: mosquitto__db_msg_store_deref.                      *)
Down(store, s) == IF store[s].ref = 1 THEN Without(store, {s}) ELSE [store EXCEPT ![s].ref = @ - 1]

(* The store follows the count.                                            *)
LEMMA DownStocked ==
    ASSUME NEW store, NEW last, NEW T, NEW Z, Stocked(store, last, T, Z),
           NEW s \in Nat \ {0}, T[s] > 0,
           NEW U, \A x \in Nat \ {0} : U[x] = IF x = s THEN T[x] - 1 ELSE T[x]
    PROVE  Stocked(Down(store, s), last, U, Z)
<1>1. s \in DOMAIN store /\ store[s].ref \in Nat /\ store[s].ref = T[s] /\ StoredMsg(store[s])
  <2>1. Ref(store, s) = T[s] /\ ~(0 > 0)
    BY DEF Stocked
  <2>2. s \in DOMAIN store
    BY <2>1 DEF Ref
  <2>3. StoredMsg(store[s])
    BY <2>2 DEF Stocked
  <2> QED
    BY <2>1, <2>2, <2>3 DEF Ref, StoredMsg
<1>2. CASE store[s].ref = 1
  <2> DEFINE e == Without(store, {s})
  <2>1. DOMAIN e = DOMAIN store \ {s} /\ \A x \in DOMAIN e : e[x] = store[x]
    BY DEF Without
  <2>2. Down(store, s) = e
    BY <1>2 DEF Down
  <2> HIDE DEF e
  <2> QED
    BY <1>1, <1>2, <2>1, <2>2 DEF Stocked, Ref
<1>3. CASE store[s].ref # 1
  <2> DEFINE y == [store[s] EXCEPT !.ref = @ - 1]
             e == [store EXCEPT ![s] = y]
  <2>1. DOMAIN e = DOMAIN store /\ e[s] = y /\ \A x \in DOMAIN e \ {s} : e[x] = store[x]
    BY <1>1
  <2>2. Down(store, s) = e
    BY <1>3 DEF Down
  <2>3. StoredMsg(y) /\ y.ref = store[s].ref - 1 /\ y.ref > 0
    BY <1>1, <1>3 DEF StoredMsg, StoreFields
  <2> HIDE DEF e, y
  <2> QED
    BY <1>1, <2>1, <2>2, <2>3 DEF Stocked, Ref
<1> QED
  BY <1>2, <1>3

(* The code of the model is Down on the store.                             *)
LEMMA DerefIs ==
    ASSUME NEW d, Fields \subseteq DOMAIN d, NEW s
    PROVE  /\ OnlyStore(d, mosquitto__db_msg_store_deref(d, s))
           /\ mosquitto__db_msg_store_deref(d, s).store = Down(d.store, s)
BY DEF OnlyStore, mosquitto__db_msg_store_deref, Down, Fields

(* Field by field.                                                         *)
LEMMA OnlyStoreIs ==
    ASSUME NEW d, Fields \subseteq DOMAIN d, NEW e, OnlyStore(d, e)
    PROVE  /\ Fields \subseteq DOMAIN e
           /\ e.last_db_id = d.last_db_id /\ e.roots = d.roots /\ e.tree = d.tree
           /\ e.subs = d.subs /\ e.retained = d.retained /\ e.ctx = d.ctx
           /\ e.disused = d.disused /\ e.sec = d.sec
BY DEF OnlyStore, Fields

(* Of the references a sequence of messages stands for, those behind       *)
(* position k are still counted when k have been given up.                 *)
Owed(T, stores, k) == [s \in Nat |-> T[s] + Behind(stores, k, s)]
(* One turn of DerefAll.                                                   *)
Drop(c, d, s) == mosquitto__db_msg_store_deref(d, s)
(* What is known after some of them.                                       *)
DroppedTo(c, k, d) ==
    /\ OnlyStore(c.d, d)
    /\ Stocked(d.store, c.d.last_db_id, Owed(c.T, c.stores, k), c.Z)
Drp == INSTANCE FoldInduction WITH Op <- Drop, Inv <- DroppedTo

(* DerefAll gives back one reference for every entry.                      *)
LEMMA DerefAllStocked ==
    ASSUME NEW d, Fields \subseteq DOMAIN d, NEW T \in [Nat -> Nat], NEW Z,
           NEW stores, Listed(stores), \A i \in DOMAIN stores : stores[i] \in Nat \ {0},
           Stocked(d.store, d.last_db_id, Owed(T, stores, 0), Z)
    PROVE  /\ OnlyStore(d, DerefAll(d, stores))
           /\ Stocked(DerefAll(d, stores).store, d.last_db_id, T, Z)
<1> DEFINE c == [d |-> d, T |-> T, stores |-> stores, Z |-> Z]
           n == Len(stores)
<1>1. n \in Nat /\ DOMAIN stores = 1..n
  BY ListedDomain
<1>2. DroppedTo(c, 0, d)
  BY DEF DroppedTo, OnlyStore
<1>3. ASSUME NEW k \in 0..(n - 1), NEW e, DroppedTo(c, k, e)
      PROVE  DroppedTo(c, k + 1, Drop(c, e, stores[k + 1]))
  <2> DEFINE s == stores[k + 1]
             V == Owed(T, stores, k)
             U == Owed(T, stores, k + 1)
  <2>1. OnlyStore(d, e) /\ Stocked(e.store, d.last_db_id, V, Z)
    BY <1>3 DEF DroppedTo
  <2>2. s \in Nat \ {0}
    <3>1. k + 1 \in DOMAIN stores
      BY <1>1
    <3> QED
      BY <3>1
  <2>3. \A x \in Nat : /\ V[x] = U[x] + (IF s = x THEN 1 ELSE 0) /\ U[x] \in Nat
    <3> SUFFICES ASSUME NEW x \in Nat PROVE V[x] = U[x] + (IF s = x THEN 1 ELSE 0) /\ U[x] \in Nat
      OBVIOUS
    <3>1. /\ Behind(stores, k, x) = Behind(stores, k + 1, x) + (IF stores[k + 1] = x THEN 1 ELSE 0)
          /\ Behind(stores, k + 1, x) \in Nat
      BY BehindStep
    <3>2. T[x] \in Nat
      OBVIOUS
    <3>3. V[x] = T[x] + Behind(stores, k, x) /\ U[x] = T[x] + Behind(stores, k + 1, x)
      BY DEF Owed
    <3> HIDE DEF V, U, c, n
    <3>4. CASE s = x
      BY <3>1, <3>2, <3>3, <3>4
    <3>5. CASE s # x
      BY <3>1, <3>2, <3>3, <3>5
    <3> QED
      BY <3>4, <3>5
  <2> HIDE DEF V, U, s
  <2> HIDE DEF c, n
  <2>4. V[s] > 0 /\ \A x \in Nat \ {0} : U[x] = IF x = s THEN V[x] - 1 ELSE V[x]
    <3>1. V[s] = U[s] + 1 /\ U[s] \in Nat
      BY <2>2, <2>3
    <3>2. ASSUME NEW x \in Nat \ {0} PROVE U[x] = IF x = s THEN V[x] - 1 ELSE V[x]
      <4>1. V[x] = U[x] + (IF s = x THEN 1 ELSE 0) /\ U[x] \in Nat
        BY <2>3
      <4>2. CASE s = x
        BY <4>1, <4>2
      <4>3. CASE s # x
        BY <4>1, <4>3
      <4> QED
        BY <4>2, <4>3
    <3>3. V[s] > 0
      BY <3>1
    <3> QED
      BY <3>2, <3>3
  <2>5. Stocked(Down(e.store, s), d.last_db_id, U, Z)
    BY <2>1, <2>2, <2>4, DownStocked
  <2>6. Fields \subseteq DOMAIN e
    BY <2>1, OnlyStoreIs
  <2>7. /\ OnlyStore(e, mosquitto__db_msg_store_deref(e, s))
        /\ mosquitto__db_msg_store_deref(e, s).store = Down(e.store, s)
    BY <2>6, DerefIs
  <2>8. OnlyStore(d, mosquitto__db_msg_store_deref(e, s))
    BY <2>1, <2>7 DEF OnlyStore
  <2> QED
    BY <2>5, <2>7, <2>8 DEF DroppedTo, Drop, U, s, c
<1>4. \A k \in 0..(n - 1) : \A e : DroppedTo(c, k, e) => DroppedTo(c, k + 1, Drop(c, e, stores[k + 1]))
  BY <1>3
<1>5. DroppedTo(c, n, Drp!Left(c, d, stores))
  <2> HIDE DEF c, n
  <2> QED
    BY <1>1, <1>2, <1>4, Drp!LeftInduction
<1>6. Drp!Left(c, d, stores) = DerefAll(d, stores)
  BY DEF Drp!Left, Drop, DerefAll, FoldLeft, MapThenFoldSet, Max
<1>7. Owed(T, stores, n) = T
  <2>1. \A s \in Nat : T[s] + Behind(stores, n, s) = T[s]
    BY BehindStep
  <2> QED
    BY <2>1 DEF Owed
<1> QED
  BY <1>5, <1>6, <1>7 DEF DroppedTo

(* ... and so keeps the database in order.                                 *)
LEMMA DerefAllSound ==
    ASSUME NEW d, NEW H \in [Nat -> Nat], NEW Z, NEW stores, Listed(stores),
           \A i \in DOMAIN stores : stores[i] \in Nat \ {0},
           NEW G, \A s \in Nat : G[s] = H[s] + Times(stores, s), Sound(d, G, Z)
    PROVE  Sound(DerefAll(d, stores), H, Z) /\ OnlyStore(d, DerefAll(d, stores))
<1> DEFINE e == DerefAll(d, stores)
           T == Refs(d, H)
<1>1. Fields \subseteq DOMAIN d
  BY DEF Sound, Shaped
<1>2. \A s \in Nat : T[s] \in Nat /\ Refs(d, G)[s] = T[s] + Times(stores, s)
  <2> SUFFICES ASSUME NEW s \in Nat PROVE T[s] \in Nat /\ Refs(d, G)[s] = T[s] + Times(stores, s)
    OBVIOUS
  <2>1. Held(Queues(d), s) \in Nat /\ Pinned(d.retained, s) \in Nat /\ G[s] \in Nat
    BY SoundNat
  <2>2. Times(stores, s) \in Nat
    BY TimesNat
  <2>3. Refs(d, G)[s] = Held(Queues(d), s) + Pinned(d.retained, s) + G[s]
    BY DEF Refs
  <2>4. T[s] = Held(Queues(d), s) + Pinned(d.retained, s) + H[s]
    BY DEF Refs
  <2>5. G[s] = H[s] + Times(stores, s) /\ H[s] \in Nat
    OBVIOUS
  <2> HIDE DEF T
  <2> QED
    BY <2>1, <2>2, <2>3, <2>4, <2>5
<1>3. T \in [Nat -> Nat] /\ Refs(d, G) = Owed(T, stores, 0)
  <2>1. \A s \in Nat : Refs(d, G)[s] = Owed(T, stores, 0)[s]
    BY <1>2, BehindStep DEF Owed
  <2> QED
    BY <1>2, <2>1 DEF Refs, Owed
<1>4. OnlyStore(d, e) /\ Stocked(e.store, d.last_db_id, T, Z)
  <2> HIDE DEF T
  <2> QED
    BY <1>1, <1>3, DerefAllStocked DEF Sound
<1> HIDE DEF e
<1>5. /\ Fields \subseteq DOMAIN e
      /\ e.last_db_id = d.last_db_id /\ e.roots = d.roots /\ e.tree = d.tree
      /\ e.subs = d.subs /\ e.retained = d.retained /\ e.ctx = d.ctx
      /\ e.disused = d.disused /\ e.sec = d.sec
  BY <1>1, <1>4, OnlyStoreIs
<1>6. Queues(e) = Queues(d) /\ Lists(e) = Lists(d) /\ Refs(e, H) = T
  BY <1>5 DEF Queues, Lists, Refs
<1> QED
  BY <1>4, <1>5, <1>6 DEF Sound, Shaped, e

(* A change of the store leaves clients and tree alone.                    *)
LEMMA OnlyStoreKeeps ==
    ASSUME NEW d, Fields \subseteq DOMAIN d, d.last_db_id \in Nat, NEW e, OnlyStore(d, e)
    PROVE  Keeps(d, e) /\ Stands(d, e) /\ e.retained = d.retained
BY OnlyStoreIs DEF Keeps, SameClient, Stands
-----------------------------------------------------------------------------
(* A reference that is given up was held by the handler.                   *)
LEMMA DerefSound ==
    ASSUME NEW d, NEW H \in [Nat -> Nat], NEW Z, NEW s \in Nat \ {0}, Sound(d, Plus(H, s), Z)
    PROVE  /\ Sound(mosquitto__db_msg_store_deref(d, s), H, Z)
           /\ OnlyStore(d, mosquitto__db_msg_store_deref(d, s))
<1> DEFINE e == mosquitto__db_msg_store_deref(d, s)
           G == Plus(H, s)
<1>1. Fields \subseteq DOMAIN d
  BY DEF Sound, Shaped
<1>2. OnlyStore(d, e) /\ e.store = Down(d.store, s)
  BY <1>1, DerefIs
<1> HIDE DEF e
<1>3. /\ Fields \subseteq DOMAIN e
      /\ e.last_db_id = d.last_db_id /\ e.roots = d.roots /\ e.tree = d.tree
      /\ e.subs = d.subs /\ e.retained = d.retained /\ e.ctx = d.ctx
      /\ e.disused = d.disused /\ e.sec = d.sec
  BY <1>1, <1>2, OnlyStoreIs
<1>4. \A x \in Nat : G[x] = IF x = s THEN H[x] + 1 ELSE H[x]
  BY DEF Plus
<1> HIDE DEF G
<1>5. \A x \in Nat : /\ Refs(d, G)[x] = IF x = s THEN Refs(d, H)[x] + 1 ELSE Refs(d, H)[x]
                     /\ Refs(d, H)[x] \in Nat
  <2> SUFFICES ASSUME NEW x \in Nat
               PROVE  /\ Refs(d, G)[x] = IF x = s THEN Refs(d, H)[x] + 1 ELSE Refs(d, H)[x]
                      /\ Refs(d, H)[x] \in Nat
    OBVIOUS
  <2>1. Held(Queues(d), x) \in Nat /\ Pinned(d.retained, x) \in Nat /\ H[x] \in Nat
    BY SoundNat DEF G
  <2>2. /\ Refs(d, G)[x] = Held(Queues(d), x) + Pinned(d.retained, x) + G[x]
        /\ Refs(d, H)[x] = Held(Queues(d), x) + Pinned(d.retained, x) + H[x]
    BY DEF Refs
  <2> QED
    BY <1>4, <2>1, <2>2
<1>6. Stocked(e.store, d.last_db_id, Refs(d, H), Z)
  <2>1. Refs(d, G)[s] > 0
    BY <1>5
  <2>2. \A x \in Nat \ {0} : Refs(d, H)[x] = IF x = s THEN Refs(d, G)[x] - 1 ELSE Refs(d, G)[x]
    BY <1>5
  <2>3. Stocked(d.store, d.last_db_id, Refs(d, G), Z)
    BY DEF Sound, G
  <2> QED
    BY <1>2, <2>1, <2>2, <2>3, DownStocked
<1>7. Queues(e) = Queues(d) /\ Lists(e) = Lists(d) /\ Refs(e, H) = Refs(d, H)
  BY <1>3 DEF Queues, Lists, Refs
<1> QED
  BY <1>2, <1>3, <1>6, <1>7 DEF Sound, Shaped, e

(* A reference more, and perhaps other fields of the message.              *)
LEMMA UpStocked ==
    ASSUME NEW store, NEW last, NEW T \in [Nat -> Nat], NEW Z, Stocked(store, last, T, Z),
           NEW s \in DOMAIN store, NEW e, DOMAIN e = DOMAIN store,
           \A x \in DOMAIN store \ {s} : e[x] = store[x],
           StoredMsg(e[s]), e[s].ref = store[s].ref + 1,
           NEW U, \A x \in Nat \ {0} : U[x] = IF x = s THEN T[x] + 1 ELSE T[x]
    PROVE  Stocked(e, last, U, Z \ {s})
BY DEF Stocked, StoredMsg, Ref

(* A reference taken is held by the handler.                               *)
LEMMA ReferencedSound ==
    ASSUME NEW d, NEW H, NEW Z, Sound(d, H, Z), NEW s \in DOMAIN d.store
    PROVE  /\ Sound(Referenced(d, s), Plus(H, s), Z \ {s})
           /\ OnlyStore(d, Referenced(d, s))
<1> DEFINE e == Referenced(d, s)
           G == Plus(H, s)
<1>1. Fields \subseteq DOMAIN d /\ Stocked(d.store, d.last_db_id, Refs(d, H), Z) /\ H \in [Nat -> Nat]
  BY DEF Sound, Shaped
<1>2. s \in Nat \ {0} /\ StoredMsg(d.store[s])
  BY <1>1 DEF Stocked
<1>3. OnlyStore(d, e) /\ e.store = [d.store EXCEPT ![s] = [d.store[s] EXCEPT !.ref = d.store[s].ref + 1]]
  BY <1>1 DEF OnlyStore, Referenced, Fields
<1> HIDE DEF e
<1>4. /\ Fields \subseteq DOMAIN e
      /\ e.last_db_id = d.last_db_id /\ e.roots = d.roots /\ e.tree = d.tree
      /\ e.subs = d.subs /\ e.retained = d.retained /\ e.ctx = d.ctx
      /\ e.disused = d.disused /\ e.sec = d.sec
  BY <1>1, <1>3, OnlyStoreIs
<1>5. G \in [Nat -> Nat] /\ \A x \in Nat : G[x] = IF x = s THEN H[x] + 1 ELSE H[x]
  BY <1>1, <1>2 DEF Plus
<1> HIDE DEF G
<1>6. /\ Refs(d, H) \in [Nat -> Nat]
      /\ \A x \in Nat : Refs(d, G)[x] = IF x = s THEN Refs(d, H)[x] + 1 ELSE Refs(d, H)[x]
  <2>1. ASSUME NEW x \in Nat
        PROVE  /\ Refs(d, G)[x] = IF x = s THEN Refs(d, H)[x] + 1 ELSE Refs(d, H)[x]
               /\ Refs(d, H)[x] \in Nat
    <3>1. Held(Queues(d), x) \in Nat /\ Pinned(d.retained, x) \in Nat /\ H[x] \in Nat
      BY SoundNat
    <3>2. /\ Refs(d, G)[x] = Held(Queues(d), x) + Pinned(d.retained, x) + G[x]
          /\ Refs(d, H)[x] = Held(Queues(d), x) + Pinned(d.retained, x) + H[x]
      BY DEF Refs
    <3> QED
      BY <1>5, <3>1, <3>2
  <2>2. Refs(d, H) = [x \in Nat |-> Refs(d, H)[x]]
    BY DEF Refs
  <2> QED
    BY <2>1, <2>2
<1>7. Stocked(e.store, d.last_db_id, Refs(d, G), Z \ {s})
  <2> DEFINE y == [d.store[s] EXCEPT !.ref = d.store[s].ref + 1]
  <2>1. /\ DOMAIN e.store = DOMAIN d.store /\ e.store[s] = y
        /\ \A x \in DOMAIN d.store \ {s} : e.store[x] = d.store[x]
    BY <1>3
  <2>2. StoredMsg(y) /\ y.ref = d.store[s].ref + 1
    BY <1>2 DEF StoredMsg, StoreFields
  <2>3. StoredMsg(e.store[s]) /\ e.store[s].ref = d.store[s].ref + 1
    BY <2>1, <2>2
  <2>4. Stocked(d.store, d.last_db_id, Refs(d, H), Z) /\ s \in DOMAIN d.store
    BY <1>1 DEF Sound
  <2>5. \A x \in Nat \ {0} : Refs(d, G)[x] = IF x = s THEN Refs(d, H)[x] + 1 ELSE Refs(d, H)[x]
    BY <1>6
  <2>6. Refs(d, H) \in [Nat -> Nat] /\ DOMAIN e.store = DOMAIN d.store
        /\ \A x \in DOMAIN d.store \ {s} : e.store[x] = d.store[x]
    BY <1>6, <2>1
  <2> HIDE DEF y
  <2> QED
    BY <2>3, <2>4, <2>5, <2>6, UpStocked
<1>8. Queues(e) = Queues(d) /\ Lists(e) = Lists(d) /\ Refs(e, G) = Refs(d, G)
  BY <1>4 DEF Queues, Lists, Refs
<1> QED
  BY <1>3, <1>4, <1>5, <1>7, <1>8 DEF Sound, Shaped, e, G
-----------------------------------------------------------------------------
(* Changes of one context.                                                 *)

(* A change of one context.                                                *)
OneCtx(d, e, c) ==
    /\ DOMAIN e = DOMAIN d /\ \A f \in DOMAIN d \ {"ctx"} : e[f] = d[f]
    /\ DOMAIN e.ctx = DOMAIN d.ctx
    /\ \A x \in DOMAIN d.ctx \ {c} : e.ctx[x] = d.ctx[x]

(* Only one context has changed: field by field.                           *)
LEMMA OneCtxIs ==
    ASSUME NEW d, Fields \subseteq DOMAIN d, NEW e, NEW c, OneCtx(d, e, c)
    PROVE  /\ Fields \subseteq DOMAIN e /\ e.store = d.store
           /\ e.last_db_id = d.last_db_id /\ e.roots = d.roots /\ e.tree = d.tree
           /\ e.subs = d.subs /\ e.retained = d.retained
           /\ e.disused = d.disused /\ e.sec = d.sec
BY DEF OneCtx, Fields

(* ... and the others are left alone.                                      *)
LEMMA OneCtxKeeps ==
    ASSUME NEW d, Fields \subseteq DOMAIN d, d.last_db_id \in Nat, NEW e, NEW c, OneCtx(d, e, c),
           c \in DOMAIN d.ctx => SameClient(d.ctx[c], e.ctx[c])
    PROVE  Keeps(d, e) /\ Stands(d, e) /\ e.retained = d.retained
<1>1. /\ Fields \subseteq DOMAIN e /\ e.store = d.store
      /\ e.last_db_id = d.last_db_id /\ e.roots = d.roots /\ e.tree = d.tree
      /\ e.subs = d.subs /\ e.retained = d.retained
      /\ e.disused = d.disused /\ e.sec = d.sec
  BY OneCtxIs
<1>2. ASSUME NEW x \in DOMAIN d.ctx PROVE SameClient(d.ctx[x], e.ctx[x])
  BY DEF OneCtx, SameClient
<1> QED
  BY <1>1, <1>2 DEF Keeps, Stands, OneCtx

(* A new queue, with the references it changes.                            *)
LEMMA OneCtxQueue ==
    ASSUME NEW d, NEW H, NEW Z, Sound(d, H, Z), NEW c \in DOMAIN d.ctx, NEW e, OneCtx(d, e, c),
           Context(e.ctx[c]), e.ctx[c].subs = d.ctx[c].subs, Queue(e.ctx[c].msgs),
           NEW G \in [Nat -> Nat],
           \A s \in Nat \ {0} :
              H[s] + Times(Stores(d.ctx[c].msgs), s) = G[s] + Times(Stores(e.ctx[c].msgs), s)
    PROVE  Sound(e, G, Z)
<1>1. /\ Fields \subseteq DOMAIN e /\ e.store = d.store
      /\ e.last_db_id = d.last_db_id /\ e.roots = d.roots /\ e.tree = d.tree
      /\ e.subs = d.subs /\ e.retained = d.retained
      /\ e.disused = d.disused /\ e.sec = d.sec
  BY OneCtxIs DEF Sound, Shaped
<1>2. Shaped(e)
  BY <1>1 DEF OneCtx, Sound, Shaped
<1>3. Lists(e) = Lists(d)
  BY DEF OneCtx, Lists
<1> DEFINE Q == Queues(d)
           R == Queues(e)
<1>4. /\ Queued(Q) /\ c \in DOMAIN Q /\ DOMAIN R = DOMAIN Q /\ Q[c] = d.ctx[c].msgs
      /\ R[c] = e.ctx[c].msgs /\ \A x \in DOMAIN Q \ {c} : R[x] = Q[x]
  BY DEF OneCtx, Queues, Sound
<1> HIDE DEF Q, R
<1>5. /\ Queued(R)
      /\ \A s : Held(R, s) + Times(Stores(Q[c]), s) = Held(Q, s) + Times(Stores(e.ctx[c].msgs), s)
  BY <1>4, HeldReplaced
<1>6. ASSUME NEW s \in Nat \ {0} PROVE Refs(e, G)[s] = Refs(d, H)[s]
  <2>1. Held(Q, s) \in Nat /\ Pinned(d.retained, s) \in Nat /\ H[s] \in Nat
    BY SoundNat DEF Q
  <2>2. /\ Refs(d, H)[s] = Held(Q, s) + Pinned(d.retained, s) + H[s]
        /\ Refs(e, G)[s] = Held(R, s) + Pinned(d.retained, s) + G[s]
    BY <1>1 DEF Refs, Q, R
  <2>3. Held(R, s) \in Nat /\ G[s] \in Nat
    BY <1>5, HeldNat
  <2>4. Times(Stores(Q[c]), s) \in Nat /\ Times(Stores(e.ctx[c].msgs), s) \in Nat
    <3>1. Listed(Q[c]) /\ Listed(e.ctx[c].msgs)
      BY <1>4 DEF Queued, Queue
    <3> QED
      BY <3>1, StoresListed, TimesNat
  <2>5. H[s] + Times(Stores(Q[c]), s) = G[s] + Times(Stores(e.ctx[c].msgs), s)
    BY <1>4
  <2>6. Held(R, s) + Times(Stores(Q[c]), s) = Held(Q, s) + Times(Stores(e.ctx[c].msgs), s)
    BY <1>5
  <2> QED
    BY <2>1, <2>2, <2>3, <2>4, <2>5, <2>6
<1>7. Stocked(e.store, e.last_db_id, Refs(e, G), Z)
  BY <1>1, <1>6 DEF Sound, Stocked
<1> QED
  BY <1>1, <1>2, <1>3, <1>5, <1>7 DEF Sound, R

(* A change of a context that touches no references.                       *)
LEMMA OneCtxSound ==
    ASSUME NEW d, NEW H, NEW Z, Sound(d, H, Z), NEW c, NEW e, OneCtx(d, e, c),
           c \in DOMAIN d.ctx => /\ Context(e.ctx[c]) /\ e.ctx[c].subs = d.ctx[c].subs
                                 /\ e.ctx[c].msgs = d.ctx[c].msgs
    PROVE  Sound(e, H, Z)
<1>1. /\ Fields \subseteq DOMAIN e /\ e.store = d.store
      /\ e.last_db_id = d.last_db_id /\ e.roots = d.roots /\ e.tree = d.tree
      /\ e.subs = d.subs /\ e.retained = d.retained
      /\ e.disused = d.disused /\ e.sec = d.sec
  BY OneCtxIs DEF Sound, Shaped
<1>2. Shaped(e)
  BY <1>1 DEF OneCtx, Sound, Shaped
<1>3. Lists(e) = Lists(d) /\ Queues(e) = Queues(d)
  BY DEF OneCtx, Lists, Queues
<1> QED
  BY <1>1, <1>2, <1>3, Framed

(* Sending a packet.                                                       *)
LEMMA SendSound ==
    ASSUME NEW d, NEW H, NEW Z, Sound(d, H, Z), NEW c \in DOMAIN d.ctx, NEW packet
    PROVE  /\ Sound(Send(d, c, packet), H, Z) /\ Keeps(d, Send(d, c, packet))
           /\ Stands(d, Send(d, c, packet)) /\ Send(d, c, packet).retained = d.retained
<1> DEFINE e == Send(d, c, packet)
           x == d.ctx[c]
           y == [x EXCEPT !.out = Append(@, packet)]
<1>1. Fields \subseteq DOMAIN d /\ Context(x) /\ d.last_db_id \in Nat
  BY SoundNat DEF Sound, Shaped
<1>2. OneCtx(d, e, c) /\ e.ctx[c] = y
  BY <1>1 DEF Send, OneCtx, Fields
<1>3. Context(y) /\ SameClient(x, y) /\ y.subs = x.subs /\ y.msgs = x.msgs
  BY <1>1 DEF Context, ContextFields, SameClient, Paced, Tally
<1> HIDE DEF e, y
<1>4. Sound(e, H, Z)
  BY <1>2, <1>3, OneCtxSound
<1>5. Keeps(d, e) /\ Stands(d, e) /\ e.retained = d.retained
  BY <1>1, <1>2, <1>3, OneCtxKeeps
<1> QED
  BY <1>4, <1>5 DEF e
-----------------------------------------------------------------------------
(* mqtt3_db_message_store: a new number, nobody refers to it yet.          *)
LEMMA StoreSound ==
    ASSUME NEW d, NEW H, NEW Z, Sound(d, H, Z), NEW source, NEW mid, NEW topic, Listed(topic),
           NEW qos, NEW payload, NEW retain
    PROVE  LET e == mqtt3_db_message_store(d, source, mid, topic, qos, payload, retain)
               s == d.last_db_id + 1
           IN /\ Sound(e, H, Z \cup {s}) /\ Keeps(d, e) /\ Stands(d, e) /\ e.retained = d.retained
              /\ e.ctx = d.ctx
              /\ e.last_db_id = s /\ s \in DOMAIN e.store /\ s \in Nat \ {0}
<1> DEFINE e == mqtt3_db_message_store(d, source, mid, topic, qos, payload, retain)
           s == d.last_db_id + 1
           m == [ref |-> 0, source |-> source, source_mid |-> mid, topic |-> topic, qos |-> qos,
                 retain |-> retain, payload |-> payload, dest_ids |-> {}]
<1>1. Fields \subseteq DOMAIN d /\ d.last_db_id \in Nat
  BY SoundNat DEF Sound, Shaped
<1>2. /\ Fields \subseteq DOMAIN e
      /\ e.last_db_id = s /\ e.roots = d.roots /\ e.tree = d.tree
      /\ e.subs = d.subs /\ e.retained = d.retained /\ e.ctx = d.ctx
      /\ e.disused = d.disused /\ e.sec = d.sec
      /\ e.store = With1(d.store, s, m)
  BY <1>1 DEF mqtt3_db_message_store, Fields
<1>3. StoredMsg(m) /\ m.ref = 0
  BY DEF StoredMsg, StoreFields
<1> HIDE DEF m, e
<1>4. /\ DOMAIN e.store = DOMAIN d.store \cup {s} /\ e.store[s] = m
      /\ \A x \in DOMAIN d.store \ {s} : e.store[x] = d.store[x]
  BY <1>2 DEF With1
<1>5. s \notin DOMAIN d.store /\ s \in Nat \ {0}
  BY <1>1 DEF Sound, Stocked
<1>6. Queues(e) = Queues(d) /\ Lists(e) = Lists(d) /\ Refs(e, H) = Refs(d, H)
  BY <1>2 DEF Queues, Lists, Refs
<1>7. Stocked(e.store, s, Refs(d, H), Z \cup {s})
  <2>1. Stocked(d.store, d.last_db_id, Refs(d, H), Z)
    BY DEF Sound
  <2>2. s \in Nat /\ DOMAIN e.store \subseteq 1..s
    BY <1>1, <1>4, <2>1 DEF Stocked
  <2>3. \A x \in DOMAIN e.store : StoredMsg(e.store[x]) /\ (x \notin Z \cup {s} => e.store[x].ref > 0)
    BY <1>3, <1>4, <1>5, <2>1 DEF Stocked
  <2>4. \A x \in Nat \ {0} : Ref(e.store, x) = Ref(d.store, x)
    BY <1>3, <1>4, <1>5 DEF Ref
  <2> QED
    BY <2>1, <2>2, <2>3, <2>4 DEF Stocked
<1>8. Sound(e, H, Z \cup {s})
  BY <1>2, <1>6, <1>7 DEF Sound, Shaped
<1>9. Keeps(d, e) /\ Stands(d, e)
  BY <1>1, <1>2 DEF Keeps, Stands, SameClient
<1> QED
  BY <1>2, <1>4, <1>5, <1>8, <1>9 DEF e
-----------------------------------------------------------------------------
(* Queues.                                                                 *)

(* Sequences are equal when they agree everywhere.                         *)
LEMMA SameListed ==
    ASSUME NEW s, Listed(s), NEW t, Listed(t), Len(s) = Len(t), \A i \in 1..Len(s) : s[i] = t[i]
    PROVE  s = t
<1>1. s = [i \in 1..Len(s) |-> s[i]] /\ t = [i \in 1..Len(t) |-> t[i]]
  BY ListedDomain
<1> QED
  BY <1>1

(* One mark for every message.                                             *)
LEMMA MarkListed ==
    ASSUME NEW msgs, Listed(msgs)
    PROVE  /\ Listed(Mark(msgs)) /\ Len(Mark(msgs)) = Len(msgs) /\ DOMAIN Mark(msgs) = DOMAIN msgs
           /\ \A i \in DOMAIN msgs : Mark(msgs)[i] = IF msgs[i].qos > 0 THEN 1 ELSE 0
<1>1. Len(msgs) \in Nat /\ DOMAIN msgs = 1..Len(msgs)
  BY ListedDomain
<1>2. Mark(msgs) = [i \in 1..Len(msgs) |-> Mark(msgs)[i]]
  BY <1>1 DEF Mark
<1>3. Listed(Mark(msgs)) /\ Len(Mark(msgs)) = Len(msgs)
  BY <1>1, <1>2, FunctionListed
<1> QED
  BY <1>1, <1>3 DEF Mark

(* A message joins a queue ...                                             *)
LEMMA QueueAppend ==
    ASSUME NEW msgs, Queue(msgs), NEW m, Message(m)
    PROVE  /\ Queue(Append(msgs, m))
           /\ \A s : Times(Stores(Append(msgs, m)), s) = Times(Stores(msgs), s) + (IF m.store = s THEN 1 ELSE 0)
           /\ Times(Mark(Append(msgs, m)), 1) = Times(Mark(msgs), 1) + (IF m.qos > 0 THEN 1 ELSE 0)
<1> DEFINE t == Append(msgs, m)
           n == Len(msgs)
<1>1. /\ Listed(msgs) /\ n \in Nat /\ DOMAIN msgs = 1..n
      /\ Listed(t) /\ Len(t) = n + 1 /\ DOMAIN t = 1..(n + 1)
      /\ \A i \in 1..n : t[i] = msgs[i]
      /\ t[n + 1] = m
  BY AppendListed, ListedDomain DEF Queue
<1>2. Queue(t)
  BY <1>1 DEF Queue
<1>3. Stores(t) = Append(Stores(msgs), m.store)
  <2>1. /\ Listed(Stores(msgs)) /\ Len(Stores(msgs)) = n
        /\ \A i \in 1..n : Stores(msgs)[i] = msgs[i].store
        /\ Listed(Stores(t)) /\ Len(Stores(t)) = n + 1
        /\ \A i \in 1..(n + 1) : Stores(t)[i] = t[i].store
    BY <1>1, StoresListed
  <2> HIDE DEF t, n
  <2>2. /\ Listed(Append(Stores(msgs), m.store)) /\ Len(Append(Stores(msgs), m.store)) = n + 1
        /\ \A i \in 1..n : Append(Stores(msgs), m.store)[i] = Stores(msgs)[i]
        /\ Append(Stores(msgs), m.store)[n + 1] = m.store
    BY <2>1, AppendListed
  <2>3. \A i \in 1..(n + 1) : Stores(t)[i] = Append(Stores(msgs), m.store)[i]
    <3> SUFFICES ASSUME NEW i \in 1..(n + 1) PROVE Stores(t)[i] = Append(Stores(msgs), m.store)[i]
      OBVIOUS
    <3>1. CASE i \in 1..n
      BY <1>1, <2>1, <2>2, <3>1
    <3>2. CASE i = n + 1
      BY <1>1, <2>1, <2>2, <3>2
    <3>3. n \in Nat
      BY <1>1
    <3>4. i \in 1..n \/ i = n + 1
      BY <3>3
    <3> QED
      BY <3>1, <3>2, <3>4
  <2> QED
    BY <2>1, <2>2, <2>3, SameListed
<1>4. Mark(t) = Append(Mark(msgs), IF m.qos > 0 THEN 1 ELSE 0)
  <2> DEFINE w == IF m.qos > 0 THEN 1 ELSE 0
  <2>1. /\ Listed(Mark(msgs)) /\ Len(Mark(msgs)) = n
        /\ \A i \in 1..n : Mark(msgs)[i] = IF msgs[i].qos > 0 THEN 1 ELSE 0
        /\ Listed(Mark(t)) /\ Len(Mark(t)) = n + 1
        /\ \A i \in 1..(n + 1) : Mark(t)[i] = IF t[i].qos > 0 THEN 1 ELSE 0
    BY <1>1, MarkListed
  <2> HIDE DEF t, n
  <2>2. Mark(t)[n + 1] = w
    BY <1>1, <2>1
  <2> HIDE DEF w
  <2>3. /\ Listed(Append(Mark(msgs), w)) /\ Len(Append(Mark(msgs), w)) = n + 1
        /\ \A i \in 1..n : Append(Mark(msgs), w)[i] = Mark(msgs)[i]
        /\ Append(Mark(msgs), w)[n + 1] = w
    BY <2>1, AppendListed
  <2>4. \A i \in 1..(n + 1) : Mark(t)[i] = Append(Mark(msgs), w)[i]
    <3> SUFFICES ASSUME NEW i \in 1..(n + 1) PROVE Mark(t)[i] = Append(Mark(msgs), w)[i]
      OBVIOUS
    <3>1. CASE i \in 1..n
      BY <1>1, <2>1, <2>3, <3>1
    <3>2. CASE i = n + 1
      BY <1>1, <2>2, <2>3, <3>2
    <3>3. n \in Nat
      BY <1>1
    <3>4. i \in 1..n \/ i = n + 1
      BY <3>3
    <3> QED
      BY <3>1, <3>2, <3>4
  <2>5. Mark(t) = Append(Mark(msgs), w)
    BY <2>1, <2>3, <2>4, SameListed
  <2> QED
    BY <2>5 DEF w
<1> HIDE DEF t, n
<1>5. ASSUME NEW s PROVE Times(Stores(t), s) = Times(Stores(msgs), s) + (IF m.store = s THEN 1 ELSE 0)
  BY <1>1, <1>3, StoresListed, TimesAppend
<1>6. Times(Mark(t), 1) = Times(Mark(msgs), 1) + (IF m.qos > 0 THEN 1 ELSE 0)
  <2> DEFINE w == IF m.qos > 0 THEN 1 ELSE 0
  <2>1. w = 1 <=> m.qos > 0
    OBVIOUS
  <2>2. Mark(t) = Append(Mark(msgs), w)
    BY <1>4
  <2> HIDE DEF w
  <2>3. Times(Mark(t), 1) = Times(Mark(msgs), 1) + (IF w = 1 THEN 1 ELSE 0)
    BY <1>1, <2>2, MarkListed, TimesAppend
  <2> QED
    BY <2>1, <2>3
<1> QED
  BY <1>2, <1>5, <1>6 DEF t

(* ... changes in its place ...                                            *)
LEMMA QueueSame ==
    ASSUME NEW msgs, Queue(msgs), NEW t, DOMAIN t = DOMAIN msgs, t = [i \in DOMAIN t |-> t[i]],
           \A i \in DOMAIN msgs : Message(t[i]) /\ t[i].store = msgs[i].store /\ t[i].qos = msgs[i].qos
    PROVE  Queue(t) /\ Stores(t) = Stores(msgs) /\ Mark(t) = Mark(msgs)
<1>1. Len(msgs) \in Nat /\ DOMAIN msgs = 1..Len(msgs)
  BY ListedDomain DEF Queue
<1>2. Listed(t)
  <2>1. t = [i \in 1..Len(msgs) |-> t[i]]
    BY <1>1
  <2> QED
    BY <1>1, <2>1, FunctionListed
<1>3. Queue(t)
  BY <1>2 DEF Queue
<1>4. Stores(t) = Stores(msgs)
  BY DEF Stores
<1>5. Mark(t) = Mark(msgs)
  BY DEF Mark
<1> QED
  BY <1>3, <1>4, <1>5

(* ... and leaves it.                                                      *)
LEMMA QueueRemove ==
    ASSUME NEW msgs, Queue(msgs), NEW i \in 1..Len(msgs)
    PROVE  /\ Queue(RemoveAt(msgs, i))
           /\ \A s : Times(Stores(msgs), s)
                     = Times(Stores(RemoveAt(msgs, i)), s) + (IF msgs[i].store = s THEN 1 ELSE 0)
           /\ Times(Mark(msgs), 1) = Times(Mark(RemoveAt(msgs, i)), 1) + (IF msgs[i].qos > 0 THEN 1 ELSE 0)
<1> DEFINE t == RemoveAt(msgs, i)
           n == Len(msgs)
<1>1. /\ Listed(msgs) /\ n \in Nat /\ DOMAIN msgs = 1..n /\ i \in 1..n
      /\ Listed(t) /\ Len(t) = n - 1 /\ DOMAIN t = 1..(n - 1)
      /\ \A j \in 1..(n - 1) : t[j] = IF j < i THEN msgs[j] ELSE msgs[j + 1]
  <2>1. Listed(msgs)
    BY DEF Queue
  <2>2. /\ Listed(t) /\ Len(t) = n - 1
        /\ \A j \in 1..(n - 1) : t[j] = IF j < i THEN msgs[j] ELSE msgs[j + 1]
    BY <2>1, RemoveListed
  <2> HIDE DEF t
  <2> QED
    BY <2>1, <2>2, ListedDomain
<1> HIDE DEF t, n
<1>2. Queue(t)
  <2> SUFFICES ASSUME NEW j \in 1..(n - 1) PROVE Message(t[j])
    BY <1>1 DEF Queue
  <2>1. j \in 1..n /\ j + 1 \in 1..n
    BY <1>1
  <2> QED
    BY <1>1, <2>1 DEF Queue
<1>3. Stores(t) = RemoveAt(Stores(msgs), i)
  <2>1. /\ Listed(Stores(msgs)) /\ Len(Stores(msgs)) = n
        /\ \A j \in 1..n : Stores(msgs)[j] = msgs[j].store
        /\ Listed(Stores(t)) /\ Len(Stores(t)) = n - 1
        /\ \A j \in 1..(n - 1) : Stores(t)[j] = t[j].store
    BY ZenonT(60), <1>1, StoresListed DEF n
  <2>2. /\ Listed(RemoveAt(Stores(msgs), i)) /\ Len(RemoveAt(Stores(msgs), i)) = n - 1
        /\ \A j \in 1..(n - 1) : RemoveAt(Stores(msgs), i)[j]
              = IF j < i THEN Stores(msgs)[j] ELSE Stores(msgs)[j + 1]
    BY <1>1, <2>1, RemoveListed
  <2>3. ASSUME NEW j \in 1..(n - 1) PROVE Stores(t)[j] = RemoveAt(Stores(msgs), i)[j]
    <3>1. j \in 1..n /\ j + 1 \in 1..n
      BY <1>1
    <3> QED
      BY <1>1, <2>1, <2>2, <3>1
  <2> QED
    BY <2>1, <2>2, <2>3, SameListed
<1>4. Mark(t) = RemoveAt(Mark(msgs), i)
  <2>1. /\ Listed(Mark(msgs)) /\ Len(Mark(msgs)) = n
        /\ \A j \in 1..n : Mark(msgs)[j] = IF msgs[j].qos > 0 THEN 1 ELSE 0
        /\ Listed(Mark(t)) /\ Len(Mark(t)) = n - 1
        /\ \A j \in 1..(n - 1) : Mark(t)[j] = IF t[j].qos > 0 THEN 1 ELSE 0
    BY ZenonT(60), <1>1, MarkListed DEF n
  <2>2. /\ Listed(RemoveAt(Mark(msgs), i)) /\ Len(RemoveAt(Mark(msgs), i)) = n - 1
        /\ \A j \in 1..(n - 1) : RemoveAt(Mark(msgs), i)[j]
              = IF j < i THEN Mark(msgs)[j] ELSE Mark(msgs)[j + 1]
    BY <1>1, <2>1, RemoveListed
  <2>3. ASSUME NEW j \in 1..(n - 1) PROVE Mark(t)[j] = RemoveAt(Mark(msgs), i)[j]
    <3>1. j \in 1..n /\ j + 1 \in 1..n
      BY <1>1
    <3>2. CASE j < i
      BY <1>1, <2>1, <2>2, <3>1, <3>2
    <3>3. CASE ~(j < i)
      BY <1>1, <2>1, <2>2, <3>1, <3>3
    <3> QED
      BY <3>2, <3>3
  <2> QED
    BY <2>1, <2>2, <2>3, SameListed
<1>5. ASSUME NEW s
      PROVE  Times(Stores(msgs), s) = Times(Stores(t), s) + (IF msgs[i].store = s THEN 1 ELSE 0)
  <2>1. Listed(Stores(msgs)) /\ i \in 1..Len(Stores(msgs)) /\ Stores(msgs)[i] = msgs[i].store
    BY <1>1, StoresListed DEF n
  <2> QED
    BY <1>3, <2>1, TimesRemove
<1>6. Times(Mark(msgs), 1) = Times(Mark(t), 1) + (IF msgs[i].qos > 0 THEN 1 ELSE 0)
  <2>1. /\ Listed(Mark(msgs)) /\ i \in 1..Len(Mark(msgs))
        /\ Mark(msgs)[i] = IF msgs[i].qos > 0 THEN 1 ELSE 0
    BY <1>1, MarkListed DEF n
  <2>2. Times(Mark(msgs), 1) = Times(Mark(t), 1) + (IF Mark(msgs)[i] = 1 THEN 1 ELSE 0)
    BY <1>4, <2>1, TimesRemove
  <2>3. Mark(msgs)[i] = 1 <=> msgs[i].qos > 0
    BY <2>1
  <2> QED
    BY <2>2, <2>3
<1> QED
  BY <1>2, <1>5, <1>6 DEF t
-----------------------------------------------------------------------------
(* mqtt3_db_message_insert                                                 *)

(* More messages may be without a reference.                               *)
LEMMA SoundMore ==
    ASSUME NEW d, NEW H, NEW Z, Sound(d, H, Z), NEW Y, Z \subseteq Y
    PROVE  Sound(d, H, Y)
BY DEF Sound, Stocked

(* One reference more, for one message.                                    *)
LEMMA PlusIs ==
    ASSUME NEW H \in [Nat -> Nat], NEW s \in Nat
    PROVE  /\ Plus(H, s) \in [Nat -> Nat]
           /\ \A x \in Nat : Plus(H, s)[x] = IF x = s THEN H[x] + 1 ELSE H[x]
BY DEF Plus

(* A stored message is referred to once more.                              *)
LEMMA UpSound ==
    ASSUME NEW d, NEW H, NEW Z, Sound(d, H, Z), NEW s \in DOMAIN d.store, NEW e, OnlyStore(d, e),
           DOMAIN e.store = DOMAIN d.store, \A x \in DOMAIN d.store \ {s} : e.store[x] = d.store[x],
           StoredMsg(e.store[s]), e.store[s].ref = d.store[s].ref + 1
    PROVE  Sound(e, Plus(H, s), Z \ {s})
<1> DEFINE G == Plus(H, s)
<1>1. /\ Fields \subseteq DOMAIN d /\ Stocked(d.store, d.last_db_id, Refs(d, H), Z)
      /\ H \in [Nat -> Nat] /\ s \in Nat \ {0}
  BY DEF Sound, Shaped, Stocked
<1>2. /\ Fields \subseteq DOMAIN e
      /\ e.last_db_id = d.last_db_id /\ e.roots = d.roots /\ e.tree = d.tree
      /\ e.subs = d.subs /\ e.retained = d.retained /\ e.ctx = d.ctx
      /\ e.disused = d.disused /\ e.sec = d.sec
  BY <1>1, OnlyStoreIs
<1>3. G \in [Nat -> Nat] /\ \A x \in Nat : G[x] = IF x = s THEN H[x] + 1 ELSE H[x]
  BY <1>1, PlusIs
<1> HIDE DEF G
<1>4. /\ Refs(d, H) \in [Nat -> Nat]
      /\ \A x \in Nat : Refs(d, G)[x] = IF x = s THEN Refs(d, H)[x] + 1 ELSE Refs(d, H)[x]
  <2>1. ASSUME NEW x \in Nat
        PROVE  /\ Refs(d, G)[x] = IF x = s THEN Refs(d, H)[x] + 1 ELSE Refs(d, H)[x]
               /\ Refs(d, H)[x] \in Nat
    <3>1. Held(Queues(d), x) \in Nat /\ Pinned(d.retained, x) \in Nat /\ H[x] \in Nat
      BY SoundNat
    <3>2. /\ Refs(d, G)[x] = Held(Queues(d), x) + Pinned(d.retained, x) + G[x]
          /\ Refs(d, H)[x] = Held(Queues(d), x) + Pinned(d.retained, x) + H[x]
      BY DEF Refs
    <3> QED
      BY <1>3, <3>1, <3>2
  <2>2. Refs(d, H) = [x \in Nat |-> Refs(d, H)[x]]
    BY DEF Refs
  <2> QED
    BY <2>1, <2>2
<1>5. Stocked(e.store, d.last_db_id, Refs(d, G), Z \ {s})
  BY <1>1, <1>4, UpStocked
<1>6. Queues(e) = Queues(d) /\ Lists(e) = Lists(d) /\ Refs(e, G) = Refs(d, G)
  BY <1>2 DEF Queues, Lists, Refs
<1> QED
  BY <1>2, <1>3, <1>5, <1>6 DEF Sound, Shaped, G

(* A message that is not queued.                                           *)
Dropping == {"gone", "duplicate", "dropped"}

(* The state of a queued message fits its QoS.                             *)
LEMMA InsertStateIs ==
    ASSUME NEW d, NEW c, NEW dir, NEW qos, NEW retain, NEW s,
           InsertState(d, c, dir, qos, retain, s) \notin Dropping
    PROVE  /\ d.ctx[c].id # NoId
           /\ InsertState(d, c, dir, qos, retain, s) = "publish_qos0" => ~(qos > 0)
<1>1. d.ctx[c].id # NoId
  BY DEF InsertState, Dropping
<1>2. Publishing(qos) = "publish_qos0" => ~(qos > 0)
  BY DEF Publishing
<1>3. InsertState(d, c, dir, qos, retain, s)
        \in {Publishing(qos), "wait_for_pubrel", "queued", "dropped", "duplicate"}
  BY <1>1 DEF InsertState
<1> QED
  BY <1>1, <1>2, <1>3

(* A message for a connected client waits only when others are under way.  *)
LEMMA InsertQueued ==
    ASSUME NEW d, NEW c, NEW dir, NEW qos, NEW retain, NEW s, d.ctx[c].sock,
           InsertState(d, c, dir, qos, retain, s) = "queued"
    PROVE  max_inflight # 0 /\ ~(d.ctx[c].count12 < max_inflight)
<1> DEFINE x == d.ctx[c]
           now == qos = 0 \/ max_inflight = 0 \/ x.count12 < max_inflight
<1>1. Publishing(qos) # "queued"
  BY DEF Publishing
<1> HIDE DEF Publishing
<1>2. now => InsertState(d, c, dir, qos, retain, s) # "queued"
  BY <1>1 DEF InsertState
<1> QED
  BY <1>2

(* A message is put behind others.                                         *)
LEMMA FlowsAppend ==
    ASSUME NEW msgs, Queue(msgs), Flows(msgs), NEW m,
           m.state = "queued" => max_inflight # 0 /\ msgs # <<>>
    PROVE  Flows(Append(msgs, m))
<1> DEFINE t == Append(msgs, m)
           n == Len(msgs)
<1>1. n \in Nat /\ DOMAIN msgs = 1..n
  BY ListedDomain DEF Queue
<1>2. /\ Listed(t) /\ Len(t) = n + 1 /\ t[n + 1] = m
      /\ \A i \in 1..n : t[i] = msgs[i]
  BY AppendListed DEF Queue
<1>3. DOMAIN t = 1..(n + 1)
  BY <1>2, ListedDomain
<1>4. msgs # <<>> => n # 0
  <2>1. n = 0 => msgs = <<>>
    BY <1>1, EmptyListed, SameListed DEF Queue
  <2> QED
    BY <2>1
<1> HIDE DEF t
<1>5. ASSUME NEW i \in 1..(n + 1), t[i].state = "queued" PROVE max_inflight # 0 /\ i # 1
  <2>1. CASE i = n + 1
    BY <1>1, <1>2, <1>4, <1>5, <2>1
  <2>2. CASE i # n + 1
    <3>1. i \in 1..n
      BY <1>1, <2>2
    <3> QED
      BY <1>1, <1>2, <1>5, <3>1 DEF Flows
  <2> QED
    BY <2>1, <2>2
<1> QED
  BY <1>3, <1>5 DEF Flows, t

(* mqtt3_db_message_insert                                                 *)
LEMMA InsertSound ==
    ASSUME NEW d, NEW H, NEW Z, Sound(d, H, Z), NEW c \in DOMAIN d.ctx, NEW s \in DOMAIN d.store,
           NEW mid, NEW dir, NEW qos, NEW retain
    PROVE  LET e == mqtt3_db_message_insert(d, c, mid, dir, qos, retain, s)
           IN /\ Sound(e, H, IF InsertState(d, c, dir, qos, retain, s) \in Dropping THEN Z ELSE Z \ {s})
              /\ Keeps(d, e) /\ Stands(d, e) /\ e.retained = d.retained
<1> DEFINE e == mqtt3_db_message_insert(d, c, mid, dir, qos, retain, s)
           state == InsertState(d, c, dir, qos, retain, s)
           m == [store |-> s, mid |-> mid, dir |-> dir, state |-> state, dup |-> FALSE,
                 qos |-> qos, retain |-> retain]
           ids == IF ~allow_duplicate_messages /\ dir = "out" /\ ~retain
                  THEN d.store[s].dest_ids \cup {d.ctx[c].id} ELSE d.store[s].dest_ids
           w == [d.store[s] EXCEPT !.ref = d.store[s].ref + 1, !.dest_ids = ids]
           b == [d EXCEPT !.store = [d.store EXCEPT ![s] = w]]
           x == d.ctx[c]
           y == [x EXCEPT !.msgs = Append(x.msgs, m),
                          !.count12 = IF qos > 0 THEN x.count12 + 1 ELSE x.count12]
<1>1. Fields \subseteq DOMAIN d /\ d.last_db_id \in Nat /\ Context(x) /\ s \in Nat \ {0} /\ StoredMsg(d.store[s])
  BY SoundNat DEF Sound, Shaped, Stocked
<1>2. CASE state \in Dropping
  <2>1. e = d
    BY <1>2 DEF mqtt3_db_message_insert, Dropping
  <2> HIDE DEF e
  <2> QED
    BY <1>1, <1>2, <2>1, KeepsSelf DEF e
<1>3. CASE state \notin Dropping
  <2>1. x.id # NoId /\ (state = "publish_qos0" => ~(qos > 0))
    BY <1>3, InsertStateIs
  <2>2. e = [[d EXCEPT !.store = [d.store EXCEPT ![s] = w]] EXCEPT !.ctx = [d.ctx EXCEPT ![c] = y]]
    <3>1. e = [d EXCEPT
               !.store[s].ref = @ + 1,
               !.store[s].dest_ids = IF ~allow_duplicate_messages /\ dir = "out" /\ ~retain
                                     THEN @ \cup {d.ctx[c].id} ELSE @,
               !.ctx[c].msgs = Enlisted(@, m),
               !.ctx[c].count12 = IF qos > 0 THEN @ + 1 ELSE @]
      <4> HIDE DEF state
      <4>1. state \notin {"gone", "duplicate", "dropped"}
        BY <1>3 DEF Dropping
      <4> QED
        BY <4>1 DEF mqtt3_db_message_insert, state
    <3> HIDE DEF e, m, state
    <3> QED
      BY ZenonT(60), <1>1, <3>1 DEF Enlisted, Fields, Context, ContextFields, StoredMsg, StoreFields
  <2> HIDE DEF e
  <2>3. OnlyStore(d, b) /\ b.store = [d.store EXCEPT ![s] = w]
    <3> HIDE DEF w
    <3> QED
      BY <1>1 DEF OnlyStore, Fields
  <2>4. OneCtx(b, e, c) /\ e.ctx[c] = y
    <3> HIDE DEF w, y
    <3> QED
      BY <1>1, <2>2 DEF OneCtx, Fields
  <2>5. StoredMsg(w) /\ w.ref = d.store[s].ref + 1
    BY <1>1 DEF StoredMsg, StoreFields
  <2>6. b.ctx = d.ctx /\ b.last_db_id = d.last_db_id /\ Fields \subseteq DOMAIN b
        /\ b.roots = d.roots /\ b.tree = d.tree /\ b.subs = d.subs /\ b.retained = d.retained
        /\ b.disused = d.disused /\ b.sec = d.sec
    <3> HIDE DEF b
    <3> QED
      BY <1>1, <2>3, OnlyStoreIs
  <2> HIDE DEF w, b
  <2>7. Sound(b, Plus(H, s), Z \ {s})
    <3>1. /\ DOMAIN b.store = DOMAIN d.store /\ b.store[s] = w
          /\ \A z \in DOMAIN d.store \ {s} : b.store[z] = d.store[z]
      BY <2>3
    <3> QED
      BY <2>3, <2>5, <3>1, UpSound
  <2>8. Message(m)
    <3> HIDE DEF state
    <3> QED
      BY <1>1, <2>1 DEF Message, MsgFields
  <2> HIDE DEF m
  <2>9. Queue(x.msgs)
    <3>1. c \in DOMAIN Queues(d) /\ Queues(d)[c] = x.msgs
      BY DEF Queues
    <3> QED
      BY <3>1 DEF Sound, Queued
  <2>10. /\ Queue(Append(x.msgs, m))
         /\ \A z : Times(Stores(Append(x.msgs, m)), z) = Times(Stores(x.msgs), z) + (IF m.store = z THEN 1 ELSE 0)
         /\ Times(Mark(Append(x.msgs, m)), 1) = Times(Mark(x.msgs), 1) + (IF m.qos > 0 THEN 1 ELSE 0)
    BY <2>8, <2>9, QueueAppend
  <2>11. /\ Context(y) /\ y.subs = x.subs /\ y.msgs = Append(x.msgs, m)
         /\ y.count12 = (IF qos > 0 THEN x.count12 + 1 ELSE x.count12)
         /\ \A f \in {"id", "sock", "state", "clean", "username", "password", "acl", "will", "subs"} : y[f] = x[f]
    BY <1>1 DEF Context, ContextFields
  <2> HIDE DEF y
  <2>12. m.store = s /\ m.qos = qos
    BY DEF m
  <2>13. SameClient(x, y)
    <3>1. Times(Mark(x.msgs), 1) \in Nat
      BY <2>9, MarkListed, TimesNat DEF Queue
    <3>2. Paced(x) => Paced(y)
      <4> SUFFICES ASSUME Paced(x) PROVE Paced(y)
        OBVIOUS
      <4>1. Tally(y)
        BY <2>10, <2>11, <2>12, <3>1 DEF Paced, Tally
      <4>2. ASSUME y.sock PROVE Flows(y.msgs)
        <5>1. x.sock /\ Flows(x.msgs) /\ Tally(x)
          BY <2>11, <4>2 DEF Paced
        <5>2. m.state = "queued" => max_inflight # 0 /\ x.msgs # <<>>
          <6> SUFFICES ASSUME state = "queued" PROVE max_inflight # 0 /\ x.msgs # <<>>
            BY DEF m
          <6>1. max_inflight # 0 /\ ~(x.count12 < max_inflight)
            BY <2>1, <5>1, InsertQueued
          <6>2. x.count12 # 0
            BY <6>1, DbAssumption
          <6>3. x.msgs = <<>> => Mark(x.msgs) = <<>>
            BY DEF Mark
          <6>4. x.msgs # <<>>
            BY <5>1, <6>2, <6>3, TimesEmpty DEF Tally
          <6> QED
            BY <6>1, <6>4
        <5> QED
          BY <2>9, <2>11, <5>1, <5>2, FlowsAppend
      <4> QED
        BY <4>1, <4>2 DEF Paced
    <3> QED
      BY <2>1, <2>11, <3>2 DEF SameClient
  <2>14. Sound(e, H, Z \ {s})
    <3>1. \A z \in Nat \ {0} : Plus(H, s)[z] + Times(Stores(x.msgs), z) = H[z] + Times(Stores(y.msgs), z)
      <4> SUFFICES ASSUME NEW z \in Nat \ {0}
                   PROVE  Plus(H, s)[z] + Times(Stores(x.msgs), z) = H[z] + Times(Stores(y.msgs), z)
        OBVIOUS
      <4>1. Plus(H, s)[z] = (IF z = s THEN H[z] + 1 ELSE H[z]) /\ H[z] \in Nat
        BY <1>1, PlusIs DEF Sound
      <4>2. Times(Stores(y.msgs), z) = Times(Stores(x.msgs), z) + (IF s = z THEN 1 ELSE 0)
        BY <2>10, <2>11, <2>12
      <4>3. Times(Stores(x.msgs), z) \in Nat
        BY <2>9, StoresListed, TimesNat DEF Queue
      <4> HIDE DEF x
      <4> QED
        BY <4>1, <4>2, <4>3
    <3>2. H \in [Nat -> Nat]
      BY DEF Sound
    <3>3. c \in DOMAIN b.ctx /\ b.ctx[c] = x /\ e.ctx[c] = y
      BY <2>4, <2>6
    <3>4. /\ OneCtx(b, e, c) /\ Context(e.ctx[c]) /\ e.ctx[c].subs = b.ctx[c].subs
          /\ Queue(e.ctx[c].msgs)
      BY <2>4, <2>10, <2>11, <3>3
    <3>5. \A z \in Nat \ {0} : Plus(H, s)[z] + Times(Stores(b.ctx[c].msgs), z) = H[z] + Times(Stores(e.ctx[c].msgs), z)
      BY <3>1, <3>3
    <3> HIDE DEF x, e, state
    <3> QED
      BY <2>7, <3>2, <3>3, <3>4, <3>5, OneCtxQueue
  <2>15. Keeps(b, e) /\ Stands(b, e) /\ e.retained = b.retained
    BY <1>1, <2>4, <2>6, <2>13, OneCtxKeeps
  <2>16. Keeps(d, e) /\ Stands(d, e) /\ e.retained = d.retained
    BY <2>6, <2>15 DEF Keeps, Stands
  <2> QED
    BY <1>3, <2>14, <2>16 DEF e
<1> QED
  BY <1>2, <1>3
-----------------------------------------------------------------------------
(* A message handed on, and retained messages.                             *)

(* From database d to e, with the tree of nodes as it was.                 *)
Goes(d, e, H, Z) == Sound(e, H, Z) /\ Keeps(d, e) /\ Stands(d, e)

(* Doing nothing.                                                          *)
LEMMA GoesSelf == ASSUME NEW d, NEW H, NEW Z, Sound(d, H, Z) PROVE Goes(d, d, H, Z)
BY SoundNat, KeepsSelf DEF Goes

(* One step after the other.                                               *)
LEMMA GoesOn ==
    ASSUME NEW d, NEW G, NEW Y, Sound(d, G, Y), NEW e, NEW f, NEW H, NEW Z, NEW I, NEW X,
           Goes(d, e, H, Z), Goes(e, f, I, X)
    PROVE  Goes(d, f, I, X)
<1>1. d.last_db_id \in Nat /\ e.last_db_id \in Nat /\ f.last_db_id \in Nat
  BY SoundNat DEF Goes
<1>2. Keeps(d, f)
  BY <1>1, KeepsTrans DEF Goes
<1> QED
  BY <1>2 DEF Goes, Stands

(* More messages may be without a reference.                               *)
LEMMA GoesMore ==
    ASSUME NEW d, NEW e, NEW H, NEW Z, Goes(d, e, H, Z), NEW Y, Z \subseteq Y
    PROVE  Goes(d, e, H, Y)
BY SoundMore DEF Goes

(* Only what a database holds matters.                                     *)
LEMMA SoundAlike ==
    ASSUME NEW d, NEW H, NEW Z, Sound(d, H, Z), NEW e, Fields \subseteq DOMAIN e,
           \A f \in Fields : e[f] = d[f]
    PROVE  Sound(e, H, Z)
<1>1. /\ e.last_db_id = d.last_db_id /\ e.roots = d.roots /\ e.tree = d.tree
      /\ e.subs = d.subs /\ e.retained = d.retained /\ e.ctx = d.ctx
      /\ e.disused = d.disused /\ e.sec = d.sec /\ e.store = d.store
  BY DEF Fields
<1>2. Queues(e) = Queues(d) /\ Lists(e) = Lists(d)
  BY <1>1 DEF Queues, Lists
<1>3. Shaped(e)
  BY <1>1 DEF Sound, Shaped
<1> QED
  BY <1>1, <1>2, <1>3, Framed
-----------------------------------------------------------------------------
(* Offer                                                                   *)
LEMMA OfferSound ==
    ASSUME NEW d, NEW H, NEW Z, Sound(d, H, Z), NEW c \in DOMAIN d.ctx, NEW s \in DOMAIN d.store,
           NEW qos, NEW retain
    PROVE  Goes(d, Offer(d, c, qos, retain, s), H, Z)
<1> DEFINE mid == IF qos > 0 THEN _mosquitto_mid_generate(d.ctx[c]) ELSE 0
           x == d.ctx[c]
           y == [x EXCEPT !.last_mid = mid]
           b == IF qos > 0 THEN [d EXCEPT !.ctx[c].last_mid = mid] ELSE d
           e == mqtt3_db_message_insert(b, c, mid, "out", qos, retain, s)
<1>1. Fields \subseteq DOMAIN d /\ Context(x) /\ d.last_db_id \in Nat
  BY SoundNat DEF Sound, Shaped
<1>2. Goes(d, b, H, Z) /\ b.store = d.store /\ DOMAIN b.ctx = DOMAIN d.ctx
  <2>1. CASE qos > 0
    <3> DEFINE f == [d EXCEPT !.ctx[c].last_mid = mid]
    <3> HIDE DEF mid
    <3>1. OneCtx(d, f, c) /\ f.ctx[c] = y /\ f.store = d.store
      BY <1>1 DEF OneCtx, Fields
    <3>2. Context(y) /\ SameClient(x, y) /\ y.subs = x.subs /\ y.msgs = x.msgs
      BY <1>1 DEF Context, ContextFields, SameClient, Paced, Tally
    <3>5. b = f
      BY <2>1
    <3> HIDE DEF f, y, b
    <3>3. Sound(f, H, Z)
      BY <3>1, <3>2, OneCtxSound
    <3>4. Keeps(d, f) /\ Stands(d, f)
      BY <1>1, <3>1, <3>2, OneCtxKeeps
    <3> QED
      BY <3>1, <3>3, <3>4, <3>5 DEF Goes, OneCtx
  <2>2. CASE ~(qos > 0)
    BY <2>2, GoesSelf
  <2> QED
    BY <2>1, <2>2
<1> HIDE DEF b, mid
<1>3. Goes(b, e, H, Z)
  <2>1. Sound(b, H, Z) /\ c \in DOMAIN b.ctx /\ s \in DOMAIN b.store
    BY <1>2 DEF Goes
  <2>2. /\ Sound(e, H, IF InsertState(b, c, "out", qos, retain, s) \in Dropping THEN Z ELSE Z \ {s})
        /\ Keeps(b, e) /\ Stands(b, e)
    BY <2>1, InsertSound
  <2> HIDE DEF e
  <2>3. Sound(e, H, Z)
    <3>1. CASE InsertState(b, c, "out", qos, retain, s) \in Dropping
      BY <2>2, <3>1
    <3>2. CASE InsertState(b, c, "out", qos, retain, s) \notin Dropping
      <4>1. Sound(e, H, Z \ {s})
        BY <2>2, <3>2
      <4> QED
        BY <4>1, SoundMore
    <3> QED
      BY <3>1, <3>2
  <2> QED
    BY <2>2, <2>3 DEF Goes
<1>4. Offer(d, c, qos, retain, s) = e
  BY DEF Offer, e, b, mid
<1> QED
  BY <1>2, <1>3, <1>4, GoesOn
-----------------------------------------------------------------------------
(* A node gets another retained message.                                   *)
LEMMA KeptReplaced ==
    ASSUME NEW R, IsFiniteSet(DOMAIN R), NEW p \in DOMAIN R, NEW S, DOMAIN S = DOMAIN R,
           \A q \in DOMAIN R \ {p} : S[q] = R[q], NEW s
    PROVE  /\ Pinned(S, s) + (IF R[p] = s THEN 1 ELSE 0) = Pinned(R, s) + (IF S[p] = s THEN 1 ELSE 0)
           /\ Pinned(S, s) \in Nat /\ Pinned(R, s) \in Nat
<1> DEFINE A == {q \in DOMAIN R \ {p} : R[q] = s}
           n == Cardinality(A)
<1>1. IsFiniteSet(A) /\ p \notin A
  <2>1. A \subseteq DOMAIN R
    OBVIOUS
  <2> QED
    BY <2>1, FS_Subset
<1>2. n \in Nat /\ Cardinality(A \cup {p}) = n + 1
  BY <1>1, FS_CardinalityType, FS_AddElement
<1>3. Pinned(R, s) = n + (IF R[p] = s THEN 1 ELSE 0)
  <2>1. CASE R[p] = s
    <3>1. {q \in DOMAIN R : R[q] = s} = A \cup {p}
      BY <2>1
    <3> QED
      BY <1>2, <2>1, <3>1 DEF Pinned
  <2>2. CASE R[p] # s
    <3>1. {q \in DOMAIN R : R[q] = s} = A
      BY <2>2
    <3> QED
      BY <1>2, <2>2, <3>1 DEF Pinned
  <2> QED
    BY <2>1, <2>2
<1>4. Pinned(S, s) = n + (IF S[p] = s THEN 1 ELSE 0)
  <2>1. CASE S[p] = s
    <3>1. {q \in DOMAIN S : S[q] = s} = A \cup {p}
      BY <2>1
    <3> QED
      BY <1>2, <2>1, <3>1 DEF Pinned
  <2>2. CASE S[p] # s
    <3>1. {q \in DOMAIN S : S[q] = s} = A
      BY <2>2
    <3> QED
      BY <1>2, <2>2, <3>1 DEF Pinned
  <2> QED
    BY <2>1, <2>2
<1> HIDE DEF n
<1> QED
  BY <1>2, <1>3, <1>4

(* Only retained messages have changed.                                    *)
OnlyRetained(d, e) ==
    DOMAIN e = DOMAIN d /\ \A f \in DOMAIN d \ {"retained"} : e[f] = d[f]

(* A retained message takes the place of another.                          *)
LEMMA RetainedSet ==
    ASSUME NEW d, NEW G, NEW Z, Sound(d, G, Z), NEW p \in DOMAIN d.retained, NEW v \in Nat,
           NEW e, OnlyRetained(d, e), e.retained = [d.retained EXCEPT ![p] = v],
           NEW H \in [Nat -> Nat],
           \A x \in Nat \ {0} : H[x] + (IF v = x THEN 1 ELSE 0) = G[x] + (IF d.retained[p] = x THEN 1 ELSE 0)
    PROVE  Goes(d, e, H, Z)
<1>1. Fields \subseteq DOMAIN d /\ d.last_db_id \in Nat
  BY SoundNat DEF Sound, Shaped
<1>2. /\ Fields \subseteq DOMAIN e
      /\ e.last_db_id = d.last_db_id /\ e.roots = d.roots /\ e.tree = d.tree
      /\ e.subs = d.subs /\ e.ctx = d.ctx
      /\ e.disused = d.disused /\ e.sec = d.sec /\ e.store = d.store
  BY <1>1 DEF OnlyRetained, Fields
<1> DEFINE R == d.retained
           S == e.retained
<1>3. /\ DOMAIN S = DOMAIN R /\ S[p] = v /\ \A q \in DOMAIN R \ {p} : S[q] = R[q]
      /\ IsFiniteSet(DOMAIN R) /\ R \in [Range(d.tree) -> Nat] /\ S \in [Range(d.tree) -> Nat]
  BY RangeFinite DEF Sound, Wooded
<1>4. Queues(e) = Queues(d) /\ Lists(e) = Lists(d)
  BY <1>2 DEF Queues, Lists
<1>5. ASSUME NEW x \in Nat \ {0} PROVE Refs(e, H)[x] = Refs(d, G)[x]
  <2>1. /\ Pinned(S, x) + (IF R[p] = x THEN 1 ELSE 0) = Pinned(R, x) + (IF v = x THEN 1 ELSE 0)
        /\ Pinned(S, x) \in Nat /\ Pinned(R, x) \in Nat
    BY <1>3, KeptReplaced
  <2>2. H[x] + (IF v = x THEN 1 ELSE 0) = G[x] + (IF R[p] = x THEN 1 ELSE 0)
    OBVIOUS
  <2>3. H[x] \in Nat /\ G[x] \in Nat /\ Held(Queues(d), x) \in Nat
    BY SoundNat
  <2>4. /\ Refs(e, H)[x] = Held(Queues(d), x) + Pinned(S, x) + H[x]
        /\ Refs(d, G)[x] = Held(Queues(d), x) + Pinned(R, x) + G[x]
    BY <1>4 DEF Refs
  <2> HIDE DEF R, S
  <2>5. Pinned(S, x) + H[x] = Pinned(R, x) + G[x]
    <3>1. CASE v = x /\ R[p] = x
      BY <2>1, <2>2, <2>3, <3>1
    <3>2. CASE v = x /\ R[p] # x
      BY <2>1, <2>2, <2>3, <3>2
    <3>3. CASE v # x /\ R[p] = x
      BY <2>1, <2>2, <2>3, <3>3
    <3>4. CASE v # x /\ R[p] # x
      BY <2>1, <2>2, <2>3, <3>4
    <3> QED
      BY <3>1, <3>2, <3>3, <3>4
  <2> QED
    BY <2>1, <2>3, <2>4, <2>5
<1> HIDE DEF R, S
<1>6. Stocked(e.store, e.last_db_id, Refs(e, H), Z)
  <2>1. Stocked(d.store, d.last_db_id, Refs(d, G), Z)
    BY DEF Sound
  <2> QED
    BY <1>2, <1>5, <2>1 DEF Stocked
<1>7. Wooded(e.tree, e.subs, e.retained)
  BY <1>2, <1>3 DEF Wooded, Sound, S
<1>8. Sound(e, H, Z)
  BY <1>2, <1>4, <1>6, <1>7 DEF Sound, Shaped
<1>9. Keeps(d, e) /\ Stands(d, e)
  BY <1>1, <1>2 DEF Keeps, Stands, SameClient
<1> QED
  BY <1>8, <1>9 DEF Goes
-----------------------------------------------------------------------------
(* _subs_process                                                           *)

(* A retained message is cleared.                                          *)
LEMMA RetainedNone ==
    ASSUME NEW d, NEW H, NEW Z, Sound(d, H, Z), NEW p \in DOMAIN d.retained
    PROVE  LET b == IF d.retained[p] = 0 THEN d ELSE mosquitto__db_msg_store_deref(d, d.retained[p])
               e == [b EXCEPT !.retained[p] = 0]
           IN Goes(d, e, H, Z) /\ DOMAIN e = DOMAIN b
<1> DEFINE r == d.retained[p]
           b == IF r = 0 THEN d ELSE mosquitto__db_msg_store_deref(d, r)
           e == [b EXCEPT !.retained[p] = 0]
           f == [d EXCEPT !.retained[p] = 0]
<1>1. Fields \subseteq DOMAIN d /\ d.last_db_id \in Nat /\ H \in [Nat -> Nat] /\ r \in Nat
  BY SoundNat DEF Sound, Shaped, Wooded
<1>2. OnlyRetained(d, f) /\ f.retained = [d.retained EXCEPT ![p] = 0] /\ f.store = d.store
  BY <1>1 DEF OnlyRetained, Fields
<1>3. CASE r = 0
  <2>1. b = d /\ e = f
    BY <1>3
  <2>2. \A x \in Nat \ {0} : H[x] + (IF 0 = x THEN 1 ELSE 0) = H[x] + (IF d.retained[p] = x THEN 1 ELSE 0)
    BY <1>3
  <2> HIDE DEF b, e, f
  <2>3. Goes(d, f, H, Z)
    BY <1>1, <1>2, <2>2, RetainedSet
  <2> QED
    BY <1>2, <2>1, <2>3 DEF OnlyRetained, b, e
<1>4. CASE r # 0
  <2>1. b = mosquitto__db_msg_store_deref(d, r)
    BY <1>4
  <2>2. OnlyStore(d, b) /\ b.store = Down(d.store, r)
    BY <1>1, <2>1, DerefIs
  <2> HIDE DEF b
  <2>3. /\ DOMAIN e = DOMAIN b /\ DOMAIN b = DOMAIN d
        /\ e.store = Down(d.store, r)
        /\ e.last_db_id = d.last_db_id /\ e.roots = d.roots /\ e.tree = d.tree
        /\ e.subs = d.subs /\ e.ctx = d.ctx /\ e.disused = d.disused /\ e.sec = d.sec
        /\ e.retained = f.retained
    BY <1>1, <2>2 DEF OnlyStore, Fields
  <2> HIDE DEF e, f
  <2>4. Sound(f, Plus(H, r), Z)
    <3>1. Plus(H, r) \in [Nat -> Nat]
      BY <1>1 DEF Plus
    <3>2. \A x \in Nat \ {0} : Plus(H, r)[x] + (IF 0 = x THEN 1 ELSE 0) = H[x] + (IF d.retained[p] = x THEN 1 ELSE 0)
      <4> SUFFICES ASSUME NEW x \in Nat \ {0} PROVE Plus(H, r)[x] = H[x] + (IF r = x THEN 1 ELSE 0)
        BY <1>1, <3>1
      <4>1. H[x] \in Nat /\ Plus(H, r)[x] = IF x = r THEN H[x] + 1 ELSE H[x]
        BY <1>1 DEF Plus
      <4> HIDE DEF r
      <4> QED
        BY <4>1
    <3>3. 0 \in Nat /\ OnlyRetained(d, f) /\ f.retained = [d.retained EXCEPT ![p] = 0]
      BY <1>2
    <3> DEFINE G == Plus(H, r)
    <3>4. G \in [Nat -> Nat] /\ \A x \in Nat \ {0} :
             G[x] + (IF 0 = x THEN 1 ELSE 0) = H[x] + (IF d.retained[p] = x THEN 1 ELSE 0)
      BY <3>1, <3>2
    <3> HIDE DEF G
    <3>5. Goes(d, f, G, Z)
      BY <3>3, <3>4, RetainedSet
    <3>6. Goes(d, f, Plus(H, r), Z)
      BY <3>5 DEF G
    <3> QED
      BY <3>6 DEF Goes
  <2> DEFINE g == mosquitto__db_msg_store_deref(f, r)
  <2>5. Sound(g, H, Z)
    BY <1>1, <1>4, <2>4, DerefSound
  <2>6. OnlyStore(f, g) /\ g.store = Down(f.store, r)
    BY <2>4, DerefIs DEF Sound, Shaped
  <2> HIDE DEF g
  <2>7. Fields \subseteq DOMAIN e /\ \A x \in Fields : e[x] = g[x]
    <3>1. DOMAIN e = DOMAIN d /\ DOMAIN g = DOMAIN f /\ DOMAIN f = DOMAIN d
      BY <1>2, <2>3, <2>6 DEF OnlyStore, OnlyRetained
    <3>2. e.store = g.store /\ e.retained = g.retained
      BY <1>1, <1>2, <2>3, <2>6, <3>1 DEF OnlyStore, Fields
    <3>3. \A x \in Fields \ {"store", "retained"} : e[x] = d[x] /\ g[x] = d[x]
      <4>1. \A x \in Fields \ {"store", "retained"} : e[x] = d[x]
        BY <2>3 DEF Fields
      <4>2. \A x \in Fields \ {"store", "retained"} : g[x] = d[x]
        BY <1>1, <1>2, <2>6, <3>1 DEF OnlyStore, OnlyRetained
      <4> QED
        BY <4>1, <4>2
    <3> QED
      BY <1>1, <3>1, <3>2, <3>3
  <2>8. Sound(e, H, Z)
    BY <2>5, <2>7, SoundAlike
  <2>9. Keeps(d, e) /\ Stands(d, e)
    BY <1>1, <2>3 DEF Keeps, Stands, SameClient
  <2> QED
    BY <2>3, <2>8, <2>9 DEF Goes, e, b
<1> QED
  BY <1>3, <1>4

(* Retained                                                                *)
LEMMA RetainedSound ==
    ASSUME NEW d, NEW H, NEW Z, Sound(d, H, Z), NEW p \in DOMAIN d.retained,
           NEW s \in Nat \ {0}, H[s] > 0
    PROVE  Goes(d, Retained(d, p, s), H, Z)
<1> DEFINE b == IF d.retained[p] = 0 THEN d ELSE mosquitto__db_msg_store_deref(d, d.retained[p])
           e == [b EXCEPT !.retained[p] = 0]
           h == Referenced(e, s)
           k == [h EXCEPT !.retained[p] = s]
           u == [b EXCEPT !.retained[p] = s]
           f == Referenced(u, s)
<1>1. Goes(d, e, H, Z) /\ DOMAIN e = DOMAIN b
  BY RetainedNone
<1>2. Retained(d, p, s) = IF d.store[s].payload = 0 THEN e ELSE f
  BY DEF Retained
<1>3. Sound(e, H, Z) /\ s \in DOMAIN e.store /\ Fields \subseteq DOMAIN e /\ H \in [Nat -> Nat]
  <2> HIDE DEF e
  <2> QED
    BY <1>1, Referred DEF Goes, Sound, Shaped
<1>4. e.retained = [b.retained EXCEPT ![p] = 0] /\ e.tree = b.tree /\ p \in DOMAIN b.retained
  <2>1. e.retained = [b.retained EXCEPT ![p] = 0] /\ e.tree = b.tree
    BY <1>1, <1>3 DEF Fields
  <2>2. DOMAIN e.retained = Range(e.tree) /\ DOMAIN d.retained = Range(d.tree) /\ e.tree = d.tree
    <3> HIDE DEF e
    <3> QED
      BY <1>1 DEF Goes, Stands, Sound, Wooded
  <2> HIDE DEF b, e
  <2> QED
    BY <2>1, <2>2
<1>5. \A x \in Fields \ {"retained"} : u[x] = e[x]
  BY <1>1, <1>3
<1>6. /\ DOMAIN u = DOMAIN e /\ u.retained = [b.retained EXCEPT ![p] = s]
      /\ u.store = e.store
  BY <1>1, <1>3 DEF Fields
<1> HIDE DEF e, u, b
<1>7. Sound(h, Plus(H, s), Z \ {s}) /\ OnlyStore(e, h)
  BY <1>3, ReferencedSound
<1>8. h.store = [e.store EXCEPT ![s].ref = @ + 1] /\ f.store = [u.store EXCEPT ![s].ref = @ + 1]
      /\ DOMAIN f = DOMAIN u /\ \A x \in DOMAIN u \ {"store"} : f[x] = u[x]
  BY <1>3, <1>6 DEF Referenced, Fields
<1> HIDE DEF h, f
<1>9. /\ DOMAIN h = DOMAIN e /\ h.retained = e.retained
      /\ \A x \in DOMAIN e \ {"store"} : h[x] = e[x]
  BY <1>3, <1>7 DEF OnlyStore, Fields
<1>10. OnlyRetained(h, k) /\ k.retained = [h.retained EXCEPT ![p] = s]
  BY <1>3, <1>9 DEF OnlyRetained, Fields
<1> HIDE DEF k
<1>11. Goes(h, k, H, Z \ {s})
  <2>1. p \in DOMAIN h.retained /\ h.retained[p] = 0
    BY <1>4, <1>9
  <2>2. \A x \in Nat \ {0} : H[x] + (IF s = x THEN 1 ELSE 0) = Plus(H, s)[x] + (IF h.retained[p] = x THEN 1 ELSE 0)
    <3> SUFFICES ASSUME NEW x \in Nat \ {0}
                 PROVE  H[x] + (IF s = x THEN 1 ELSE 0) = Plus(H, s)[x] + (IF h.retained[p] = x THEN 1 ELSE 0)
      OBVIOUS
    <3>1. H[x] \in Nat /\ Plus(H, s)[x] = IF x = s THEN H[x] + 1 ELSE H[x]
      BY <1>3, PlusIs
    <3>2. ~(h.retained[p] = x)
      BY <2>1
    <3> QED
      BY <3>1, <3>2
  <2> QED
    BY <1>3, <1>7, <1>10, <2>1, <2>2, RetainedSet
<1>12. Fields \subseteq DOMAIN f /\ \A x \in Fields : f[x] = k[x]
  <2>1. DOMAIN f = DOMAIN e /\ DOMAIN k = DOMAIN e
    BY <1>6, <1>8, <1>9, <1>10 DEF OnlyRetained
  <2>2. f.store = k.store
    BY <1>3, <1>6, <1>8, <1>9, <1>10 DEF OnlyRetained, Fields
  <2>3. f.retained = k.retained
    BY <1>3, <1>4, <1>6, <1>8, <1>9, <1>10 DEF Fields
  <2>4. \A x \in Fields \ {"store", "retained"} : f[x] = e[x] /\ k[x] = e[x]
    <3>1. \A x \in Fields \ {"store", "retained"} : f[x] = e[x]
      BY <1>3, <1>5, <1>6, <1>8
    <3>2. \A x \in Fields \ {"store", "retained"} : k[x] = e[x]
      BY <1>3, <1>9, <1>10 DEF OnlyRetained
    <3> QED
      BY <3>1, <3>2
  <2> QED
    BY <1>3, <2>1, <2>2, <2>3, <2>4
<1>13. Goes(d, f, H, Z)
  <2>1. Sound(f, H, Z)
    BY <1>11, <1>12, SoundAlike, SoundMore DEF Goes
  <2>2. \A x \in {"ctx", "sec", "disused", "last_db_id", "tree", "subs", "roots"} : f[x] = e[x]
    BY <1>3, <1>5, <1>6, <1>8 DEF Fields
  <2>3. Keeps(d, f) /\ Stands(d, f)
    <3>1. Keeps(d, e) /\ Stands(d, e)
      BY <1>1 DEF Goes
    <3>2. /\ f.ctx = e.ctx /\ f.sec = e.sec /\ f.disused = e.disused /\ f.last_db_id = e.last_db_id
          /\ f.tree = e.tree /\ f.subs = e.subs /\ f.roots = e.roots
      BY <2>2
    <3> QED
      BY <3>1, <3>2 DEF Keeps, Stands
  <2> QED
    BY <2>1, <2>3 DEF Goes
<1> QED
  BY <1>1, <1>2, <1>13
-----------------------------------------------------------------------------
(* _subs_process                                                           *)
OfferLeaf(c, d, leaf) ==
    IF d.ctx[leaf.ctx].id = NoId \/ ~mosquitto_acl_check(d, leaf.ctx, c.topic, "read") THEN d
    ELSE Offer(d, leaf.ctx, IF upgrade_outgoing_qos THEN leaf.qos ELSE Lower(c.qos, leaf.qos), FALSE, c.s)
(* What is known after some turns of a loop over the tree.                 *)
Led(c, k, d) == Goes(c.d, d, c.H, c.Z)
Leading == INSTANCE FoldInduction WITH Op <- OfferLeaf, Inv <- Led

(* _subs_process, as the induction over the folds reads it: the node's     *)
(* retained message is set first.                                          *)
SetRetain(d, p, retain, s) ==
    IF retain /\ "+" \notin Range(p) /\ Last(p) # "#" THEN Retained(d, p, s) ELSE d
LEMMA ProcessIs ==
    ASSUME NEW c, NEW d, NEW p, NEW source_id, NEW retain
    PROVE  _subs_process(d, p, source_id, c.topic, c.qos, retain, c.s) =
              IF source_id = NoId THEN SetRetain(d, p, retain, c.s)
              ELSE Leading!Left(c, SetRetain(d, p, retain, c.s), SetRetain(d, p, retain, c.s).subs[p])
  BY DEF _subs_process, SetRetain, Leading!Left, OfferLeaf, FoldLeft, MapThenFoldSet, Max

(* _subs_process: one node, its retained message and its clients.          *)
LEMMA ProcessSound ==
    ASSUME NEW d, NEW H, NEW Z, Sound(d, H, Z), NEW p \in Range(d.tree),
           NEW s \in Nat \ {0}, H[s] > 0, NEW source_id, NEW topic, NEW qos, NEW retain
    PROVE  Goes(d, _subs_process(d, p, source_id, topic, qos, retain, s), H, Z)
<1> DEFINE b == SetRetain(d, p, retain, s)
           c == [d |-> b, H |-> H, Z |-> Z, topic |-> topic, qos |-> qos, s |-> s]
           leaves == b.subs[p]
           n == Len(leaves)
<1>1. Goes(d, b, H, Z)
  <2>1. p \in DOMAIN d.retained
    BY DEF Sound, Wooded
  <2>2. b = Retained(d, p, s) \/ b = d
    BY DEF SetRetain
  <2> HIDE DEF b
  <2> QED
    BY <2>1, <2>2, RetainedSound, GoesSelf
<1> HIDE DEF b
<1>2. Sound(b, H, Z) /\ b.subs = d.subs /\ b.tree = d.tree
  BY <1>1 DEF Goes, Stands
<1>3. Listed(leaves) /\ \A i \in DOMAIN leaves : leaves[i].ctx \in DOMAIN b.ctx
  <2>1. p \in DOMAIN b.subs /\ Leafy(b.subs, Lists(b))
    BY <1>2 DEF Sound, Wooded
  <2> QED
    BY <2>1 DEF Leafy, Once, Lists
<1>4. n \in Nat /\ DOMAIN leaves = 1..n
  BY <1>3, ListedDomain
<1>5. Led(c, 0, b)
  BY <1>2, GoesSelf DEF Led
<1>6. ASSUME NEW k \in 0..(n - 1), NEW a, Led(c, k, a)
      PROVE  Led(c, k + 1, OfferLeaf(c, a, leaves[k + 1]))
  <2> DEFINE leaf == leaves[k + 1]
             to == IF upgrade_outgoing_qos THEN leaf.qos ELSE Lower(qos, leaf.qos)
  <2>1. Goes(b, a, H, Z)
    BY <1>6 DEF Led
  <2>2. k + 1 \in DOMAIN leaves
    BY <1>4
  <2>3. leaf.ctx \in DOMAIN a.ctx
    BY <1>3, <2>1, <2>2 DEF Goes, Keeps
  <2>4. s \in DOMAIN a.store /\ Sound(a, H, Z)
    BY <2>1, Referred DEF Goes
  <2> HIDE DEF leaf
  <2>5. Goes(a, Offer(a, leaf.ctx, to, FALSE, s), H, Z)
    BY <2>3, <2>4, OfferSound
  <2>6. OfferLeaf(c, a, leaf) = a \/ OfferLeaf(c, a, leaf) = Offer(a, leaf.ctx, to, FALSE, s)
    BY DEF OfferLeaf
  <2> HIDE DEF to, c
  <2>7. Goes(b, OfferLeaf(c, a, leaf), H, Z)
    <3> DEFINE f == Offer(a, leaf.ctx, to, FALSE, s)
               o == OfferLeaf(c, a, leaf)
    <3>1. Goes(a, f, H, Z) /\ (o = a \/ o = f)
      BY <2>5, <2>6
    <3>2. Sound(b, H, Z)
      BY <1>2
    <3> HIDE DEF f, o, b, n, leaves
    <3>3. Goes(b, f, H, Z)
      BY <2>1, <3>1, <3>2, GoesOn
    <3> QED
      BY <2>1, <3>1, <3>3 DEF o
  <2> QED
    BY <2>7 DEF Led, c, leaf
<1>7. Led(c, n, Leading!Left(c, b, leaves))
  <2>1. \A k \in 0..(n - 1) : \A a : Led(c, k, a) => Led(c, k + 1, OfferLeaf(c, a, leaves[k + 1]))
    BY <1>6
  <2> HIDE DEF c, n, leaves
  <2> QED
    BY <1>4, <1>5, <2>1, Leading!LeftInduction
<1>8. _subs_process(d, p, source_id, topic, qos, retain, s) =
         IF source_id = NoId THEN b ELSE Leading!Left(c, b, leaves)
  <2>1. c.topic = topic /\ c.qos = qos /\ c.s = s
    OBVIOUS
  <2> HIDE DEF c
  <2>2. _subs_process(d, p, source_id, c.topic, c.qos, retain, c.s) =
           IF source_id = NoId THEN SetRetain(d, p, retain, c.s)
           ELSE Leading!Left(c, SetRetain(d, p, retain, c.s), SetRetain(d, p, retain, c.s).subs[p])
    BY ProcessIs
  <2> QED
    BY <2>1, <2>2 DEF b
<1>9. Goes(b, Leading!Left(c, b, leaves), H, Z)
  <2> HIDE DEF leaves
  <2> QED
    BY <1>7 DEF Led
<1> HIDE DEF c, leaves
<1> QED
  BY <1>1, <1>8, <1>9, GoesOn
-----------------------------------------------------------------------------
(* Names of nodes.                                                         *)

(* The first elements of a sequence.                                       *)
LEMMA FirstOf ==
    ASSUME NEW q, Listed(q), NEW n \in Nat, n <= Len(q)
    PROVE  /\ Listed(SubSeq(q, 1, n)) /\ Len(SubSeq(q, 1, n)) = n
           /\ \A i \in 1..n : SubSeq(q, 1, n)[i] = q[i]
<1> DEFINE t == SubSeq(q, 1, n)
<1>1. /\ Listed(t) /\ Len(t) = IF 1 <= n THEN n - 1 + 1 ELSE 0
      /\ \A i \in 1..Len(t) : t[i] = q[1 + i - 1]
  BY SubSeqListed
<1> HIDE DEF t
<1>2. Len(t) = n
  BY <1>1
<1>3. \A i \in 1..n : 1 + i - 1 = i
  OBVIOUS
<1>4. \A i \in 1..n : t[i] = q[i]
  BY <1>1, <1>2, <1>3
<1> QED
  BY <1>1, <1>2, <1>4 DEF t

(* A prefix agrees with the beginning.                                     *)
LEMMA PrefixIs ==
    ASSUME NEW p, Listed(p), NEW q, Listed(q)
    PROVE  IsPrefix(p, q) <=> (Len(p) <= Len(q) /\ \A i \in 1..Len(p) : p[i] = q[i])
<1>1. Len(p) \in Nat /\ Len(q) \in Nat
  BY ListedDomain
<1> SUFFICES ASSUME Len(p) <= Len(q)
             PROVE  SubSeq(p, 1, Len(p)) = SubSeq(q, 1, Len(p)) <=> \A i \in 1..Len(p) : p[i] = q[i]
  BY DEF IsPrefix
<1> DEFINE n == Len(p)
           s == SubSeq(p, 1, n)
           t == SubSeq(q, 1, n)
<1>2. Listed(s) /\ Len(s) = n /\ \A i \in 1..n : s[i] = p[i]
  BY <1>1, FirstOf
<1>3. Listed(t) /\ Len(t) = n /\ \A i \in 1..n : t[i] = q[i]
  BY <1>1, FirstOf
<1> HIDE DEF s, t, n
<1>4. (\A i \in 1..n : p[i] = q[i]) => s = t
  BY <1>2, <1>3, SameListed
<1>5. s = t => \A i \in 1..n : p[i] = q[i]
  BY <1>2, <1>3
<1> QED
  BY <1>4, <1>5 DEF s, t, n

(* All but the last element.                                               *)
LEMMA FrontIs ==
    ASSUME NEW p, Listed(p), Len(p) > 1
    PROVE  /\ Listed(Front(p)) /\ Len(Front(p)) = Len(p) - 1 /\ Len(Front(p)) \in Nat \ {0}
           /\ \A i \in 1..(Len(p) - 1) : Front(p)[i] = p[i]
<1> DEFINE n == Len(p)
<1>1. n \in Nat /\ n > 1
  BY ListedDomain
<1> HIDE DEF n
<1>2. n - 1 \in Nat \ {0} /\ n - 1 <= n
  BY <1>1
<1> QED
  BY <1>2, FirstOf DEF Front, n

(* A beginning is what it agrees with.                                     *)
LEMMA WholeOf ==
    ASSUME NEW p, Listed(p), NEW q, Listed(q), Len(p) <= Len(q), \A i \in 1..Len(p) : p[i] = q[i]
    PROVE  SubSeq(q, 1, Len(p)) = p
<1> DEFINE n == Len(p)
           t == SubSeq(q, 1, n)
<1>1. n \in Nat
  BY ListedDomain
<1>2. Listed(t) /\ Len(t) = n /\ \A i \in 1..n : t[i] = q[i]
  BY <1>1, FirstOf
<1> HIDE DEF t
<1>3. Len(t) = Len(p) /\ \A i \in 1..Len(t) : t[i] = p[i]
  BY <1>2
<1>4. t = p
  BY <1>2, <1>3, SameListed
<1> QED
  BY <1>4 DEF t

(* Grown: what is missing on the way to tokens.                            *)
LEMMA GrownNodes ==
    ASSUME NEW tree, Listed(tree), \A p \in Range(tree) : Node(Range(tree), p),
           NEW tokens, Listed(tokens)
    PROVE  LET t == Grown(tree, tokens)
           IN /\ Listed(t) /\ Range(tree) \subseteq Range(t) /\ (Len(tokens) >= 1 => tokens \in Range(t))
              /\ \A p \in Range(t) : Node(Range(t), p)
<1> DEFINE t == Grown(tree, tokens)
           n == Len(tokens)
<1>1. Listed(t) /\ Range(t) = Range(tree) \cup {SubSeq(tokens, 1, i) : i \in 1..n}
  BY GrownListed
<1> HIDE DEF t
<1>2. n \in Nat
  BY ListedDomain
<1>3. ASSUME n >= 1 PROVE tokens \in Range(t)
  <2>1. SubSeq(tokens, 1, n) = tokens
    BY <1>2, WholeOf
  <2>2. n \in 1..n
    BY <1>2, <1>3
  <2> HIDE DEF n
  <2> QED
    BY <1>1, <2>1, <2>2
<1>4. ASSUME NEW i \in 1..n PROVE Node(Range(t), SubSeq(tokens, 1, i))
  <2> DEFINE p == SubSeq(tokens, 1, i)
  <2>1. Listed(p) /\ Len(p) = i /\ \A j \in 1..i : p[j] = tokens[j]
    BY <1>2, FirstOf
  <2> HIDE DEF p
  <2>2. ASSUME i > 1 PROVE Front(p) \in Range(t)
    <3> DEFINE f == Front(p)
               u == SubSeq(tokens, 1, i - 1)
    <3>1. Listed(f) /\ Len(f) = i - 1 /\ \A j \in 1..(i - 1) : f[j] = p[j]
      BY <2>1, <2>2, FrontIs
    <3>2. i - 1 \in Nat /\ i - 1 <= n /\ i - 1 \in 1..n /\ 1..(i - 1) \subseteq 1..i
      BY <1>2, <2>2
    <3>3. Listed(u) /\ Len(u) = i - 1 /\ \A j \in 1..(i - 1) : u[j] = tokens[j]
      BY <3>2, FirstOf
    <3> HIDE DEF f, u
    <3>4. f = u
      <4>1. \A j \in 1..(i - 1) : f[j] = u[j]
        BY <2>1, <3>1, <3>2, <3>3
      <4> QED
        BY <3>1, <3>3, <4>1, SameListed
    <3> QED
      BY <1>1, <3>2, <3>4 DEF f, u
  <2> QED
    BY <2>1, <2>2 DEF Node, p
<1>5. \A p \in Range(tree) : Node(Range(t), p)
  BY <1>1 DEF Node
<1> QED
  BY <1>1, <1>3, <1>4, <1>5 DEF t

(* Pruned: nodes in use, and what leads to them, stay.                     *)
LEMMA PrunedNodes ==
    ASSUME NEW tree, Listed(tree), \A p \in Range(tree) : Node(Range(tree), p),
           NEW tokens, Listed(tokens), NEW used, used \subseteq Range(tree)
    PROVE  LET t == Pruned(tree, tokens, used)
           IN /\ Listed(t) /\ Range(t) \subseteq Range(tree) /\ used \subseteq Range(t)
              /\ \A p \in Range(t) : Node(Range(t), p)
<1> DEFINE t == Pruned(tree, tokens, used)
           n == Len(tokens)
           Why(p) == \/ p \in used
                     \/ \E q \in Range(tree) : /\ IsStrictPrefix(p, q)
                                               /\ q \in used \/ ~IsPrefix(q, tokens)
           keep == {i \in 1..n : Why(SubSeq(tokens, 1, i))}
           I == {i \in DOMAIN tree : IsPrefix(tree[i], tokens) => Len(tree[i]) \in keep}
<1>1. t = Picked(tree, I)
  BY DEF Pruned
<1>2. n \in Nat
  BY ListedDomain
<1> HIDE DEF Why, keep
<1>3. Listed(t) /\ Range(t) = {tree[i] : i \in I}
  <2>1. I \subseteq DOMAIN tree
    OBVIOUS
  <2> HIDE DEF I, t
  <2> QED
    BY <1>1, <2>1, PickedRange
<1> HIDE DEF t
<1>4. Range(t) = {p \in Range(tree) : IsPrefix(p, tokens) => Len(p) \in keep}
  BY <1>3 DEF Range
<1>5. \A p \in Range(tree) : Listed(p) /\ Len(p) \in Nat /\ Len(p) >= 1
  BY ListedDomain DEF Node
<1>6. ASSUME NEW p \in Range(tree), IsPrefix(p, tokens)
      PROVE  Len(p) \in 1..n /\ SubSeq(tokens, 1, Len(p)) = p
  <2>1. Listed(p) /\ Len(p) \in Nat /\ Len(p) >= 1
    BY <1>5
  <2>2. Len(p) <= n /\ \A i \in 1..Len(p) : p[i] = tokens[i]
    BY <1>6, <2>1, PrefixIs
  <2>3. SubSeq(tokens, 1, Len(p)) = p
    BY <2>1, <2>2, WholeOf
  <2> QED
    BY <1>2, <2>1, <2>2, <2>3
<1>7. \A p \in Range(tree) : p \in Range(t) <=> (IsPrefix(p, tokens) => Why(p))
  BY <1>4, <1>6 DEF keep
<1>8. used \subseteq Range(t)
  BY <1>7 DEF Why
<1>9. ASSUME NEW p \in Range(t) PROVE Node(Range(t), p)
  <2>1. p \in Range(tree) /\ Listed(p) /\ Len(p) \in Nat /\ Len(p) >= 1
    BY <1>4, <1>5
  <2>2. ASSUME Len(p) > 1 PROVE Front(p) \in Range(t)
    <3> DEFINE f == Front(p)
    <3>1. f \in Range(tree)
      BY <2>1, <2>2 DEF Node
    <3>2. Listed(f) /\ Len(f) = Len(p) - 1 /\ \A i \in 1..(Len(p) - 1) : f[i] = p[i]
      BY <2>1, <2>2, FrontIs
    <3> HIDE DEF f
    <3>3. IsPrefix(f, p) /\ f # p
      <4>1. Len(f) <= Len(p) /\ (\A i \in 1..Len(f) : f[i] = p[i]) /\ Len(f) # Len(p)
        BY <2>1, <3>2
      <4> QED
        BY <2>1, <3>2, <4>1, PrefixIs
    <3>4. CASE ~IsPrefix(p, tokens)
      <4>1. Why(f)
        BY <2>1, <3>3, <3>4 DEF Why, IsStrictPrefix
      <4> QED
        BY <1>7, <3>1, <4>1 DEF f
    <3>5. CASE IsPrefix(p, tokens)
      <4>1. Why(p)
        BY <1>7, <2>1, <3>5
      <4>2. CASE p \in used
        <5>1. Why(f)
          BY <2>1, <3>3, <4>2 DEF Why, IsStrictPrefix
        <5> QED
          BY <1>7, <3>1, <5>1 DEF f
      <4>3. CASE p \notin used
        <5>1. PICK q \in Range(tree) : IsStrictPrefix(p, q) /\ (q \in used \/ ~IsPrefix(q, tokens))
          BY <4>1, <4>3 DEF Why
        <5>2. Listed(q) /\ Len(q) \in Nat
          BY <1>5
        <5>3. Len(p) <= Len(q) /\ \A i \in 1..Len(p) : p[i] = q[i]
          BY <2>1, <5>1, <5>2, PrefixIs DEF IsStrictPrefix
        <5>4. Len(f) <= Len(q) /\ \A i \in 1..Len(f) : f[i] = q[i]
          BY <2>1, <3>2, <5>2, <5>3
        <5>5. Len(f) # Len(q)
          BY <2>1, <3>2, <5>2, <5>3
        <5>6. IsStrictPrefix(f, q)
          BY <3>2, <5>2, <5>4, <5>5, PrefixIs DEF IsStrictPrefix
        <5>7. Why(f)
          BY <5>1, <5>6 DEF Why
        <5> QED
          BY <1>7, <3>1, <5>7 DEF f
      <4> QED
        BY <4>2, <4>3
    <3> QED
      BY <3>4, <3>5
  <2> QED
    BY <2>1, <2>2 DEF Node
<1>10. Range(t) \subseteq Range(tree)
  BY <1>4
<1> QED
  BY <1>3, <1>8, <1>9, <1>10 DEF t
-----------------------------------------------------------------------------
(* Nodes that come and go.                                                 *)

(* Only the tree has changed.                                              *)
OnlyTree(d, e) ==
    /\ Fields \subseteq DOMAIN e
    /\ e.store = d.store /\ e.last_db_id = d.last_db_id /\ e.ctx = d.ctx
    /\ e.disused = d.disused /\ e.sec = d.sec

(* A changed tree that keeps leaves and retained messages.                 *)
LEMMA TreeChanged ==
    ASSUME NEW d, NEW H, NEW Z, Sound(d, H, Z), NEW e, OnlyTree(d, e), Listed(e.roots),
           Wooded(e.tree, e.subs, e.retained), Leafy(e.subs, Lists(d)),
           \A s \in Nat \ {0} : {p \in DOMAIN e.retained : e.retained[p] = s}
                                = {p \in DOMAIN d.retained : d.retained[p] = s}
    PROVE  Sound(e, H, Z) /\ Keeps(d, e)
<1>1. Queues(e) = Queues(d) /\ Lists(e) = Lists(d)
  BY DEF OnlyTree, Queues, Lists
<1>2. \A s \in Nat \ {0} : Refs(e, H)[s] = Refs(d, H)[s]
  BY <1>1 DEF Refs, Pinned
<1>3. Stocked(e.store, e.last_db_id, Refs(e, H), Z)
  <2>1. Stocked(d.store, d.last_db_id, Refs(d, H), Z)
    BY DEF Sound
  <2> QED
    BY <1>2, <2>1 DEF Stocked, OnlyTree
<1>4. Shaped(e)
  BY DEF OnlyTree, Shaped, Sound
<1>5. Sound(e, H, Z)
  BY <1>1, <1>3, <1>4 DEF Sound
<1>6. Keeps(d, e)
  BY SoundNat DEF OnlyTree, Keeps, SameClient
<1> QED
  BY <1>5, <1>6

(* New nodes have no subscriptions and no retained message.                *)
LEMMA AddNodesSound ==
    ASSUME NEW d, NEW H, NEW Z, Sound(d, H, Z), NEW tokens, Listed(tokens)
    PROVE  LET e == AddNodes(d, tokens)
           IN /\ Sound(e, H, Z) /\ Keeps(d, e) /\ e.roots = d.roots /\ e.ctx = d.ctx
              /\ e.store = d.store /\ DOMAIN d.subs \subseteq DOMAIN e.subs
              /\ Len(tokens) >= 1 => tokens \in DOMAIN e.subs
<1> DEFINE t == Grown(d.tree, tokens)
           new == Range(t) \ Range(d.tree)
           u == [p \in Range(t) |-> IF p \in new THEN <<>> ELSE d.subs[p]]
           r == [p \in Range(t) |-> IF p \in new THEN 0 ELSE d.retained[p]]
           e == [d EXCEPT !.tree = t, !.subs = u, !.retained = r]
<1>1. AddNodes(d, tokens) = e
  BY DEF AddNodes
<1>2. Wooded(d.tree, d.subs, d.retained) /\ Leafy(d.subs, Lists(d)) /\ Fields \subseteq DOMAIN d
  BY DEF Sound, Shaped
<1>3. /\ Listed(t) /\ Range(d.tree) \subseteq Range(t) /\ (Len(tokens) >= 1 => tokens \in Range(t))
      /\ \A p \in Range(t) : Node(Range(t), p)
  BY <1>2, GrownNodes DEF Wooded
<1> HIDE DEF t
<1>4. OnlyTree(d, e) /\ e.roots = d.roots /\ e.tree = t /\ e.subs = u /\ e.retained = r
  BY <1>2 DEF OnlyTree, Fields
<1> HIDE DEF e
<1>5. DOMAIN u = Range(t) /\ \A p \in Range(t) : u[p] = IF p \in DOMAIN d.subs THEN d.subs[p] ELSE <<>>
  BY <1>2, <1>3 DEF Wooded
<1>6. DOMAIN r = Range(t) /\ \A p \in Range(t) : r[p] = IF p \in DOMAIN d.retained THEN d.retained[p] ELSE 0
  BY <1>2, <1>3 DEF Wooded
<1>7. r \in [Range(t) -> Nat]
  BY <1>2, <1>3 DEF Wooded
<1> HIDE DEF u, r, new
<1>8. Wooded(e.tree, e.subs, e.retained)
  BY <1>3, <1>4, <1>5, <1>7 DEF Wooded
<1>9. Leafy(e.subs, Lists(d))
  <2> DEFINE L == Lists(d)
  <2>1. DOMAIN d.subs \subseteq DOMAIN u
    BY <1>2, <1>3, <1>5 DEF Wooded
  <2>2. ASSUME NEW p \in DOMAIN u
        PROVE  /\ Once(u[p]) /\ \A i \in DOMAIN u[p] : {"ctx", "qos"} \subseteq DOMAIN u[p][i]
               /\ \A i \in DOMAIN u[p] : u[p][i].ctx \in DOMAIN L
               /\ \A c \in DOMAIN L : p \in L[c] <=> \E i \in DOMAIN u[p] : u[p][i].ctx = c
    <3>1. CASE p \in DOMAIN d.subs
      BY <1>2, <1>5, <3>1 DEF Leafy
    <3>2. CASE p \notin DOMAIN d.subs
      <4>1. u[p] = <<>> /\ DOMAIN <<>> = {}
        BY <1>5, <3>2
      <4>2. Once(<<>>)
        BY <4>1, EmptyListed DEF Once
      <4>3. \A c \in DOMAIN L : p \notin L[c]
        BY <1>2, <3>2 DEF Leafy
      <4> QED
        BY <4>1, <4>2, <4>3
    <3> QED
      BY <3>1, <3>2
  <2>3. \A c \in DOMAIN L : L[c] \subseteq DOMAIN u /\ \A p \in L[c] : Proper(p)
    BY <1>2, <2>1 DEF Leafy
  <2> HIDE DEF L
  <2> QED
    BY <1>4, <2>2, <2>3 DEF Leafy, L
<1>10. ASSUME NEW s \in Nat \ {0}
       PROVE  {p \in DOMAIN r : r[p] = s} = {p \in DOMAIN d.retained : d.retained[p] = s}
  <2>1. DOMAIN d.retained \subseteq DOMAIN r
    BY <1>2, <1>3, <1>6 DEF Wooded
  <2> QED
    BY <1>6, <2>1
<1>11. Listed(e.roots)
  BY <1>4 DEF Sound, Shaped
<1>12. Sound(e, H, Z) /\ Keeps(d, e)
  BY <1>4, <1>8, <1>9, <1>10, <1>11, TreeChanged
<1>13. DOMAIN d.subs \subseteq DOMAIN e.subs /\ (Len(tokens) >= 1 => tokens \in DOMAIN e.subs)
  BY <1>2, <1>3, <1>4, <1>5 DEF Wooded
<1> QED
  BY <1>1, <1>4, <1>12, <1>13 DEF OnlyTree

(* Nodes go that have neither.                                             *)
LEMMA DropNodesSound ==
    ASSUME NEW d, NEW H, NEW Z, Sound(d, H, Z), NEW tokens, Listed(tokens)
    PROVE  LET e == DropNodes(d, tokens)
           IN /\ Sound(e, H, Z) /\ Keeps(d, e) /\ e.roots = d.roots /\ e.ctx = d.ctx
              /\ e.store = d.store /\ DOMAIN e = DOMAIN d
<1> DEFINE used == {p \in Range(d.tree) : d.subs[p] # <<>> \/ d.retained[p] # 0}
           t == Pruned(d.tree, tokens, used)
           u == [p \in Range(t) |-> d.subs[p]]
           r == [p \in Range(t) |-> d.retained[p]]
           e == [d EXCEPT !.tree = t, !.subs = u, !.retained = r]
<1>1. DropNodes(d, tokens) = e
  BY DEF DropNodes
<1>2. Wooded(d.tree, d.subs, d.retained) /\ Leafy(d.subs, Lists(d)) /\ Fields \subseteq DOMAIN d
  BY DEF Sound, Shaped
<1>3. /\ Listed(t) /\ Range(t) \subseteq Range(d.tree) /\ used \subseteq Range(t)
      /\ \A p \in Range(t) : Node(Range(t), p)
  <2>1. used \subseteq Range(d.tree)
    OBVIOUS
  <2> HIDE DEF used
  <2> QED
    BY <1>2, <2>1, PrunedNodes DEF Wooded
<1> HIDE DEF t
<1>4. OnlyTree(d, e) /\ e.roots = d.roots /\ e.tree = t /\ e.subs = u /\ e.retained = r /\ DOMAIN e = DOMAIN d
  BY <1>2 DEF OnlyTree, Fields
<1> HIDE DEF e
<1>5. DOMAIN u = Range(t) /\ \A p \in Range(t) : u[p] = d.subs[p] /\ p \in DOMAIN d.subs
  BY <1>2, <1>3 DEF Wooded
<1>6. DOMAIN r = Range(t) /\ \A p \in Range(t) : r[p] = d.retained[p] /\ p \in DOMAIN d.retained
  BY <1>2, <1>3 DEF Wooded
<1>7. r \in [Range(t) -> Nat]
  BY <1>2, <1>3 DEF Wooded
<1> HIDE DEF u, r
<1>8. Wooded(e.tree, e.subs, e.retained)
  BY <1>3, <1>4, <1>5, <1>7 DEF Wooded
<1>9. Leafy(e.subs, Lists(d))
  <2> DEFINE L == Lists(d)
  <2>1. \A c \in DOMAIN L : L[c] \subseteq DOMAIN u
    <3> SUFFICES ASSUME NEW c \in DOMAIN L, NEW p \in L[c] PROVE p \in DOMAIN u
      OBVIOUS
    <3>1. p \in DOMAIN d.subs /\ \E i \in DOMAIN d.subs[p] : TRUE
      BY <1>2 DEF Leafy
    <3>2. d.subs[p] # <<>>
      BY <3>1
    <3> QED
      BY <1>2, <1>3, <1>5, <3>1, <3>2 DEF Wooded
  <2> HIDE DEF L
  <2> QED
    BY <1>2, <1>4, <1>5, <2>1 DEF Leafy, L
<1>10. ASSUME NEW s \in Nat \ {0}
       PROVE  {p \in DOMAIN r : r[p] = s} = {p \in DOMAIN d.retained : d.retained[p] = s}
  <2>1. ASSUME NEW p \in DOMAIN d.retained, d.retained[p] = s PROVE p \in DOMAIN r
    BY <1>2, <1>3, <1>6, <2>1 DEF Wooded
  <2> QED
    BY <1>6, <2>1
<1>11. Listed(e.roots)
  BY <1>4 DEF Sound, Shaped
<1>12. Sound(e, H, Z) /\ Keeps(d, e)
  BY <1>4, <1>8, <1>9, <1>10, <1>11, TreeChanged
<1> QED
  BY <1>1, <1>4, <1>12 DEF OnlyTree
-----------------------------------------------------------------------------
(* The distribution of a message: mqtt3_db_messages_queue.                 *)

(* The levels of a name.                                                   *)
LEMMA TokensListed ==
    ASSUME NEW topic, Topic(topic)
    PROVE  Topic(_sub_topic_tokenise(topic)) /\ Proper(_sub_topic_tokenise(topic))
<1>1. Len(topic) \in Nat
  BY ListedDomain DEF Topic
<1>2. Listed(<<"">>) /\ Len(<<"">>) = 1
  <2>1. <<"">> \in Seq({""})
    OBVIOUS
  <2> QED
    BY <2>1, SeqListed
<1> DEFINE u == <<"">>
<1> HIDE DEF u
<1>3. Listed(u \o topic) /\ Len(u \o topic) = Len(u) + Len(topic) /\ Len(u) = 1
  BY <1>2, ConcatListed DEF Topic, u
<1>4. Topic(u \o topic)
  BY <1>1, <1>3 DEF Topic
<1>5. Proper(u \o topic)
  <2> DEFINE t == u \o topic
  <2>1. Len(t) = 1 + Len(topic) /\ Len(topic) >= 1
    BY <1>3 DEF Topic
  <2> HIDE DEF t
  <2>2. Len(t) > 1
    BY <1>1, <2>1
  <2>3. Proper(t)
    BY <2>2 DEF Proper
  <2> QED
    BY <2>3 DEF t
<1>6. topic[1] \in Dollar => Proper(topic)
  BY DEF Dollar, Proper
<1> QED
  BY <1>4, <1>5, <1>6 DEF _sub_topic_tokenise, u

(* Both searches find nodes of the tree.                                   *)
LEMMA SearchListed ==
    ASSUME NEW tree, Listed(tree), NEW tokens
    PROVE  /\ Listed(_sub_search(tree, tokens)) /\ Range(_sub_search(tree, tokens)) \subseteq Range(tree)
           /\ Listed(_retain_search(tree, tokens)) /\ Range(_retain_search(tree, tokens)) \subseteq Range(tree)
<1>1. ASSUME NEW N, N \subseteq Range(tree) PROVE Listed(Walk(tree, N)) /\ Range(Walk(tree, N)) = N
  <2>1. IsFiniteSet(N)
    BY <1>1, RangeFinite, FS_Subset
  <2> QED
    BY <2>1, WalkListed
<1>2. \E N : N \subseteq Range(tree) /\ _sub_search(tree, tokens) = Walk(tree, N)
  BY DEF _sub_search
<1>3. \E N : N \subseteq Range(tree) /\ _retain_search(tree, tokens) = Walk(tree, N)
  BY DEF _retain_search
<1> QED
  BY <1>1, <1>2, <1>3

(* One turn of the distribution of a message.                              *)
Process(c, d, p) == _subs_process(d, p, c.source_id, c.topic, c.qos, c.retain, c.s)
(* The distribution of a message over the nodes found.                     *)
RouteAll(d, nodes, source_id, topic, qos, retain, s) ==
    FoldLeft(LAMBDA a, p : _subs_process(a, p, source_id, topic, qos, retain, s), d, nodes)
(* The induction over the nodes.                                           *)
Routing == INSTANCE FoldInduction WITH Op <- Process, Inv <- Led

(* The message is offered at every node found.                             *)
LEMMA SearchSound ==
    ASSUME NEW d, NEW H, NEW Z, Sound(d, H, Z), NEW s \in Nat \ {0}, H[s] > 0,
           NEW tokens, NEW source_id, NEW topic, NEW qos, NEW retain
    PROVE  Goes(d, RouteAll(d, _sub_search(d.tree, tokens), source_id, topic, qos, retain, s), H, Z)
<1> DEFINE nodes == _sub_search(d.tree, tokens)
           n == Len(nodes)
           c == [d |-> d, H |-> H, Z |-> Z, source_id |-> source_id, topic |-> topic, qos |-> qos,
                 retain |-> retain, s |-> s]
<1>1. Listed(nodes) /\ Range(nodes) \subseteq Range(d.tree)
  BY SearchListed DEF Sound, Wooded
<1> HIDE DEF nodes
<1>2. n \in Nat /\ DOMAIN nodes = 1..n /\ \A i \in 1..n : nodes[i] \in Range(d.tree)
  BY <1>1, ListedDomain
<1>3. Led(c, 0, d)
  BY GoesSelf DEF Led
<1>4. ASSUME NEW k \in 0..(n - 1), NEW a, Led(c, k, a)
      PROVE  Led(c, k + 1, Process(c, a, nodes[k + 1]))
  <2> DEFINE p == nodes[k + 1]
  <2>1. Goes(d, a, H, Z)
    BY <1>4 DEF Led
  <2>2. k + 1 \in 1..n
    BY <1>2
  <2>3. p \in Range(a.tree) /\ Sound(a, H, Z)
    BY <1>2, <2>1, <2>2 DEF Goes, Stands
  <2> HIDE DEF p
  <2>4. Goes(a, Process(c, a, p), H, Z)
    BY <2>3, ProcessSound DEF Process
  <2> HIDE DEF c
  <2>5. Goes(d, Process(c, a, p), H, Z)
    BY <2>1, <2>4, GoesOn
  <2> QED
    BY <2>5 DEF Led, c, p
<1>5. Led(c, n, Routing!Left(c, d, nodes))
  <2>1. \A k \in 0..(n - 1) : \A a : Led(c, k, a) => Led(c, k + 1, Process(c, a, nodes[k + 1]))
    BY <1>4
  <2> HIDE DEF c, n
  <2> QED
    BY <1>2, <1>3, <2>1, Routing!LeftInduction
<1>6. Routing!Left(c, d, nodes) = RouteAll(d, nodes, source_id, topic, qos, retain, s)
  BY DEF RouteAll, Routing!Left, Process, FoldLeft, MapThenFoldSet, Max
<1>7. Goes(d, RouteAll(d, nodes, source_id, topic, qos, retain, s), H, Z)
  BY <1>5, <1>6 DEF Led
<1> QED
  BY <1>7 DEF nodes

(* mqtt3_db_messages_queue: a message is given to everybody who wants it,  *)
(* and has then a reference, or is gone.                                   *)
LEMMA QueueSound ==
    ASSUME NEW d, NEW H, NEW Z, Sound(d, H, Z), NEW s \in DOMAIN d.store,
           NEW source_id, NEW topic, Listed(topic), NEW qos, NEW retain
    PROVE  LET e == mqtt3_db_messages_queue(d, source_id, topic, qos, retain, s)
           IN Sound(e, H, Z \ {s}) /\ Keeps(d, e) /\ e.roots = d.roots
<1> DEFINE tokens == _sub_topic_tokenise(topic)
           known == tokens[1] \in Range(d.roots)
           a == Referenced(d, s)
           G == Plus(H, s)
           Y == Z \ {s}
           b == IF known /\ retain THEN AddNodes(a, tokens) ELSE a
           f == IF known THEN RouteAll(b, _sub_search(b.tree, tokens), source_id, topic, qos, retain, s)
                ELSE b
           e == mosquitto__db_msg_store_deref(f, s)
<1>1. e = mqtt3_db_messages_queue(d, source_id, topic, qos, retain, s)
  BY DEF mqtt3_db_messages_queue, RouteAll
<1>2. Listed(tokens)
  <2>1. Listed(<<"">>)
    BY SeqListed, <<"">> \in Seq({""})
  <2>2. Listed(<<"">> \o topic)
    BY <2>1, ConcatListed
  <2> QED
    BY <2>2 DEF _sub_topic_tokenise
<1>3. /\ Fields \subseteq DOMAIN d /\ d.last_db_id \in Nat /\ H \in [Nat -> Nat] /\ s \in Nat \ {0}
  BY SoundNat DEF Sound, Shaped, Stocked
<1>4. G \in [Nat -> Nat] /\ G[s] > 0
  <2>1. H[s] \in Nat
    BY <1>3
  <2>2. G \in [Nat -> Nat] /\ G[s] = H[s] + 1
    BY <1>3, PlusIs
  <2> HIDE DEF G
  <2> QED
    BY <2>1, <2>2
<1>5. Sound(a, G, Y) /\ OnlyStore(d, a)
  BY ReferencedSound
<1>6. Keeps(d, a) /\ a.roots = d.roots
  BY <1>3, <1>5, OnlyStoreKeeps DEF Stands
<1> HIDE DEF a, G, tokens, known
<1>7. Sound(b, G, Y) /\ Keeps(d, b) /\ b.roots = d.roots
  <2>1. CASE known /\ retain
    <3> DEFINE b1 == AddNodes(a, tokens)
    <3>1. Sound(b1, G, Y) /\ Keeps(a, b1) /\ b1.roots = a.roots
      BY <1>2, <1>5, AddNodesSound
    <3>2. b = b1
      BY <2>1
    <3> HIDE DEF b1, b
    <3>3. a.last_db_id \in Nat /\ b1.last_db_id \in Nat
      BY <1>5, <3>1, SoundNat
    <3> QED
      BY <1>3, <1>6, <3>1, <3>2, <3>3, KeepsTrans
  <2>2. CASE ~(known /\ retain)
    BY <1>5, <1>6, <2>2
  <2> QED
    BY <2>1, <2>2
<1> HIDE DEF b
<1>8. Sound(f, G, Y) /\ Keeps(d, f) /\ f.roots = d.roots
  <2>1. CASE known
    <3> DEFINE f1 == RouteAll(b, _sub_search(b.tree, tokens), source_id, topic, qos, retain, s)
    <3>1. Goes(b, f1, G, Y)
      BY <1>3, <1>4, <1>7, SearchSound
    <3>2. f = f1
      BY <2>1
    <3> HIDE DEF f1, f
    <3>3. b.last_db_id \in Nat /\ f1.last_db_id \in Nat
      BY <1>7, <3>1, SoundNat DEF Goes
    <3>4. Keeps(d, f1)
      BY <1>3, <1>7, <3>1, <3>3, KeepsTrans DEF Goes
    <3> QED
      BY <1>7, <3>1, <3>2, <3>4 DEF Goes, Stands
  <2>2. CASE ~known
    BY <1>7, <2>2
  <2> QED
    BY <2>1, <2>2
<1> HIDE DEF f
<1>9. Sound(e, H, Y) /\ OnlyStore(f, e)
  BY <1>3, <1>8, DerefSound DEF G
<1>10. Keeps(f, e) /\ e.roots = f.roots
  BY <1>8, <1>9, SoundNat, OnlyStoreKeeps DEF Sound, Shaped, Stands
<1> HIDE DEF e
<1>11. Keeps(d, e)
  BY <1>3, <1>8, <1>9, <1>10, SoundNat, KeepsTrans
<1> QED
  BY <1>1, <1>8, <1>9, <1>10, <1>11

(* mqtt3_db_messages_easy_queue                                            *)
LEMMA EasyQueueSound ==
    ASSUME NEW d, NEW H, NEW Z, Sound(d, H, Z), NEW source_id, NEW topic, Topic(topic),
           NEW qos, NEW payload, NEW retain
    PROVE  LET e == mqtt3_db_messages_easy_queue(d, source_id, topic, qos, payload, retain)
           IN Sound(e, H, Z) /\ Keeps(d, e) /\ e.roots = d.roots
<1> DEFINE s == d.last_db_id + 1
           a == mqtt3_db_message_store(d, source_id, 0, topic, qos, payload, retain)
           e == mqtt3_db_messages_queue(a, source_id, topic, qos, retain, s)
<1>1. e = mqtt3_db_messages_easy_queue(d, source_id, topic, qos, payload, retain)
  BY DEF mqtt3_db_messages_easy_queue
<1>2. /\ Sound(a, H, Z \cup {s}) /\ Keeps(d, a) /\ Stands(d, a) /\ s \in DOMAIN a.store
  BY StoreSound DEF Topic
<1> HIDE DEF a, s
<1>3. Sound(e, H, (Z \cup {s}) \ {s}) /\ Keeps(a, e) /\ e.roots = a.roots
  BY <1>2, QueueSound DEF Topic
<1> HIDE DEF e
<1>4. Sound(e, H, Z)
  BY <1>3, SoundMore
<1>5. Keeps(d, e)
  BY <1>2, <1>3, <1>4, SoundNat, KeepsTrans
<1> QED
  BY <1>1, <1>2, <1>3, <1>4, <1>5 DEF Stands
-----------------------------------------------------------------------------
(* mqtt3_db_message_delete, _update and _release walk along a queue.       *)

(* A message whose state moves on.                                         *)
LEMMA ReleasedIs ==
    ASSUME NEW m, Message(m), NEW inward, inward # "publish_qos0", inward # "queued"
    PROVE  /\ Message(Released(m, inward)) /\ Released(m, inward).store = m.store
           /\ Released(m, inward).qos = m.qos /\ Released(m, inward).state # "queued"
<1>1. Publishing(m.qos) = "publish_qos0" => ~(m.qos > 0)
  <2>1. CASE m.qos = 0
    BY <2>1
  <2>2. CASE m.qos # 0
    BY <2>2 DEF Publishing
  <2> QED
    BY <2>1, <2>2
<1>4. Publishing(m.qos) # "queued"
  BY DEF Publishing
<1> HIDE DEF Publishing
<1> DEFINE st == IF m.dir = "out" THEN Publishing(m.qos) ELSE inward
<1>2. (st = "publish_qos0" => ~(m.qos > 0)) /\ st # "queued"
  BY <1>1, <1>4
<1> HIDE DEF st
<1>3. \/ Released(m, inward) = m /\ m.state # "queued"
      \/ Released(m, inward) = [m EXCEPT !.state = st]
  BY DEF Released, st
<1> QED
  BY <1>2, <1>3 DEF Message, MsgFields

(* _message_remove                                                         *)
LEMMA MessageRemoved ==
    ASSUME NEW msgs, Queue(msgs), NEW i \in 1..Len(msgs)
    PROVE  LET t == _message_remove(msgs, i)
           IN /\ Queue(t) /\ Len(t) = Len(msgs) - 1
              /\ \A s : Times(Stores(msgs), s) = Times(Stores(t), s) + (IF msgs[i].store = s THEN 1 ELSE 0)
              /\ Times(Mark(msgs), 1) = Times(Mark(t), 1) + (IF msgs[i].qos > 0 THEN 1 ELSE 0)
              /\ Flows(msgs) => Flows(t)
<1> DEFINE rest == RemoveAt(msgs, i)
           Head1(k) == \A j \in 1..k : rest[j].state = "queued"
           t == _message_remove(msgs, i)
<1>1. /\ Queue(rest) /\ Listed(rest) /\ Len(rest) = Len(msgs) - 1
      /\ \A s : Times(Stores(msgs), s) = Times(Stores(rest), s) + (IF msgs[i].store = s THEN 1 ELSE 0)
      /\ Times(Mark(msgs), 1) = Times(Mark(rest), 1) + (IF msgs[i].qos > 0 THEN 1 ELSE 0)
  BY QueueRemove, RemoveListed DEF Queue
<1>8. \A k \in DOMAIN rest : \E j \in DOMAIN msgs : msgs[j] = rest[k]
  <2>1. Range(rest) \subseteq Range(msgs)
    BY RemoveListed DEF Queue
  <2> QED
    BY <2>1 DEF Range
<1>2. t = [k \in DOMAIN rest |-> IF max_inflight > 0 /\ Head1(k) THEN Released(rest[k], "send_pubrec")
                                 ELSE rest[k]]
  BY DEF _message_remove
<1> HIDE DEF rest, t
<1>3. DOMAIN t = DOMAIN rest /\ t = [k \in DOMAIN t |-> t[k]]
  BY <1>2
<1>4. ASSUME NEW k \in DOMAIN rest
      PROVE  Message(t[k]) /\ t[k].store = rest[k].store /\ t[k].qos = rest[k].qos
  <2>1. Message(rest[k])
    BY <1>1 DEF Queue
  <2>2. t[k] = rest[k] \/ t[k] = Released(rest[k], "send_pubrec")
    BY <1>2
  <2> QED
    BY <2>1, <2>2, ReleasedIs
<1>5. Queue(t) /\ Stores(t) = Stores(rest) /\ Mark(t) = Mark(rest)
  BY <1>1, <1>3, <1>4, QueueSame
<1>6. Len(t) = Len(rest)
  <2>1. DOMAIN t = 1..Len(rest) /\ Len(rest) \in Nat
    BY <1>1, <1>3, ListedDomain
  <2> QED
    BY <1>3, <2>1, FunctionListed
<1>7. ASSUME Flows(msgs) PROVE Flows(t)
  <2> SUFFICES ASSUME NEW k \in DOMAIN t, t[k].state = "queued" PROVE max_inflight # 0 /\ k # 1
    BY DEF Flows
  <2>1. Message(rest[k]) /\ k \in DOMAIN rest
    BY <1>1, <1>3 DEF Queue
  <2>2. t[k] = (IF max_inflight > 0 /\ Head1(k) THEN Released(rest[k], "send_pubrec") ELSE rest[k])
    BY <1>2, <2>1
  <2>3. ~(max_inflight > 0 /\ Head1(k)) /\ t[k] = rest[k]
    BY <2>1, <2>2, ReleasedIs
  <2>4. rest[k].state = "queued"
    BY <2>3
  <2>5. max_inflight # 0
    <3>1. PICK j \in DOMAIN msgs : msgs[j] = rest[k]
      BY <1>8, <2>1
    <3> QED
      BY <1>7, <2>4, <3>1 DEF Flows
  <2>6. k # 1
    <3>1. max_inflight > 0
      BY <2>5, DbAssumption
    <3>2. k = 1 => Head1(k)
      BY <2>4
    <3> QED
      BY <2>3, <3>1, <3>2
  <2> QED
    BY <2>5, <2>6
<1> QED
  BY <1>1, <1>5, <1>6, <1>7 DEF t
-----------------------------------------------------------------------------
(* Scan, step by step.                                                     *)
ScanOn(c, acc, k) == ScanStep(c.mid, c.dir, c.back, acc)
(* What a walk along a queue has done to it.                               *)
Scanned(msgs, acc) ==
    /\ Queue(acc.l) /\ Listed(acc.gone) /\ Listed(acc.admitted)
    /\ \A i \in DOMAIN acc.gone : acc.gone[i] \in Nat \ {0}
    /\ \A s : Times(Stores(msgs), s) = Times(Stores(acc.l), s) + Times(acc.gone, s)
    /\ Flows(msgs) => Flows(acc.l)
(* ... after some messages.                                                *)
Scanning(c, k, acc) ==
    /\ Scanned(c.msgs, acc)
    /\ acc.pos \in Nat \ {0}
    /\ acc.stop \/ Len(acc.l) - acc.pos + 1 = Len(c.msgs) - k
(* The induction over the queue.                                           *)
Scn == INSTANCE FoldInduction WITH Op <- ScanOn, Inv <- Scanning

(* One message more.                                                       *)
LEMMA ScanStepped ==
    ASSUME NEW c, Queue(c.msgs), NEW k \in 0..(Len(c.msgs) - 1), NEW acc, Scanning(c, k, acc), NEW x
    PROVE  Scanning(c, k + 1, ScanOn(c, acc, x))
<1> DEFINE n == Len(c.msgs)
           i == acc.index + 1
           p == acc.pos
           m == acc.l[p]
           turn == i <= max_inflight /\ m.state = "queued"
           l1 == IF turn THEN [acc.l EXCEPT ![acc.pos] = Released(@, "wait_for_pubrel")] ELSE acc.l
           adm == IF turn /\ m.dir = "in" THEN Append(acc.admitted, m.mid) ELSE acc.admitted
           r1 == [l |-> _message_remove(l1, acc.pos), pos |-> acc.pos, index |-> i - c.back,
                  gone |-> Append(acc.gone, m.store), admitted |-> adm,
                  stop |-> i - c.back > max_inflight]
           r2 == [l |-> l1, pos |-> acc.pos + 1, index |-> i, gone |-> acc.gone,
                  admitted |-> adm, stop |-> i > max_inflight /\ acc.gone # <<>>]
<1>1. CASE acc.stop
  <2>1. ScanOn(c, acc, x) = acc
    BY <1>1 DEF ScanOn, ScanStep
  <2> QED
    BY <1>1, <2>1 DEF Scanning
<1>2. CASE ~acc.stop
  <2>1. ScanOn(c, acc, x) = IF m.mid = c.mid /\ m.dir = c.dir THEN r1 ELSE r2
    BY <1>2 DEF ScanOn, ScanStep
  <2>2. n \in Nat /\ p \in Nat \ {0} /\ Len(acc.l) - p + 1 = n - k /\ Len(acc.l) \in Nat /\ k \in Nat /\ k + 1 <= n
    <3>1. n \in Nat
      BY ListedDomain DEF Queue
    <3>2. Len(acc.l) \in Nat
      BY ListedDomain DEF Queue, Scanning, Scanned
    <3> QED
      BY <1>2, <3>1, <3>2 DEF Scanning
  <2>3. p \in 1..Len(acc.l) /\ p \in DOMAIN acc.l
    <3>1. p \in 1..Len(acc.l)
      <4> HIDE DEF n, p
      <4> QED
        BY <2>2
    <3> QED
      BY <3>1, ListedDomain DEF Scanning, Scanned, Queue
  <2>4. Scanned(c.msgs, acc) /\ Queue(acc.l) /\ Listed(acc.admitted) /\ Listed(acc.gone) /\ Message(m)
    BY <2>3 DEF Scanning, Scanned, Queue
  <2>5. Listed(adm)
    BY <2>4, AppendListed
  <2> HIDE DEF adm
  <2>6. /\ Queue(l1) /\ Stores(l1) = Stores(acc.l) /\ Mark(l1) = Mark(acc.l) /\ Len(l1) = Len(acc.l)
        /\ l1[p].store = m.store /\ (Flows(acc.l) => Flows(l1))
    <3>1. CASE turn
      <4> DEFINE l2 == [acc.l EXCEPT ![p] = Released(m, "wait_for_pubrel")]
      <4>1. l1 = l2
        BY <3>1
      <4>2. DOMAIN l2 = DOMAIN acc.l /\ l2 = [j \in DOMAIN l2 |-> l2[j]]
            /\ l2[p] = Released(m, "wait_for_pubrel") /\ \A j \in DOMAIN acc.l \ {p} : l2[j] = acc.l[j]
        BY <2>3
      <4> HIDE DEF l1, l2, turn
      <4>3. \A j \in DOMAIN acc.l : Message(l2[j]) /\ l2[j].store = acc.l[j].store /\ l2[j].qos = acc.l[j].qos
        <5> SUFFICES ASSUME NEW j \in DOMAIN acc.l
                     PROVE  Message(l2[j]) /\ l2[j].store = acc.l[j].store /\ l2[j].qos = acc.l[j].qos
          OBVIOUS
        <5>1. Message(acc.l[j])
          BY <2>4 DEF Queue
        <5>2. CASE j = p
          BY <2>4, <4>2, <5>2, ReleasedIs
        <5>3. CASE j # p
          BY <4>2, <5>1, <5>3
        <5> QED
          BY <5>2, <5>3
      <4> HIDE DEF m
      <4>4. Queue(l2) /\ Stores(l2) = Stores(acc.l) /\ Mark(l2) = Mark(acc.l)
        BY <2>4, <4>2, <4>3, QueueSame
      <4>5. Len(l2) = Len(acc.l)
        <5>1. DOMAIN l2 = 1..Len(acc.l)
          BY <2>4, <4>2, ListedDomain DEF Queue
        <5> QED
          BY <2>2, <4>2, <5>1, FunctionListed
      <4>6. Flows(acc.l) => Flows(l2)
        <5>1. l2[p].state # "queued"
          BY <2>4, <4>2, ReleasedIs
        <5> QED
          BY <4>2, <5>1 DEF Flows
      <4> QED
        BY <2>3, <4>1, <4>3, <4>4, <4>5, <4>6 DEF m
    <3>2. CASE ~turn
      BY <2>4, <3>2
    <3> QED
      BY <3>1, <3>2
  <2> HIDE DEF l1, turn
  <2>7. CASE m.mid = c.mid /\ m.dir = c.dir
    <3> DEFINE l3 == _message_remove(l1, p)
               g3 == Append(acc.gone, m.store)
    <3>1. ScanOn(c, acc, x) = r1
      BY <2>1, <2>7
    <3>2. r1.l = l3 /\ r1.pos = p /\ r1.gone = g3 /\ r1.admitted = adm
      OBVIOUS
    <3> HIDE DEF r1
    <3>3. /\ Queue(l3) /\ Len(l3) = Len(l1) - 1
          /\ \A s : Times(Stores(l1), s) = Times(Stores(l3), s) + (IF l1[p].store = s THEN 1 ELSE 0)
          /\ Flows(l1) => Flows(l3)
      BY <2>3, <2>6, MessageRemoved
    <3>4. /\ Listed(g3) /\ \A s : Times(g3, s) = Times(acc.gone, s) + (IF m.store = s THEN 1 ELSE 0)
      BY <2>4, AppendListed, TimesAppend
    <3>5. \A j \in DOMAIN g3 : g3[j] \in Nat \ {0}
      <4>1. m.store \in Nat \ {0}
        BY <2>4 DEF Message
      <4>2. Range(g3) = Range(acc.gone) \cup {m.store}
        BY <2>4, AppendListed
      <4>3. \A y \in Range(acc.gone) : y \in Nat \ {0}
        BY <2>4 DEF Scanned, Range
      <4> HIDE DEF g3
      <4> QED
        BY <4>1, <4>2, <4>3 DEF Range
    <3> HIDE DEF g3, l3
    <3>6. ASSUME NEW s PROVE Times(Stores(c.msgs), s) = Times(Stores(l3), s) + Times(g3, s)
      <4>1. Times(Stores(c.msgs), s) = Times(Stores(acc.l), s) + Times(acc.gone, s)
        BY <2>4 DEF Scanned
      <4>2. Times(Stores(acc.l), s) = Times(Stores(l3), s) + (IF m.store = s THEN 1 ELSE 0)
        BY <2>6, <3>3
      <4>3. Times(g3, s) = Times(acc.gone, s) + (IF m.store = s THEN 1 ELSE 0)
        BY <3>4
      <4>4. Times(Stores(l3), s) \in Nat /\ Times(acc.gone, s) \in Nat
        BY <2>4, <3>3, StoresListed, TimesNat DEF Queue
      <4> HIDE DEF m
      <4> QED
        BY <4>1, <4>2, <4>3, <4>4
    <3>7. Scanned(c.msgs, r1)
      BY <2>4, <2>5, <2>6, <3>2, <3>3, <3>4, <3>5, <3>6 DEF Scanned
    <3>8. Len(l3) - p + 1 = n - (k + 1)
      <4> HIDE DEF n, p
      <4> QED
        BY <2>2, <2>6, <3>3
    <3> QED
      BY <2>2, <3>1, <3>2, <3>7, <3>8 DEF Scanning
  <2>8. CASE ~(m.mid = c.mid /\ m.dir = c.dir)
    <3>1. ScanOn(c, acc, x) = r2
      BY <2>1, <2>8
    <3>2. r2.l = l1 /\ r2.pos = p + 1 /\ r2.gone = acc.gone /\ r2.admitted = adm
      OBVIOUS
    <3> HIDE DEF r2
    <3>3. Scanned(c.msgs, r2)
      BY <2>4, <2>5, <2>6, <3>2 DEF Scanned
    <3>4. Len(l1) - (p + 1) + 1 = n - (k + 1) /\ p + 1 \in Nat \ {0}
      <4> HIDE DEF n, p
      <4> QED
        BY <2>2, <2>6
    <3> QED
      BY <3>1, <3>2, <3>3, <3>4 DEF Scanning
  <2> QED
    BY <2>7, <2>8
<1> QED
  BY <1>1, <1>2

(* ... and after all.                                                      *)
LEMMA ScanIs ==
    ASSUME NEW msgs, Queue(msgs), NEW mid, NEW dir, NEW back
    PROVE  Scanned(msgs, Scan(msgs, mid, dir, back))
<1> DEFINE c == [msgs |-> msgs, mid |-> mid, dir |-> dir, back |-> back]
           n == Len(msgs)
           seq == [k \in 1..n |-> k]
           base == [l |-> msgs, pos |-> 1, index |-> 0, gone |-> <<>>, admitted |-> <<>>, stop |-> FALSE]
<1>1. n \in Nat /\ DOMAIN seq = 1..n /\ Queue(c.msgs) /\ Len(c.msgs) = n
  BY ListedDomain DEF Queue
<1>2. Scanning(c, 0, base)
  <2>1. /\ base.l = msgs /\ base.gone = <<>> /\ base.admitted = <<>> /\ base.pos = 1
        /\ c.msgs = msgs
    OBVIOUS
  <2> HIDE DEF base, c
  <2>2. \A s : Times(Stores(msgs), s) \in Nat
    BY StoresListed, TimesNat DEF Queue
  <2>3. \A s : Times(Stores(msgs), s) = Times(Stores(base.l), s) + Times(base.gone, s)
    BY <2>1, <2>2, TimesEmpty
  <2>4. \A i \in DOMAIN base.gone : base.gone[i] \in Nat \ {0}
    BY <2>1
  <2>5. Scanned(msgs, base)
    BY <2>1, <2>3, <2>4, EmptyListed DEF Scanned
  <2>6. Len(base.l) - base.pos + 1 = n - 0
    BY <1>1, <2>1
  <2> QED
    BY <2>1, <2>5, <2>6 DEF Scanning
<1>3. \A k \in 0..(n - 1) : \A a : Scanning(c, k, a) => Scanning(c, k + 1, ScanOn(c, a, seq[k + 1]))
  <2> HIDE DEF c, n, seq
  <2> QED
    BY <1>1, ScanStepped
<1>4. Scanning(c, n, Scn!Left(c, base, seq))
  <2> HIDE DEF c, n, seq, base
  <2> QED
    BY <1>1, <1>2, <1>3, Scn!LeftInduction
<1>5. Scn!Left(c, base, seq) = Scan(msgs, mid, dir, back)
  BY DEF Scn!Left, ScanOn, Scan, FoldLeft, MapThenFoldSet, Max
<1> QED
  BY <1>4, <1>5 DEF Scanning
-----------------------------------------------------------------------------
(* ... and put it back.                                                    *)

(* The marks add up to the messages with QoS 1 or 2.                       *)
LEMMA CountedIs ==
    ASSUME NEW msgs, Listed(msgs)
    PROVE  /\ Cardinality({k \in DOMAIN msgs : msgs[k].qos > 0}) = Times(Mark(msgs), 1)
           /\ Times(Mark(msgs), 1) \in Nat
<1> DEFINE m == Mark(msgs)
<1>1. /\ Listed(m) /\ DOMAIN m = DOMAIN msgs
      /\ \A i \in DOMAIN msgs : m[i] = IF msgs[i].qos > 0 THEN 1 ELSE 0
  BY MarkListed
<1> HIDE DEF m
<1>2. {k \in DOMAIN msgs : msgs[k].qos > 0} = {k \in DOMAIN m : m[k] = 1}
  <2>1. \A k \in DOMAIN msgs : msgs[k].qos > 0 <=> m[k] = 1
    <3> SUFFICES ASSUME NEW k \in DOMAIN msgs PROVE msgs[k].qos > 0 <=> m[k] = 1
      OBVIOUS
    <3>1. CASE msgs[k].qos > 0
      BY <1>1, <3>1
    <3>2. CASE ~(msgs[k].qos > 0)
      BY <1>1, <3>2
    <3> QED
      BY <3>1, <3>2
  <2> QED
    BY <1>1, <2>1
<1>3. Times(m, 1) \in Nat
  BY <1>1, TimesNat
<1>4. Cardinality({k \in DOMAIN msgs : msgs[k].qos > 0}) = Times(m, 1)
  BY <1>2 DEF Times
<1> QED
  BY <1>3, <1>4 DEF m

(* Messages leave the queue of a context, and are given up.                *)
LEMMA QueueCut ==
    ASSUME NEW d, NEW H, NEW Z, Sound(d, H, Z), NEW c \in DOMAIN d.ctx, NEW e, OneCtx(d, e, c),
           Context(e.ctx[c]), e.ctx[c].subs = d.ctx[c].subs, Queue(e.ctx[c].msgs),
           NEW gone, Listed(gone), \A i \in DOMAIN gone : gone[i] \in Nat \ {0},
           \A s : Times(Stores(d.ctx[c].msgs), s) = Times(Stores(e.ctx[c].msgs), s) + Times(gone, s)
    PROVE  /\ Sound(DerefAll(e, gone), H, Z) /\ OnlyStore(e, DerefAll(e, gone))
           /\ DerefAll(e, gone).ctx = e.ctx
<1> DEFINE G == [s \in Nat |-> H[s] + Times(gone, s)]
           f == DerefAll(e, gone)
<1>1. /\ Fields \subseteq DOMAIN d /\ d.last_db_id \in Nat /\ H \in [Nat -> Nat]
  BY SoundNat DEF Sound, Shaped
<1>2. G \in [Nat -> Nat] /\ \A s \in Nat : G[s] = H[s] + Times(gone, s)
  <2>1. \A s \in Nat : Times(gone, s) \in Nat
    BY TimesNat
  <2>2. \A s \in Nat : H[s] \in Nat
    BY <1>1
  <2>3. \A s \in Nat : H[s] + Times(gone, s) \in Nat
    BY <2>1, <2>2
  <2> QED
    BY <2>3
<1> HIDE DEF G, f
<1>3. Sound(e, G, Z)
  <2>1. \A s \in Nat \ {0} : H[s] + Times(Stores(d.ctx[c].msgs), s) = G[s] + Times(Stores(e.ctx[c].msgs), s)
    <3> SUFFICES ASSUME NEW s \in Nat \ {0}
                 PROVE  H[s] + Times(Stores(d.ctx[c].msgs), s) = G[s] + Times(Stores(e.ctx[c].msgs), s)
      OBVIOUS
    <3>1. H[s] \in Nat /\ Times(gone, s) \in Nat /\ Times(Stores(e.ctx[c].msgs), s) \in Nat
      BY <1>1, TimesNat, StoresListed DEF Queue
    <3>2. /\ G[s] = H[s] + Times(gone, s)
          /\ Times(Stores(d.ctx[c].msgs), s) = Times(Stores(e.ctx[c].msgs), s) + Times(gone, s)
      BY <1>2
    <3> QED
      BY <3>1, <3>2
  <2> QED
    BY <1>2, <2>1, OneCtxQueue
<1>4. Sound(f, H, Z) /\ OnlyStore(e, f)
  BY <1>1, <1>2, <1>3, DerefAllSound DEF f
<1>5. f.ctx = e.ctx
  <2>1. Fields \subseteq DOMAIN e
    BY <1>3 DEF Sound, Shaped
  <2> QED
    BY <1>4, <2>1, OnlyStoreIs
<1> QED
  BY <1>4, <1>5 DEF f

(* ... with the client it was.                                             *)
LEMMA QueueDropped ==
    ASSUME NEW d, NEW H, NEW Z, Sound(d, H, Z), NEW c \in DOMAIN d.ctx, NEW e, OneCtx(d, e, c),
           Context(e.ctx[c]), e.ctx[c].subs = d.ctx[c].subs, Queue(e.ctx[c].msgs),
           SameClient(d.ctx[c], e.ctx[c]),
           NEW gone, Listed(gone), \A i \in DOMAIN gone : gone[i] \in Nat \ {0},
           \A s : Times(Stores(d.ctx[c].msgs), s) = Times(Stores(e.ctx[c].msgs), s) + Times(gone, s)
    PROVE  Goes(d, DerefAll(e, gone), H, Z) /\ DerefAll(e, gone).ctx = e.ctx
<1> DEFINE f == DerefAll(e, gone)
<1>1. Fields \subseteq DOMAIN d /\ d.last_db_id \in Nat
  BY SoundNat DEF Sound, Shaped
<1>2. Sound(f, H, Z) /\ OnlyStore(e, f) /\ f.ctx = e.ctx
  BY QueueCut
<1> HIDE DEF f
<1>3. Keeps(d, e) /\ Stands(d, e) /\ Fields \subseteq DOMAIN e /\ e.last_db_id = d.last_db_id
  BY <1>1, OneCtxKeeps, OneCtxIs
<1>4. Keeps(e, f) /\ Stands(e, f) /\ f.last_db_id \in Nat
  BY <1>1, <1>2, <1>3, OnlyStoreKeeps, SoundNat
<1>5. Keeps(d, f) /\ Stands(d, f)
  BY <1>1, <1>3, <1>4, KeepsTrans DEF Stands
<1> QED
  BY <1>2, <1>5 DEF Goes, f

(* A queue is put back after a walk.                                       *)
LEMMA AfterScanSound ==
    ASSUME NEW d, NEW H, NEW Z, Sound(d, H, Z), NEW c \in DOMAIN d.ctx, d.ctx[c].id # NoId,
           NEW scan, Scanned(d.ctx[c].msgs, scan)
    PROVE  Goes(d, AfterScan(d, c, scan), H, Z)
<1> DEFINE x == d.ctx[c]
           Counted(msgs) == Cardinality({k \in DOMAIN msgs : msgs[k].qos > 0})
           done == Counted(x.msgs) - Counted(scan.l)
           y == [x EXCEPT !.msgs = scan.l, !.count12 = @ - done]
           e == [d EXCEPT !.ctx[c].msgs = scan.l, !.ctx[c].count12 = @ - done]
<1>1. AfterScan(d, c, scan) = DerefAll(e, scan.gone)
  BY DEF AfterScan
<1>2. Fields \subseteq DOMAIN d /\ Context(x) /\ Listed(x.msgs)
  <2>1. c \in DOMAIN Queues(d) /\ Queues(d)[c] = x.msgs
    BY DEF Queues
  <2> QED
    BY <2>1 DEF Sound, Shaped, Queued, Queue
<1>3. Listed(scan.l) /\ Queue(scan.l)
  BY DEF Scanned, Queue
<1>4. Counted(x.msgs) = Times(Mark(x.msgs), 1) /\ Counted(scan.l) = Times(Mark(scan.l), 1)
      /\ Times(Mark(x.msgs), 1) \in Nat /\ Times(Mark(scan.l), 1) \in Nat
  BY <1>2, <1>3, CountedIs
<1> HIDE DEF Counted
<1>5. done = Times(Mark(x.msgs), 1) - Times(Mark(scan.l), 1)
  BY <1>4
<1> HIDE DEF done
<1>6. OneCtx(d, e, c) /\ e.ctx[c] = y
  BY <1>2 DEF OneCtx, Fields
<1>7. Context(y) /\ y.subs = x.subs /\ y.msgs = scan.l /\ y.count12 = x.count12 - done
      /\ \A f \in {"id", "sock", "state", "clean", "username", "password", "acl", "will"} : y[f] = x[f]
  BY <1>2 DEF Context, ContextFields
<1> HIDE DEF e, y
<1>8. SameClient(x, y)
  <2>1. Paced(x) => Paced(y)
    <3>1. Tally(x) => Tally(y)
      BY <1>4, <1>5, <1>7 DEF Tally
    <3>2. Flows(x.msgs) => Flows(y.msgs)
      BY <1>7 DEF Scanned
    <3> QED
      BY <1>7, <3>1, <3>2 DEF Paced
  <2> QED
    BY <1>7, <2>1 DEF SameClient
<1>9. \A s : Times(Stores(x.msgs), s) = Times(Stores(scan.l), s) + Times(scan.gone, s)
  BY DEF Scanned
<1>10. Listed(scan.gone) /\ \A i \in DOMAIN scan.gone : scan.gone[i] \in Nat \ {0}
  BY DEF Scanned
<1> QED
  BY <1>1, <1>3, <1>6, <1>7, <1>8, <1>9, <1>10, QueueDropped

(* The queue of a context in a database in order.                          *)
LEMMA QueueOf ==
    ASSUME NEW d, NEW H, NEW Z, Sound(d, H, Z), NEW c \in DOMAIN d.ctx
    PROVE  /\ Queue(d.ctx[c].msgs) /\ Listed(d.ctx[c].msgs) /\ Context(d.ctx[c])
           /\ \A i \in DOMAIN d.ctx[c].msgs : Message(d.ctx[c].msgs[i])
           /\ Fields \subseteq DOMAIN d
<1>1. c \in DOMAIN Queues(d) /\ Queues(d)[c] = d.ctx[c].msgs
  BY DEF Queues
<1> QED
  BY <1>1 DEF Sound, Queued, Queue, Shaped

(* mqtt3_db_message_delete                                                 *)
LEMMA DeleteSound ==
    ASSUME NEW d, NEW H, NEW Z, Sound(d, H, Z), NEW c \in DOMAIN d.ctx, d.ctx[c].id # NoId,
           NEW mid, NEW dir
    PROVE  Goes(d, mqtt3_db_message_delete(d, c, mid, dir), H, Z)
<1>1. Scanned(d.ctx[c].msgs, Scan(d.ctx[c].msgs, mid, dir, 1))
  BY QueueOf, ScanIs
<1> QED
  BY <1>1, AfterScanSound DEF mqtt3_db_message_delete

(* Messages of a context change, but not what they stand for.              *)
LEMMA QueueAltered ==
    ASSUME NEW d, NEW H, NEW Z, Sound(d, H, Z), NEW c \in DOMAIN d.ctx, NEW e, OneCtx(d, e, c),
           Context(e.ctx[c]), e.ctx[c].subs = d.ctx[c].subs,
           Queue(e.ctx[c].msgs), Stores(e.ctx[c].msgs) = Stores(d.ctx[c].msgs)
    PROVE  Sound(e, H, Z)
BY OneCtxQueue DEF Sound

(* mqtt3_db_message_update                                                 *)
LEMMA UpdateSound ==
    ASSUME NEW d, NEW H, NEW Z, Sound(d, H, Z), NEW c \in DOMAIN d.ctx, d.ctx[c].id # NoId,
           NEW mid, NEW dir, NEW state, state \notin {"publish_qos0", "queued"}
    PROVE  Goes(d, mqtt3_db_message_update(d, c, mid, dir, state), H, Z)
<1> DEFINE x == d.ctx[c]
           hits == {i \in DOMAIN x.msgs : x.msgs[i].mid = mid /\ x.msgs[i].dir = dir}
           i == Min(hits)
           e == [d EXCEPT !.ctx[c].msgs[i].state = state]
           t == [x.msgs EXCEPT ![i].state = state]
           y == [x EXCEPT !.msgs = t]
<1>1. mqtt3_db_message_update(d, c, mid, dir, state) = IF hits = {} THEN d ELSE e
  BY DEF mqtt3_db_message_update
<1>2. CASE hits = {}
  BY ZenonT(60), <1>1, <1>2, GoesSelf
<1>3. CASE hits # {}
  <2>1. /\ Queue(x.msgs) /\ Listed(x.msgs) /\ Context(x) /\ Fields \subseteq DOMAIN d
        /\ \A j \in DOMAIN x.msgs : Message(x.msgs[j])
    BY QueueOf
  <2> HIDE DEF i
  <2>2. OneCtx(d, e, c) /\ e.ctx[c] = y
    BY <2>1 DEF OneCtx, Fields
  <2>3. Context(y) /\ y.subs = x.subs /\ y.msgs = t /\ y.count12 = x.count12
        /\ \A f \in {"id", "sock", "state", "clean", "username", "password", "acl", "will"} : y[f] = x[f]
    BY <2>1 DEF Context, ContextFields
  <2> HIDE DEF e, y
  <2>4. DOMAIN t = DOMAIN x.msgs /\ t = [j \in DOMAIN t |-> t[j]]
    OBVIOUS
  <2>10. \A j \in DOMAIN x.msgs : t[j].state = x.msgs[j].state \/ t[j].state # "queued"
    <3> SUFFICES ASSUME NEW j \in DOMAIN x.msgs
                 PROVE  t[j].state = x.msgs[j].state \/ t[j].state # "queued"
      OBVIOUS
    <3>1. Message(x.msgs[j])
      BY <2>1
    <3>2. t[j] = x.msgs[j] \/ t[j] = [x.msgs[j] EXCEPT !.state = state]
      OBVIOUS
    <3> HIDE DEF x, t
    <3> QED
      BY <3>1, <3>2 DEF Message, MsgFields
  <2>5. \A j \in DOMAIN x.msgs : Message(t[j]) /\ t[j].store = x.msgs[j].store /\ t[j].qos = x.msgs[j].qos
    <3> SUFFICES ASSUME NEW j \in DOMAIN x.msgs
                 PROVE  Message(t[j]) /\ t[j].store = x.msgs[j].store /\ t[j].qos = x.msgs[j].qos
      OBVIOUS
    <3>1. Message(x.msgs[j])
      BY <2>1
    <3>2. t[j] = x.msgs[j] \/ t[j] = [x.msgs[j] EXCEPT !.state = state]
      OBVIOUS
    <3> HIDE DEF x, t
    <3> QED
      BY <3>1, <3>2 DEF Message, MsgFields
  <2> HIDE DEF t
  <2>6. Queue(t) /\ Stores(t) = Stores(x.msgs) /\ Mark(t) = Mark(x.msgs)
    BY <2>1, <2>4, <2>5, QueueSame
  <2>7. SameClient(x, y)
    <3>1. Flows(x.msgs) => Flows(t)
      BY <2>4, <2>10 DEF Flows
    <3> QED
      BY <2>3, <2>6, <3>1 DEF SameClient, Paced, Tally
  <2>8. Sound(e, H, Z)
    BY <2>2, <2>3, <2>6, QueueAltered
  <2>9. Keeps(d, e) /\ Stands(d, e)
    BY <2>1, <2>2, <2>7, OneCtxKeeps, SoundNat
  <2> QED
    BY <1>1, <1>3, <2>8, <2>9 DEF Goes
<1> QED
  BY <1>2, <1>3
-----------------------------------------------------------------------------
(* mqtt3_db_message_write                                                  *)

(* A message that has been sent.                                           *)
LEMMA SentOffIs ==
    ASSUME NEW m, Message(m), m.state \in {"publish_qos1", "publish_qos2", "send_pubrec", "resend_pubrel"}
    PROVE  /\ Message(SentOff(m)) /\ SentOff(m).store = m.store /\ SentOff(m).qos = m.qos
           /\ SentOff(m).state # "queued"
<1>1. CASE m.state = "publish_qos1"
  <2>1. SentOff(m) = [m EXCEPT !.dup = TRUE, !.state = "wait_for_puback"]
    BY <1>1 DEF SentOff
  <2> QED
    BY <2>1 DEF Message, MsgFields
<1>2. CASE m.state = "publish_qos2"
  <2>1. SentOff(m) = [m EXCEPT !.dup = TRUE, !.state = "wait_for_pubrec"]
    BY <1>2 DEF SentOff
  <2> QED
    BY <2>1 DEF Message, MsgFields
<1>3. CASE m.state = "send_pubrec"
  <2>1. SentOff(m) = [m EXCEPT !.state = "wait_for_pubrel"]
    BY <1>3 DEF SentOff
  <2> QED
    BY <2>1 DEF Message, MsgFields
<1>4. CASE m.state = "resend_pubrel"
  <2>1. SentOff(m) = [m EXCEPT !.state = "wait_for_pubcomp"]
    BY <1>4 DEF SentOff
  <2> QED
    BY <2>1 DEF Message, MsgFields
<1> QED
  BY <1>1, <1>2, <1>3, <1>4

(* One message of a queue is changed, but not what it stands for.          *)
LEMMA QueueOne ==
    ASSUME NEW msgs, Queue(msgs), NEW i \in DOMAIN msgs, NEW m, Message(m),
           m.store = msgs[i].store, m.qos = msgs[i].qos
    PROVE  LET t == [msgs EXCEPT ![i] = m]
           IN /\ Queue(t) /\ Stores(t) = Stores(msgs) /\ Mark(t) = Mark(msgs) /\ Len(t) = Len(msgs)
              /\ m.state # "queued" /\ Flows(msgs) => Flows(t)
<1> DEFINE t == [msgs EXCEPT ![i] = m]
<1>1. DOMAIN t = DOMAIN msgs /\ t = [j \in DOMAIN t |-> t[j]] /\ t[i] = m
      /\ \A j \in DOMAIN msgs \ {i} : t[j] = msgs[j]
  OBVIOUS
<1> HIDE DEF t
<1>2. \A j \in DOMAIN msgs : Message(t[j]) /\ t[j].store = msgs[j].store /\ t[j].qos = msgs[j].qos
  BY <1>1 DEF Queue
<1>3. Queue(t) /\ Stores(t) = Stores(msgs) /\ Mark(t) = Mark(msgs)
  BY <1>1, <1>2, QueueSame
<1>4. Len(t) = Len(msgs)
  <2>1. DOMAIN t = 1..Len(msgs) /\ Len(msgs) \in Nat
    BY <1>1, ListedDomain DEF Queue
  <2> QED
    BY <1>1, <2>1, FunctionListed
<1>5. m.state # "queued" /\ Flows(msgs) => Flows(t)
  BY <1>1 DEF Flows
<1> QED
  BY <1>3, <1>4, <1>5 DEF t

(* One turn of mqtt3_db_message_write.                                     *)
WriteOn(c, acc, k) == WriteStep(c.db, acc)
(* What the writing of a queue has done to it.                             *)
Written(msgs, acc) ==
    /\ Queue(acc.l) /\ Listed(acc.gone) /\ Listed(acc.out)
    /\ \A i \in DOMAIN acc.gone : acc.gone[i] \in Nat \ {0}
    /\ \A s : Times(Stores(msgs), s) = Times(Stores(acc.l), s) + Times(acc.gone, s)
    /\ Times(Mark(msgs), 1) = Times(Mark(acc.l), 1)
    /\ Flows(msgs) => Flows(acc.l)
(* ... after some messages.                                                *)
Writing(c, k, acc) ==
    /\ Written(c.msgs, acc)
    /\ {"l", "pos", "n", "out", "gone"} \subseteq DOMAIN acc
    /\ acc.pos \in Nat \ {0}
    /\ Len(acc.l) - acc.pos + 1 = Len(c.msgs) - k
(* The induction over the queue.                                           *)
Wrt == INSTANCE FoldInduction WITH Op <- WriteOn, Inv <- Writing

(* What one step of mqtt3_db_message_write comes down to.                  *)
LEMMA WriteCases ==
    ASSUME NEW c, NEW acc, NEW x, {"l", "pos", "n", "out", "gone"} \subseteq DOMAIN acc,
           acc.pos \in DOMAIN acc.l, Message(acc.l[acc.pos])
    PROVE  LET r == WriteOn(c, acc, x)
               m == acc.l[acc.pos]
           IN /\ {"l", "pos", "n", "out", "gone"} \subseteq DOMAIN r
              /\ \/ /\ ~(m.qos > 0) /\ r.l = _message_remove(acc.l, acc.pos) /\ r.pos = acc.pos
                    /\ \E o : r.out = Append(acc.out, o)
                    /\ r.gone = Append(acc.gone, m.store)
                 \/ /\ \E q : Message(q) /\ q.store = m.store /\ q.qos = m.qos /\ q.state # "queued"
                                /\ r.l = [acc.l EXCEPT ![acc.pos] = q]
                    /\ r.pos = acc.pos + 1 /\ r.gone = acc.gone
                    /\ \E o : r.out = Append(acc.out, o)
                 \/ r.l = acc.l /\ r.pos = acc.pos + 1 /\ r.gone = acc.gone /\ r.out = acc.out
<1> DEFINE r == WriteOn(c, acc, x)
           m0 == acc.l[acc.pos]
           n == IF m0.dir = "in" THEN acc.n + 1 ELSE acc.n
           adm == m0.state = "queued" /\ m0.dir = "in" /\ (max_inflight = 0 \/ n < max_inflight)
           m == IF adm THEN [m0 EXCEPT !.state = "send_pubrec"] ELSE m0
           n1 == IF adm THEN n + 1 ELSE n
           o == PacketOf(c.db, m)
           four == {"publish_qos1", "publish_qos2", "send_pubrec", "resend_pubrel"}
           r1 == [l |-> _message_remove(acc.l, acc.pos), pos |-> acc.pos, n |-> n1,
                  out |-> Append(acc.out, o), gone |-> Append(acc.gone, m.store)]
           r2 == [acc EXCEPT !.l[acc.pos] = SentOff(m), !.pos = @ + 1, !.n = n1, !.out = Append(@, o)]
           r3 == [acc EXCEPT !.pos = @ + 1, !.n = n1]
<1>1. r = CASE m.state = "publish_qos0" -> r1
            [] m.state \in four -> r2
            [] OTHER -> r3
  BY DEF WriteOn, WriteStep
<1>2. Message(m) /\ m.store = m0.store /\ m.qos = m0.qos
  <2>1. m = m0 \/ m = [m0 EXCEPT !.state = "send_pubrec"]
    OBVIOUS
  <2> HIDE DEF m
  <2> QED
    BY <2>1 DEF Message, MsgFields
<1> HIDE DEF n, adm, m, n1, o, r, four
<1>3. CASE m.state = "publish_qos0"
  <2>4. m.state \notin four
    BY <1>3 DEF four
  <2>1. r = r1
    BY <1>1, <1>3, <2>4
  <2>2. ~(m0.qos > 0)
    BY <1>2, <1>3 DEF Message
  <2>3. r.l = _message_remove(acc.l, acc.pos) /\ r.pos = acc.pos /\ r.out = Append(acc.out, o)
        /\ r.gone = Append(acc.gone, m0.store) /\ {"l", "pos", "n", "out", "gone"} \subseteq DOMAIN r
    BY <1>2, <2>1
  <2> QED
    BY <2>2, <2>3 DEF r
<1>4. CASE m.state # "publish_qos0" /\ m.state \in four
  <2>1. r = r2
    BY <1>1, <1>4
  <2>2. Message(SentOff(m)) /\ SentOff(m).store = m0.store /\ SentOff(m).qos = m0.qos
        /\ SentOff(m).state # "queued"
    BY <1>2, <1>4, SentOffIs DEF four
  <2>3. r.l = [acc.l EXCEPT ![acc.pos] = SentOff(m)] /\ r.pos = acc.pos + 1 /\ r.gone = acc.gone
        /\ r.out = Append(acc.out, o) /\ {"l", "pos", "n", "out", "gone"} \subseteq DOMAIN r
    BY <2>1
  <2> QED
    BY <2>2, <2>3 DEF r
<1>5. CASE m.state # "publish_qos0" /\ m.state \notin four
  <2>1. r = r3
    BY <1>1, <1>5
  <2>2. r.l = acc.l /\ r.pos = acc.pos + 1 /\ r.gone = acc.gone /\ r.out = acc.out
        /\ {"l", "pos", "n", "out", "gone"} \subseteq DOMAIN r
    BY <2>1
  <2> QED
    BY <2>2 DEF r
<1> QED
  BY <1>3, <1>4, <1>5

(* One message more.                                                       *)
LEMMA WriteStepped ==
    ASSUME NEW c, Queue(c.msgs), NEW k \in 0..(Len(c.msgs) - 1), NEW acc, Writing(c, k, acc), NEW x
    PROVE  Writing(c, k + 1, WriteOn(c, acc, x))
<1> DEFINE n == Len(c.msgs)
           p == acc.pos
           m == acc.l[p]
           r == WriteOn(c, acc, x)
<1>1. n \in Nat /\ p \in Nat \ {0} /\ Len(acc.l) - p + 1 = n - k /\ Len(acc.l) \in Nat /\ k \in Nat /\ k + 1 <= n
  <2>1. n \in Nat
    BY ListedDomain DEF Queue
  <2>2. Len(acc.l) \in Nat
    BY ListedDomain DEF Queue, Writing, Written
  <2> QED
    BY <2>1, <2>2 DEF Writing
<1>2. p \in 1..Len(acc.l) /\ p \in DOMAIN acc.l
  <2>1. p \in 1..Len(acc.l)
    <3> HIDE DEF n, p
    <3> QED
      BY <1>1
  <2> QED
    BY <2>1, ListedDomain DEF Writing, Written, Queue
<1>3. Written(c.msgs, acc) /\ Queue(acc.l) /\ Listed(acc.out) /\ Listed(acc.gone) /\ Message(m)
      /\ {"l", "pos", "n", "out", "gone"} \subseteq DOMAIN acc
  BY <1>2 DEF Writing, Written, Queue
<1>4. /\ {"l", "pos", "n", "out", "gone"} \subseteq DOMAIN r
      /\ \/ /\ ~(m.qos > 0) /\ r.l = _message_remove(acc.l, acc.pos) /\ r.pos = acc.pos
            /\ \E o : r.out = Append(acc.out, o)
            /\ r.gone = Append(acc.gone, m.store)
         \/ /\ \E q : Message(q) /\ q.store = m.store /\ q.qos = m.qos /\ q.state # "queued"
                        /\ r.l = [acc.l EXCEPT ![acc.pos] = q]
            /\ r.pos = acc.pos + 1 /\ r.gone = acc.gone
            /\ \E o : r.out = Append(acc.out, o)
         \/ r.l = acc.l /\ r.pos = acc.pos + 1 /\ r.gone = acc.gone /\ r.out = acc.out
  BY ZenonT(60), <1>2, <1>3, WriteCases
<1> HIDE DEF r
<1>5. CASE /\ ~(m.qos > 0) /\ r.l = _message_remove(acc.l, acc.pos) /\ r.pos = acc.pos
           /\ \E o : r.out = Append(acc.out, o)
           /\ r.gone = Append(acc.gone, m.store)
  <2> DEFINE l3 == _message_remove(acc.l, p)
             g3 == Append(acc.gone, m.store)
  <2>1. /\ Queue(l3) /\ Len(l3) = Len(acc.l) - 1
        /\ \A s : Times(Stores(acc.l), s) = Times(Stores(l3), s) + (IF m.store = s THEN 1 ELSE 0)
        /\ Times(Mark(acc.l), 1) = Times(Mark(l3), 1) + (IF m.qos > 0 THEN 1 ELSE 0)
        /\ Flows(acc.l) => Flows(l3)
    BY <1>2, <1>3, MessageRemoved
  <2>2. /\ Listed(g3) /\ \A s : Times(g3, s) = Times(acc.gone, s) + (IF m.store = s THEN 1 ELSE 0)
    BY <1>3, AppendListed, TimesAppend
  <2>3. \A j \in DOMAIN g3 : g3[j] \in Nat \ {0}
    <3>1. m.store \in Nat \ {0}
      BY <1>3 DEF Message
    <3>2. Range(g3) = Range(acc.gone) \cup {m.store}
      BY <1>3, AppendListed
    <3>3. \A y \in Range(acc.gone) : y \in Nat \ {0}
      BY <1>3 DEF Written, Range
    <3> HIDE DEF g3
    <3> QED
      BY <3>1, <3>2, <3>3 DEF Range
  <2>4. r.l = l3 /\ r.gone = g3 /\ r.pos = p
    BY <1>5
  <2>5. Listed(r.out)
    BY <1>3, <1>5, AppendListed
  <2> HIDE DEF g3, l3
  <2>6. ASSUME NEW s PROVE Times(Stores(c.msgs), s) = Times(Stores(l3), s) + Times(g3, s)
    <3>1. Times(Stores(c.msgs), s) = Times(Stores(acc.l), s) + Times(acc.gone, s)
      BY <1>3 DEF Written
    <3>2. Times(Stores(acc.l), s) = Times(Stores(l3), s) + (IF m.store = s THEN 1 ELSE 0)
      BY <2>1
    <3>3. Times(g3, s) = Times(acc.gone, s) + (IF m.store = s THEN 1 ELSE 0)
      BY <2>2
    <3>4. Times(Stores(l3), s) \in Nat /\ Times(acc.gone, s) \in Nat
      BY <1>3, <2>1, StoresListed, TimesNat DEF Queue
    <3> HIDE DEF m
    <3> QED
      BY <3>1, <3>2, <3>3, <3>4
  <2>7. Times(Mark(c.msgs), 1) = Times(Mark(l3), 1)
    <3>1. Times(Mark(l3), 1) \in Nat
      BY <2>1, MarkListed, TimesNat DEF Queue
    <3>2. Times(Mark(acc.l), 1) = Times(Mark(l3), 1) + 0
      BY <1>5, <2>1
    <3>3. Times(Mark(c.msgs), 1) = Times(Mark(acc.l), 1)
      BY <1>3 DEF Written
    <3> QED
      BY <3>1, <3>2, <3>3
  <2>8. Written(c.msgs, r)
    BY <1>3, <2>1, <2>2, <2>3, <2>4, <2>5, <2>6, <2>7 DEF Written
  <2>9. Len(l3) - p + 1 = n - (k + 1)
    <3>1. Len(l3) = Len(acc.l) - 1 /\ Len(acc.l) \in Nat /\ p \in Nat /\ n \in Nat /\ k \in Nat
      BY <1>1, <1>2, <1>3, <2>1, ListedDomain DEF Queue
    <3>2. Len(acc.l) - p + 1 = n - k
      BY <1>1
    <3> HIDE DEF n, p
    <3> QED
      BY <3>1, <3>2
  <2> QED
    BY <1>1, <1>4, <2>4, <2>8, <2>9 DEF Writing, r
<1>6. CASE /\ \E q : Message(q) /\ q.store = m.store /\ q.qos = m.qos /\ q.state # "queued"
                       /\ r.l = [acc.l EXCEPT ![acc.pos] = q]
           /\ r.pos = acc.pos + 1 /\ r.gone = acc.gone
           /\ \E o : r.out = Append(acc.out, o)
  <2>1. PICK q : Message(q) /\ q.store = m.store /\ q.qos = m.qos /\ q.state # "queued"
                       /\ r.l = [acc.l EXCEPT ![acc.pos] = q]
    BY <1>6
  <2>2. Queue(r.l) /\ Stores(r.l) = Stores(acc.l) /\ Mark(r.l) = Mark(acc.l) /\ Len(r.l) = Len(acc.l)
        /\ (Flows(acc.l) => Flows(r.l))
    BY <1>2, <1>3, <2>1, QueueOne
  <2>3. Listed(r.out)
    BY <1>3, <1>6, AppendListed
  <2>4. Written(c.msgs, r)
    BY <1>3, <1>6, <2>2, <2>3 DEF Written
  <2>5. Len(r.l) - (p + 1) + 1 = n - (k + 1) /\ p + 1 \in Nat \ {0}
    <3> HIDE DEF n, p
    <3> QED
      BY <1>1, <2>2
  <2> QED
    BY <1>4, <1>6, <2>4, <2>5 DEF Writing, r
<1>7. CASE r.l = acc.l /\ r.pos = acc.pos + 1 /\ r.gone = acc.gone /\ r.out = acc.out
  <2>1. Written(c.msgs, r)
    BY <1>3, <1>7 DEF Written
  <2>2. Len(acc.l) - (p + 1) + 1 = n - (k + 1) /\ p + 1 \in Nat \ {0}
    <3> HIDE DEF n, p
    <3> QED
      BY <1>1
  <2> QED
    BY <1>4, <1>7, <2>1, <2>2 DEF Writing, r
<1> QED
  BY <1>4, <1>5, <1>6, <1>7

(* The loop of mqtt3_db_message_write.                                     *)
WrittenAll(db, msgs) ==
    FoldLeft(LAMBDA acc, k : WriteStep(db, acc),
             [l |-> msgs, pos |-> 1, n |-> 0, out |-> <<>>, gone |-> <<>>],
             [k \in 1..Len(msgs) |-> k])

(* ... and what it has done in the end.                                    *)
LEMMA WriteIs ==
    ASSUME NEW d, NEW msgs, Queue(msgs)
    PROVE  Written(msgs, WrittenAll(d, msgs))
<1> DEFINE c == [msgs |-> msgs, db |-> d]
           n == Len(msgs)
           seq == [k \in 1..n |-> k]
           base == [l |-> msgs, pos |-> 1, n |-> 0, out |-> <<>>, gone |-> <<>>]
<1>1. n \in Nat /\ DOMAIN seq = 1..n /\ Queue(c.msgs) /\ Len(c.msgs) = n
  BY ListedDomain DEF Queue
<1>2. Writing(c, 0, base)
  <2>1. /\ base.l = msgs /\ base.gone = <<>> /\ base.out = <<>> /\ base.pos = 1
        /\ {"l", "pos", "n", "out", "gone"} \subseteq DOMAIN base
        /\ c.msgs = msgs
    OBVIOUS
  <2> HIDE DEF base, c
  <2>2. \A s : Times(Stores(msgs), s) \in Nat
    BY StoresListed, TimesNat DEF Queue
  <2>3. \A s : Times(Stores(msgs), s) = Times(Stores(base.l), s) + Times(base.gone, s)
    BY <2>1, <2>2, TimesEmpty
  <2>4. \A i \in DOMAIN base.gone : base.gone[i] \in Nat \ {0}
    BY <2>1
  <2>5. Written(msgs, base)
    BY <2>1, <2>3, <2>4, EmptyListed DEF Written
  <2>6. Len(base.l) - base.pos + 1 = n - 0
    BY <1>1, <2>1
  <2> QED
    BY <2>1, <2>5, <2>6 DEF Writing
<1>3. \A k \in 0..(n - 1) : \A a : Writing(c, k, a) => Writing(c, k + 1, WriteOn(c, a, seq[k + 1]))
  <2> HIDE DEF c, n, seq
  <2> QED
    BY <1>1, WriteStepped
<1>4. Writing(c, n, Wrt!Left(c, base, seq))
  <2> HIDE DEF c, n, seq, base
  <2> QED
    BY <1>1, <1>2, <1>3, Wrt!LeftInduction
<1>5. Wrt!Left(c, base, seq) = WrittenAll(d, msgs)
  BY DEF Wrt!Left, WriteOn, WrittenAll, FoldLeft, MapThenFoldSet, Max
<1> QED
  BY <1>4, <1>5 DEF Writing

(* mqtt3_db_message_write                                                  *)
LEMMA WriteSound ==
    ASSUME NEW d, NEW H, NEW Z, Sound(d, H, Z), NEW c \in DOMAIN d.ctx, d.ctx[c].id # NoId
    PROVE  Goes(d, mqtt3_db_message_write(d, c), H, Z)
<1> DEFINE x == d.ctx[c]
           done == WrittenAll(d, x.msgs)
           y == [x EXCEPT !.msgs = done.l, !.out = @ \o done.out]
           e == [d EXCEPT !.ctx[c].msgs = done.l, !.ctx[c].out = @ \o done.out]
<1>1. mqtt3_db_message_write(d, c) = DerefAll(e, done.gone)
  BY DEF mqtt3_db_message_write, WrittenAll
<1>2. Fields \subseteq DOMAIN d /\ Context(x) /\ Queue(x.msgs)
  BY QueueOf
<1>3. Written(x.msgs, done)
  BY <1>2, WriteIs
<1> HIDE DEF done
<1>4. OneCtx(d, e, c) /\ e.ctx[c] = y
  BY <1>2 DEF OneCtx, Fields
<1>5. Context(y) /\ y.subs = x.subs /\ y.msgs = done.l /\ y.count12 = x.count12
      /\ \A f \in {"id", "sock", "state", "clean", "username", "password", "acl", "will"} : y[f] = x[f]
  BY <1>2 DEF Context, ContextFields
<1> HIDE DEF e, y
<1>6. SameClient(x, y)
  BY <1>3, <1>5 DEF SameClient, Paced, Tally, Written
<1> QED
  BY <1>1, <1>3, <1>4, <1>5, <1>6, QueueDropped DEF Written
-----------------------------------------------------------------------------
(* mqtt3_db_message_timeout_check and mqtt3_db_message_reconnect_reset     *)

(* A message with QoS 1 or 2 is not published with QoS 0.                  *)
LEMMA PublishingIs == \A qos : Publishing(qos) = "publish_qos0" => ~(qos > 0)
<1> SUFFICES ASSUME NEW qos, Publishing(qos) = "publish_qos0" PROVE ~(qos > 0)
  OBVIOUS
<1>1. CASE qos = 0
  BY <1>1
<1>2. CASE qos # 0
  BY <1>2 DEF Publishing
<1> QED
  BY <1>1, <1>2

(* A message in another state.                                             *)
LEMMA StateSet ==
    ASSUME NEW m, Message(m), NEW st, st = "publish_qos0" => ~(m.qos > 0)
    PROVE  LET n == [m EXCEPT !.state = st]
           IN Message(n) /\ n.store = m.store /\ n.qos = m.qos
BY DEF Message, MsgFields

(* mqtt3_db_message_reconnect_reset                                        *)
LEMMA ResetSound ==
    ASSUME NEW d, NEW H, NEW Z, Sound(d, H, Z), NEW c \in DOMAIN d.ctx
    PROVE  LET e == mqtt3_db_message_reconnect_reset(d, c)
           IN /\ Sound(e, H, Z) /\ OneCtx(d, e, c) /\ Paced(e.ctx[c])
              /\ DOMAIN e.ctx[c] = DOMAIN d.ctx[c] /\ Context(e.ctx[c])
              /\ e.ctx[c].msgs = <<>> <=> d.ctx[c].msgs = <<>>
              /\ \A f \in ContextFields \ {"msgs", "count12"} : e.ctx[c][f] = d.ctx[c][f]
<1> DEFINE x == d.ctx[c]
           msgs == x.msgs
           Reset(m) ==
              IF m.dir = "in" \/ m.state = "queued" THEN m
              ELSE [m EXCEPT !.state = IF m.qos = 2 /\ m.state = "wait_for_pubcomp"
                                       THEN "resend_pubrel" ELSE Publishing(m.qos)]
           Turn(m, i) == IF (max_inflight = 0 \/ i <= max_inflight) /\ m.state = "queued"
                         THEN [m EXCEPT !.state = Publishing(m.qos)] ELSE m
           t == [i \in DOMAIN msgs |-> Turn(Reset(msgs[i]), i)]
           n == Cardinality({i \in DOMAIN msgs : msgs[i].qos > 0})
           e == [d EXCEPT !.ctx[c].msgs = t, !.ctx[c].count12 = n]
           y == [x EXCEPT !.msgs = t, !.count12 = n]
<1>1. mqtt3_db_message_reconnect_reset(d, c) = e
  BY DEF mqtt3_db_message_reconnect_reset
<1>2. /\ Fields \subseteq DOMAIN d /\ Context(x) /\ Queue(msgs) /\ Listed(msgs)
      /\ \A i \in DOMAIN msgs : Message(msgs[i])
  BY QueueOf
<1>3. \A m : Message(m) => Message(Reset(m)) /\ Reset(m).store = m.store /\ Reset(m).qos = m.qos
  <2> SUFFICES ASSUME NEW m, Message(m)
               PROVE  Message(Reset(m)) /\ Reset(m).store = m.store /\ Reset(m).qos = m.qos
    OBVIOUS
  <2> DEFINE st == IF m.qos = 2 /\ m.state = "wait_for_pubcomp" THEN "resend_pubrel" ELSE Publishing(m.qos)
  <2>1. st = "publish_qos0" => ~(m.qos > 0)
    BY PublishingIs
  <2>2. Reset(m) = m \/ Reset(m) = [m EXCEPT !.state = st]
    OBVIOUS
  <2> HIDE DEF st, Reset
  <2>3. LET k == [m EXCEPT !.state = st] IN Message(k) /\ k.store = m.store /\ k.qos = m.qos
    BY <2>1, StateSet
  <2> QED
    BY <2>2, <2>3
<1>4. \A m, i : Message(m) => Message(Turn(m, i)) /\ Turn(m, i).store = m.store /\ Turn(m, i).qos = m.qos
  <2> SUFFICES ASSUME NEW m, NEW i, Message(m)
               PROVE  Message(Turn(m, i)) /\ Turn(m, i).store = m.store /\ Turn(m, i).qos = m.qos
    OBVIOUS
  <2> DEFINE st == Publishing(m.qos)
  <2>1. st = "publish_qos0" => ~(m.qos > 0)
    BY PublishingIs
  <2>2. Turn(m, i) = m \/ Turn(m, i) = [m EXCEPT !.state = st]
    OBVIOUS
  <2> HIDE DEF st, Turn
  <2>3. LET k == [m EXCEPT !.state = st] IN Message(k) /\ k.store = m.store /\ k.qos = m.qos
    BY <2>1, StateSet
  <2> QED
    BY <2>2, <2>3
<1>14. \A m, i : Message(m) /\ Turn(m, i).state = "queued" => ~(max_inflight = 0 \/ i <= max_inflight)
  <2> SUFFICES ASSUME NEW m, NEW i, Message(m), max_inflight = 0 \/ i <= max_inflight
               PROVE  Turn(m, i).state # "queued"
    OBVIOUS
  <2> DEFINE st == Publishing(m.qos)
  <2>1. st # "queued"
    BY DEF Publishing
  <2>2. (Turn(m, i) = m /\ m.state # "queued") \/ Turn(m, i) = [m EXCEPT !.state = st]
    OBVIOUS
  <2> HIDE DEF st, Turn
  <2> QED
    BY <2>1, <2>2 DEF Message, MsgFields
<1> HIDE DEF Reset, Turn
<1>5. DOMAIN t = DOMAIN msgs /\ t = [i \in DOMAIN t |-> t[i]] /\ \A i \in DOMAIN msgs : t[i] = Turn(Reset(msgs[i]), i)
  OBVIOUS
<1> HIDE DEF t
<1>6. \A i \in DOMAIN msgs : Message(t[i]) /\ t[i].store = msgs[i].store /\ t[i].qos = msgs[i].qos
  <2> SUFFICES ASSUME NEW i \in DOMAIN msgs
               PROVE  Message(t[i]) /\ t[i].store = msgs[i].store /\ t[i].qos = msgs[i].qos
    OBVIOUS
  <2> DEFINE r == Reset(msgs[i])
  <2>1. Message(msgs[i]) /\ t[i] = Turn(r, i)
    BY <1>2, <1>5
  <2>2. Message(r) /\ r.store = msgs[i].store /\ r.qos = msgs[i].qos
    BY <1>3, <2>1
  <2> HIDE DEF r
  <2> QED
    BY <1>4, <2>1, <2>2
<1>15. Flows(t)
  <2> SUFFICES ASSUME NEW i \in DOMAIN t, t[i].state = "queued" PROVE max_inflight # 0 /\ i # 1
    BY DEF Flows
  <2>1. i \in DOMAIN msgs /\ t[i] = Turn(Reset(msgs[i]), i) /\ Message(Reset(msgs[i]))
    BY <1>2, <1>3, <1>5
  <2>2. ~(max_inflight = 0 \/ i <= max_inflight)
    BY <1>14, <2>1
  <2> QED
    BY <2>2, DbAssumption
<1>7. Queue(t) /\ Stores(t) = Stores(msgs) /\ Mark(t) = Mark(msgs)
  BY <1>2, <1>5, <1>6, QueueSame
<1>8. n = Times(Mark(msgs), 1)
  BY <1>2, CountedIs
<1> HIDE DEF n
<1>9. OneCtx(d, e, c) /\ e.ctx[c] = y
  BY <1>2 DEF OneCtx, Fields
<1>10. /\ Context(y) /\ y.subs = x.subs /\ y.msgs = t /\ y.count12 = n /\ DOMAIN y = DOMAIN x
       /\ \A f \in ContextFields \ {"msgs", "count12"} : y[f] = x[f]
  BY <1>2 DEF Context, ContextFields
<1> HIDE DEF e, y
<1>11. Paced(y)
  BY <1>7, <1>8, <1>10, <1>15 DEF Paced, Tally
<1>12. Sound(e, H, Z)
  BY <1>7, <1>9, <1>10, QueueAltered
<1>13. t = <<>> <=> msgs = <<>>
  <2>1. Listed(t)
    BY <1>7 DEF Queue
  <2>2. \A s : Listed(s) => (s = <<>> <=> DOMAIN s = {})
    <3> SUFFICES ASSUME NEW s, Listed(s) PROVE s = <<>> <=> DOMAIN s = {}
      OBVIOUS
    <3>1. Len(s) \in Nat /\ DOMAIN s = 1..Len(s)
      BY ListedDomain
    <3>2. ASSUME DOMAIN s = {} PROVE s = <<>>
      <4>1. Len(s) = 0 /\ Len(<<>>) = 0
        BY <3>1, <3>2
      <4> QED
        BY <4>1, EmptyListed, SameListed
    <3> QED
      BY <3>2
  <2> QED
    BY <1>2, <1>5, <2>1, <2>2
<1> QED
  BY <1>1, <1>9, <1>10, <1>11, <1>12, <1>13

(* All queues are changed, but not what their messages stand for.          *)
LEMMA QueuesAltered ==
    ASSUME NEW d, NEW H, NEW Z, Sound(d, H, Z), NEW e, DOMAIN e = DOMAIN d,
           \A f \in DOMAIN d \ {"ctx"} : e[f] = d[f], DOMAIN e.ctx = DOMAIN d.ctx,
           \A c \in DOMAIN d.ctx :
               /\ Context(e.ctx[c]) /\ e.ctx[c].subs = d.ctx[c].subs
               /\ Queue(e.ctx[c].msgs) /\ Stores(e.ctx[c].msgs) = Stores(d.ctx[c].msgs)
    PROVE  Sound(e, H, Z)
<1>1. /\ Fields \subseteq DOMAIN e /\ e.store = d.store /\ e.last_db_id = d.last_db_id
      /\ e.roots = d.roots /\ e.tree = d.tree /\ e.subs = d.subs /\ e.retained = d.retained
      /\ e.disused = d.disused
  BY DEF Sound, Shaped, Fields
<1>2. Lists(e) = Lists(d)
  BY DEF Lists
<1>3. DOMAIN Queues(e) = DOMAIN d.ctx /\ DOMAIN Queues(d) = DOMAIN d.ctx
      /\ \A c \in DOMAIN d.ctx : Queues(e)[c] = e.ctx[c].msgs /\ Queues(d)[c] = d.ctx[c].msgs
  BY DEF Queues
<1>4. Queued(Queues(e))
  BY <1>3 DEF Sound, Queued
<1>5. \A s : Held(Queues(e), s) = Held(Queues(d), s)
  <2> SUFFICES ASSUME NEW s PROVE Held(Queues(e), s) = Held(Queues(d), s)
    OBVIOUS
  <2> DEFINE Q == Queues(d)
             R == Queues(e)
             C == DOMAIN d.ctx
  <2>1. \A x \in C \X Nat :
           (x[2] \in DOMAIN R[x[1]] /\ R[x[1]][x[2]].store = s)
              <=> (x[2] \in DOMAIN Q[x[1]] /\ Q[x[1]][x[2]].store = s)
    <3> SUFFICES ASSUME NEW x \in C \X Nat
                 PROVE (x[2] \in DOMAIN R[x[1]] /\ R[x[1]][x[2]].store = s)
                       <=> (x[2] \in DOMAIN Q[x[1]] /\ Q[x[1]][x[2]].store = s)
      OBVIOUS
    <3> DEFINE c == x[1]
               i == x[2]
    <3>1. c \in C
      OBVIOUS
    <3>2. Listed(R[c]) /\ Listed(Q[c]) /\ Stores(R[c]) = Stores(Q[c])
      BY <1>3, <3>1, QueueOf DEF Queue
    <3> HIDE DEF c, i, R, Q
    <3>3. DOMAIN R[c] = DOMAIN Q[c]
      BY <3>2, StoresListed
    <3>4. \A j \in DOMAIN R[c] : Stores(R[c])[j] = R[c][j].store
      BY <3>2, StoresListed
    <3>5. \A j \in DOMAIN Q[c] : Stores(Q[c])[j] = Q[c][j].store
      BY <3>2, StoresListed
    <3>6. \A j \in DOMAIN R[c] : R[c][j].store = Q[c][j].store
      BY <3>2, <3>3, <3>4, <3>5
    <3>7. (i \in DOMAIN R[c] /\ R[c][i].store = s) <=> (i \in DOMAIN Q[c] /\ Q[c][i].store = s)
      BY <3>3, <3>6
    <3> QED
      BY <3>7 DEF c, i
  <2> HIDE DEF R, Q
  <2>2. Places(R, C, s) = Places(Q, C, s)
    BY <2>1 DEF Places
  <2>3. DOMAIN R = C /\ DOMAIN Q = C
    BY <1>3 DEF R, Q
  <2> QED
    BY <2>2, <2>3 DEF Held, R, Q
<1>6. Refs(e, H) = Refs(d, H)
  BY <1>1, <1>5 DEF Refs
<1>7. Shaped(e)
  BY <1>1 DEF Sound, Shaped
<1> QED
  BY <1>1, <1>2, <1>4, <1>6, <1>7 DEF Sound

(* mqtt3_db_message_timeout_check                                          *)
LEMMA TimeoutSound ==
    ASSUME NEW d, NEW H, NEW Z, Sound(d, H, Z), NEW late, late \subseteq Unanswered(d),
           \A c \in DOMAIN d.ctx : d.ctx[c].sock /\ d.ctx[c].id = NoId => d.ctx[c].msgs = <<>>
    PROVE  LET e == mqtt3_db_message_timeout_check(d, late)
           IN Goes(d, e, H, Z) /\ \A c \in DOMAIN d.ctx : \A f \in ContextFields \ {"msgs"} : e.ctx[c][f] = d.ctx[c][f]
<1> DEFINE One(c, i, m) == IF <<c, i>> \in late THEN [m EXCEPT !.state = Retry[m.state], !.dup = TRUE] ELSE m
           T(c) == [i \in DOMAIN d.ctx[c].msgs |-> One(c, i, d.ctx[c].msgs[i])]
           ctx == [c \in DOMAIN d.ctx |-> [d.ctx[c] EXCEPT !.msgs = T(c)]]
           e == [d EXCEPT !.ctx = ctx]
<1>0. mqtt3_db_message_timeout_check(d, late) = e
  BY DEF mqtt3_db_message_timeout_check
<1>1. Fields \subseteq DOMAIN d /\ d.last_db_id \in Nat
  BY SoundNat DEF Sound, Shaped
<1>2. ASSUME NEW c \in DOMAIN d.ctx, NEW i \in DOMAIN d.ctx[c].msgs
      PROVE  LET m == d.ctx[c].msgs[i]
             IN /\ Message(One(c, i, m)) /\ One(c, i, m).store = m.store /\ One(c, i, m).qos = m.qos
                /\ One(c, i, m).state = m.state \/ One(c, i, m).state # "queued"
  <2> DEFINE m == d.ctx[c].msgs[i]
  <2>1. Message(m)
    BY QueueOf
  <2>2. CASE <<c, i>> \in late
    <3>1. PICK b \in DOMAIN d.ctx : <<c, i>> \in {<<b, j>> : j \in {k \in DOMAIN d.ctx[b].msgs : d.ctx[b].msgs[k].state \in DOMAIN Retry}}
      BY <2>2 DEF Unanswered
    <3>2. b = c /\ i \in {k \in DOMAIN d.ctx[b].msgs : d.ctx[b].msgs[k].state \in DOMAIN Retry}
      BY <3>1
    <3>3. m.state \in DOMAIN Retry
      BY <3>2
    <3>4. Retry[m.state] \notin {"publish_qos0", "queued"}
      BY <3>3 DEF Retry
    <3>5. One(c, i, m) = [m EXCEPT !.state = Retry[m.state], !.dup = TRUE]
      BY <2>2
    <3> HIDE DEF m
    <3> QED
      BY <2>1, <3>4, <3>5 DEF Message, MsgFields, m
  <2>3. CASE <<c, i>> \notin late
    BY <2>1, <2>3
  <2> QED
    BY <2>2, <2>3
<1>12. ASSUME NEW c \in DOMAIN d.ctx, d.ctx[c].id = NoId
       PROVE  T(c) = d.ctx[c].msgs
  <2>1. CASE d.ctx[c].sock
    <3>1. d.ctx[c].msgs = <<>>
      BY <1>12, <2>1
    <3> QED
      BY <3>1
  <2>2. CASE ~d.ctx[c].sock
    <3>1. \A i \in DOMAIN d.ctx[c].msgs : <<c, i>> \notin late
      <4> SUFFICES ASSUME NEW i \in DOMAIN d.ctx[c].msgs, <<c, i>> \in late PROVE FALSE
        OBVIOUS
      <4>1. PICK b \in {x \in DOMAIN d.ctx : d.ctx[x].sock} : <<c, i>> \in {<<b, j>> : j \in {k \in DOMAIN d.ctx[b].msgs : d.ctx[b].msgs[k].state \in DOMAIN Retry}}
        BY DEF Unanswered
      <4>2. b = c
        BY <4>1
      <4> QED
        BY <2>2, <4>2
    <3>2. T(c) = [i \in DOMAIN d.ctx[c].msgs |-> d.ctx[c].msgs[i]]
      BY <3>1
    <3>3. d.ctx[c].msgs = [i \in DOMAIN d.ctx[c].msgs |-> d.ctx[c].msgs[i]]
      <4>1. Listed(d.ctx[c].msgs)
        BY QueueOf
      <4> QED
        BY <4>1, ListedDomain
    <3> QED
      BY <3>2, <3>3
  <2> QED
    BY <2>1, <2>2
<1> HIDE DEF One
<1>3. ASSUME NEW c \in DOMAIN d.ctx
      PROVE  /\ Queue(T(c)) /\ Stores(T(c)) = Stores(d.ctx[c].msgs) /\ Mark(T(c)) = Mark(d.ctx[c].msgs)
             /\ Flows(d.ctx[c].msgs) => Flows(T(c))
  <2> DEFINE t == T(c)
             msgs == d.ctx[c].msgs
  <2>1. DOMAIN t = DOMAIN msgs /\ t = [i \in DOMAIN t |-> t[i]]
        /\ \A i \in DOMAIN msgs : t[i] = One(c, i, msgs[i])
    OBVIOUS
  <2> HIDE DEF t
  <2>2. \A i \in DOMAIN msgs : /\ Message(t[i]) /\ t[i].store = msgs[i].store /\ t[i].qos = msgs[i].qos
                               /\ t[i].state = msgs[i].state \/ t[i].state # "queued"
    BY <1>2, <2>1
  <2>3. Queue(msgs)
    BY QueueOf
  <2>4. Flows(msgs) => Flows(t)
    BY <2>1, <2>2 DEF Flows
  <2> HIDE DEF msgs
  <2> QED
    BY ZenonT(60), <2>1, <2>2, <2>3, <2>4, QueueSame DEF t, msgs
<1>4. ASSUME NEW c \in DOMAIN d.ctx
      PROVE  /\ ctx[c].msgs = T(c) /\ Context(ctx[c])
             /\ \A f \in ContextFields \ {"msgs"} : ctx[c][f] = d.ctx[c][f]
  <2> DEFINE x == d.ctx[c]
  <2>1. Context(x)
    BY QueueOf
  <2>2. ctx[c] = [x EXCEPT !.msgs = T(c)]
    OBVIOUS
  <2> HIDE DEF x, T, ctx
  <2> QED
    BY <2>1, <2>2 DEF Context, ContextFields, x
<1>5. DOMAIN e = DOMAIN d /\ (\A f \in DOMAIN d \ {"ctx"} : e[f] = d[f]) /\ e.ctx = ctx /\ DOMAIN ctx = DOMAIN d.ctx
  BY <1>1 DEF Fields
<1> HIDE DEF e, ctx
<1>6. \A c \in DOMAIN d.ctx : Context(e.ctx[c]) /\ e.ctx[c].subs = d.ctx[c].subs
                              /\ e.ctx[c].msgs = T(c) /\ e.ctx[c].count12 = d.ctx[c].count12
  BY <1>4, <1>5 DEF ContextFields
<1>7. \A c \in DOMAIN d.ctx : d.ctx[c].id = NoId => T(c) = d.ctx[c].msgs
  BY <1>12
<1> HIDE DEF T
<1>8. Sound(e, H, Z)
  <2>1. DOMAIN e.ctx = DOMAIN d.ctx
    BY <1>5
  <2> QED
    BY <1>3, <1>5, <1>6, <2>1, QueuesAltered
<1>9. \A c \in DOMAIN d.ctx : SameClient(d.ctx[c], e.ctx[c])
  <2> SUFFICES ASSUME NEW c \in DOMAIN d.ctx PROVE SameClient(d.ctx[c], e.ctx[c])
    OBVIOUS
  <2>1. \A f \in {"id", "sock", "state", "clean", "username", "password", "acl", "will"} : e.ctx[c][f] = d.ctx[c][f]
    BY <1>4, <1>5 DEF ContextFields
  <2>2. Paced(d.ctx[c]) => Paced(e.ctx[c])
    BY <1>3, <1>6, <2>1 DEF Paced, Tally
  <2> QED
    BY <1>6, <1>7, <2>1, <2>2 DEF SameClient
<1>10. Keeps(d, e) /\ Stands(d, e)
  BY <1>1, <1>5, <1>9 DEF Keeps, Stands, Fields
<1>11. \A c \in DOMAIN d.ctx : \A f \in ContextFields \ {"msgs"} : e.ctx[c][f] = d.ctx[c][f]
  BY <1>4, <1>5
<1> QED
  BY <1>0, <1>8, <1>10, <1>11 DEF Goes
-----------------------------------------------------------------------------
(* Retained messages for a new subscription; acknowledgements.             *)

(* A finite set of numbers has a least one.                                *)
Least(z, acc, x) == IF acc <= x THEN acc ELSE x
(* The smallest element so far.                                            *)
LeastOf(z, done, acc) == acc \in done \cup {z} /\ \A y \in done \cup {z} : acc <= y
(* The induction over the set.                                             *)
Lst == INSTANCE FoldInduction WITH Op <- Least, Inv <- LeastOf

(* Min is the least element of a set of numbers.                           *)
LEMMA MinIn ==
    ASSUME NEW S, S \subseteq Nat, IsFiniteSet(S), S # {}
    PROVE  Min(S) \in S /\ \A y \in S : Min(S) <= y
<1>0. PICK z \in S : TRUE
  OBVIOUS
<1>1. LeastOf(z, {}, z)
  BY DEF LeastOf
<1>2. ASSUME NEW done \in SUBSET S, NEW x \in S \ done, NEW acc, LeastOf(z, done, acc)
      PROVE  LeastOf(z, done \cup {x}, Least(z, acc, x))
  <2>1. /\ acc \in done \cup {z} /\ acc \in Nat /\ x \in Nat
        /\ \A y \in done \cup {z} : y \in Nat /\ acc <= y
    BY <1>2 DEF LeastOf
  <2>2. CASE acc <= x
    BY <2>1, <2>2 DEF Least, LeastOf
  <2>3. CASE ~(acc <= x)
    <3>1. Least(z, acc, x) = x
      BY <2>3 DEF Least
    <3>2. \A y \in (done \cup {x}) \cup {z} : x <= y
      BY <2>1, <2>3
    <3> QED
      BY <3>1, <3>2 DEF LeastOf
  <2> QED
    BY <2>2, <2>3
<1>3. \A done \in SUBSET S : \A x \in S \ done : \A acc :
         LeastOf(z, done, acc) => LeastOf(z, done \cup {x}, Least(z, acc, x))
  BY <1>2
<1>4. Numbered(S)
  BY FiniteNumbered
<1>5. LeastOf(z, S, Lst!OfSet(z, z, S))
  BY <1>1, <1>3, <1>4, Lst!SetInduction DEF Numbered
<1>6. PICK m : m \in S /\ \A y \in S : m <= y
  BY <1>5 DEF LeastOf
<1> QED
  BY <1>6 DEF Min

(* From one database to a later one, whose tree may be another.            *)
Moves(d, e, H, Z) == Sound(e, H, Z) /\ Keeps(d, e)

(* Doing nothing.                                                          *)
LEMMA MovesSelf == ASSUME NEW d, NEW H, NEW Z, Sound(d, H, Z) PROVE Moves(d, d, H, Z)
BY SoundNat, KeepsSelf DEF Moves

(* One step after the other.                                               *)
LEMMA MovesOn ==
    ASSUME NEW d, NEW G, NEW Y, Sound(d, G, Y), NEW e, NEW f, NEW H, NEW Z, NEW I, NEW X,
           Moves(d, e, H, Z), Moves(e, f, I, X)
    PROVE  Moves(d, f, I, X)
<1>1. d.last_db_id \in Nat /\ e.last_db_id \in Nat /\ f.last_db_id \in Nat
  BY SoundNat DEF Moves
<1> QED
  BY <1>1, KeepsTrans DEF Moves
-----------------------------------------------------------------------------
(* mqtt3_retain_queue                                                      *)
GiveRetained(c, d, p) == _retain_process(d, c.c, c.qos, p)
(* The induction over the nodes with retained messages.                    *)
Giving == INSTANCE FoldInduction WITH Op <- GiveRetained, Inv <- Led

(* mqtt3_retain_queue                                                      *)
LEMMA RetainQueueSound ==
    ASSUME NEW d, NEW H, NEW Z, Sound(d, H, Z), NEW x \in DOMAIN d.ctx, NEW sub, NEW sub_qos
    PROVE  Goes(d, mqtt3_retain_queue(d, x, sub, sub_qos), H, Z)
<1> DEFINE nodes == _retain_search(d.tree, _sub_topic_tokenise(sub))
           n == Len(nodes)
           c == [d |-> d, H |-> H, Z |-> Z, c |-> x, qos |-> sub_qos]
<1>1. Listed(nodes) /\ Range(nodes) \subseteq Range(d.tree)
  BY SearchListed DEF Sound, Wooded
<1>2. mqtt3_retain_queue(d, x, sub, sub_qos) = FoldLeft(LAMBDA a, p : _retain_process(a, x, sub_qos, p), d, nodes)
  BY DEF mqtt3_retain_queue
<1> HIDE DEF nodes
<1>3. n \in Nat /\ DOMAIN nodes = 1..n /\ \A i \in 1..n : nodes[i] \in Range(d.tree)
  BY <1>1, ListedDomain
<1>4. Led(c, 0, d)
  BY GoesSelf DEF Led
<1>5. ASSUME NEW k \in 0..(n - 1), NEW a, Led(c, k, a)
      PROVE  Led(c, k + 1, GiveRetained(c, a, nodes[k + 1]))
  <2> DEFINE p == nodes[k + 1]
             s == a.retained[p]
             to == Lower(a.store[s].qos, sub_qos)
  <2>1. Goes(d, a, H, Z)
    BY <1>5 DEF Led
  <2>2. k + 1 \in 1..n
    BY <1>3
  <2>3. p \in DOMAIN a.retained /\ Sound(a, H, Z) /\ x \in DOMAIN a.ctx
    <3>1. p \in Range(a.tree)
      BY <1>3, <2>1, <2>2 DEF Goes, Stands
    <3> QED
      BY <2>1, <3>1 DEF Goes, Keeps, Sound, Wooded
  <2> HIDE DEF p
  <2>4. s # 0 => s \in DOMAIN a.store
    BY <2>3, Referred
  <2>5. GiveRetained(c, a, p) = a \/ (s # 0 /\ GiveRetained(c, a, p) = Offer(a, x, to, TRUE, s))
    BY DEF GiveRetained, _retain_process
  <2> HIDE DEF to, s, c
  <2>6. Goes(a, GiveRetained(c, a, p), H, Z)
    <3>1. CASE GiveRetained(c, a, p) = a
      BY <2>3, <3>1, GoesSelf
    <3>2. CASE s # 0 /\ GiveRetained(c, a, p) = Offer(a, x, to, TRUE, s)
      BY <2>3, <2>4, <3>2, OfferSound
    <3> QED
      BY <2>5, <3>1, <3>2
  <2>7. Goes(d, GiveRetained(c, a, p), H, Z)
    BY <2>1, <2>6, GoesOn
  <2> QED
    BY <2>7 DEF Led, c, p
<1>6. Led(c, n, Giving!Left(c, d, nodes))
  <2>1. \A k \in 0..(n - 1) : \A a : Led(c, k, a) => Led(c, k + 1, GiveRetained(c, a, nodes[k + 1]))
    BY <1>5
  <2> HIDE DEF c, n
  <2> QED
    BY <1>3, <1>4, <2>1, Giving!LeftInduction
<1>7. Giving!Left(c, d, nodes) = FoldLeft(LAMBDA a, p : _retain_process(a, x, sub_qos, p), d, nodes)
  BY DEF Giving!Left, GiveRetained, FoldLeft, MapThenFoldSet, Max
<1> QED
  BY <1>2, <1>6, <1>7 DEF Led
-----------------------------------------------------------------------------
(* mqtt3_db_message_release: what a message stands for goes out ...        *)
LEMMA HandOutSound ==
    ASSUME NEW d, NEW H, NEW Z, Sound(d, H, Z), NEW m, m.store \in DOMAIN d.store
    PROVE  Moves(d, HandOut(d, m), H, Z)
<1> DEFINE st == d.store[m.store]
<1>1. CASE st.topic = <<>>
  BY <1>1, MovesSelf DEF HandOut
<1>2. CASE st.topic # <<>>
  <2>1. Listed(st.topic)
    BY DEF Sound, Stocked, StoredMsg
  <2> DEFINE topic == st.topic
  <2>3. Listed(topic)
    BY <2>1
  <2> DEFINE e == mqtt3_db_messages_queue(d, st.source, topic, st.qos, m.retain, m.store)
  <2>2. HandOut(d, m) = e
    BY <1>2 DEF HandOut
  <2> HIDE DEF topic
  <2>4. Sound(e, H, Z \ {m.store}) /\ Keeps(d, e)
    BY <2>3, QueueSound
  <2> HIDE DEF e
  <2>5. Sound(e, H, Z)
    BY <2>4, SoundMore
  <2> QED
    BY <2>2, <2>4, <2>5 DEF Moves
<1> QED
  BY <1>1, <1>2

(* ... and incoming messages that get their turn are acknowledged.         *)
SendRec(c, d, x) == Send(d, c.c, [cmd |-> "PUBREC", mid |-> x])
(* The induction over the messages to be acknowledged.                     *)
Acking == INSTANCE FoldInduction WITH Op <- SendRec, Inv <- Led

(* Queued messages take the place of completed ones.                       *)
LEMMA AdmitSound ==
    ASSUME NEW d, NEW H, NEW Z, Sound(d, H, Z), NEW x \in DOMAIN d.ctx, d.ctx[x].id # NoId,
           NEW scan, Scanned(d.ctx[x].msgs, scan)
    PROVE  Goes(d, Admit(d, x, scan), H, Z)
<1> DEFINE b == AfterScan(d, x, scan)
           seq == scan.admitted
           n == Len(seq)
           c == [d |-> b, H |-> H, Z |-> Z, c |-> x]
<1>1. Admit(d, x, scan) = FoldLeft(LAMBDA a, y : Send(a, x, [cmd |-> "PUBREC", mid |-> y]), b, seq)
  BY DEF Admit
<1>2. Goes(d, b, H, Z)
  BY AfterScanSound
<1> HIDE DEF b
<1>3. n \in Nat /\ DOMAIN seq = 1..n
  BY ListedDomain DEF Scanned
<1> HIDE DEF seq
<1>4. Sound(b, H, Z) /\ x \in DOMAIN b.ctx
  BY <1>2 DEF Goes, Keeps
<1>5. Led(c, 0, b)
  BY <1>4, GoesSelf DEF Led
<1>6. ASSUME NEW k \in 0..(n - 1), NEW a, Led(c, k, a)
      PROVE  Led(c, k + 1, SendRec(c, a, seq[k + 1]))
  <2> DEFINE p == [cmd |-> "PUBREC", mid |-> seq[k + 1]]
  <2>1. Goes(b, a, H, Z)
    BY <1>6 DEF Led
  <2>2. Sound(a, H, Z) /\ x \in DOMAIN a.ctx
    BY <1>4, <2>1 DEF Goes, Keeps
  <2>3. SendRec(c, a, seq[k + 1]) = Send(a, x, p)
    BY DEF SendRec
  <2> HIDE DEF p
  <2>4. Goes(a, Send(a, x, p), H, Z)
    BY <2>2, SendSound DEF Goes
  <2>5. Goes(b, Send(a, x, p), H, Z)
    BY <1>4, <2>1, <2>4, GoesOn
  <2> QED
    BY <2>3, <2>5 DEF Led
<1>7. Led(c, n, Acking!Left(c, b, seq))
  <2>1. \A k \in 0..(n - 1) : \A a : Led(c, k, a) => Led(c, k + 1, SendRec(c, a, seq[k + 1]))
    BY <1>6
  <2> HIDE DEF c, n
  <2> QED
    BY <1>3, <1>5, <2>1, Acking!LeftInduction
<1>8. Acking!Left(c, b, seq) = FoldLeft(LAMBDA a, y : Send(a, x, [cmd |-> "PUBREC", mid |-> y]), b, seq)
  BY DEF Acking!Left, SendRec, FoldLeft, MapThenFoldSet, Max
<1>9. Goes(b, Admit(d, x, scan), H, Z)
  BY <1>1, <1>7, <1>8 DEF Led
<1> QED
  BY <1>2, <1>9, GoesOn

(* mqtt3_db_message_release                                                *)
LEMMA ReleaseSound ==
    ASSUME NEW d, NEW H, NEW Z, Sound(d, H, Z), NEW c \in DOMAIN d.ctx, d.ctx[c].id # NoId, NEW mid
    PROVE  Moves(d, mqtt3_db_message_release(d, c, mid), H, Z)
<1> DEFINE hits == {i \in DOMAIN d.ctx[c].msgs : d.ctx[c].msgs[i].mid = mid /\ d.ctx[c].msgs[i].dir = "in"}
           m == d.ctx[c].msgs[Min(hits)]
           b == IF hits = {} THEN d ELSE HandOut(d, m)
<1>1. mqtt3_db_message_release(d, c, mid) = Admit(b, c, Scan(b.ctx[c].msgs, mid, "in", 0))
  BY DEF mqtt3_db_message_release, ScannedIn
<1>2. Moves(d, b, H, Z)
  <2>1. CASE hits = {}
    BY <2>1, MovesSelf
  <2>2. CASE hits # {}
    <3>1. /\ hits \subseteq DOMAIN d.ctx[c].msgs /\ IsFiniteSet(DOMAIN d.ctx[c].msgs)
          /\ DOMAIN d.ctx[c].msgs \subseteq Nat
      BY QueueOf, ListedDomain
    <3>2. IsFiniteSet(hits) /\ hits \subseteq Nat
      BY <3>1, FS_Subset
    <3>3. Min(hits) \in hits
      <4> HIDE DEF hits
      <4> QED
        BY <2>2, <3>2, MinIn
    <3>4. Min(hits) \in DOMAIN d.ctx[c].msgs
      BY <3>3
    <3> DEFINE i == Min(hits)
    <3> HIDE DEF hits, i
    <3>5. d.ctx[c].msgs[i].store \in DOMAIN d.store
      BY <3>4, Referred DEF i
    <3> HIDE DEF m
    <3>6. Moves(d, HandOut(d, m), H, Z)
      BY <3>5, HandOutSound DEF m, i
    <3> QED
      BY <2>2, <3>6
  <2> QED
    BY <2>1, <2>2
<1> HIDE DEF b
<1>3. Sound(b, H, Z) /\ c \in DOMAIN b.ctx /\ b.ctx[c].id # NoId
  BY <1>2 DEF Moves, Keeps, SameClient
<1>4. Scanned(b.ctx[c].msgs, Scan(b.ctx[c].msgs, mid, "in", 0))
  BY <1>3, QueueOf, ScanIs
<1>5. Goes(b, Admit(b, c, Scan(b.ctx[c].msgs, mid, "in", 0)), H, Z)
  BY <1>3, <1>4, AdmitSound
<1> QED
  BY <1>1, <1>2, <1>5, MovesOn DEF Goes, Moves
-----------------------------------------------------------------------------
(* mqtt3_sub_add                                                           *)

(* The subscriptions at one node change, and with them the list of one     *)
(* context.                                                                *)
LEMMA LeafyAt ==
    ASSUME NEW subs, NEW L, Leafy(subs, L), NEW p \in DOMAIN subs, NEW S, DOMAIN S = DOMAIN subs,
           \A q \in DOMAIN subs \ {p} : S[q] = subs[q],
           NEW M, DOMAIN M = DOMAIN L, NEW c \in DOMAIN L, \A x \in DOMAIN L \ {c} : M[x] = L[x],
           M[c] \subseteq DOMAIN subs, \A q \in DOMAIN subs \ {p} : q \in M[c] <=> q \in L[c],
           Once(S[p]), \A i \in DOMAIN S[p] : {"ctx", "qos"} \subseteq DOMAIN S[p][i],
           \A i \in DOMAIN S[p] : S[p][i].ctx \in DOMAIN L,
           \A x \in DOMAIN L : p \in M[x] <=> \E i \in DOMAIN S[p] : S[p][i].ctx = x,
           p \in M[c] => Proper(p)
    PROVE  Leafy(S, M)
<1>1. \A q \in DOMAIN S : Once(S[q])
  BY DEF Leafy
<1>2. \A q \in DOMAIN S : \A i \in DOMAIN S[q] : {"ctx", "qos"} \subseteq DOMAIN S[q][i]
  BY DEF Leafy
<1>3. \A q \in DOMAIN S : \A i \in DOMAIN S[q] : S[q][i].ctx \in DOMAIN M
  BY DEF Leafy
<1>4. \A x \in DOMAIN M : M[x] \subseteq DOMAIN S
  BY DEF Leafy
<1>5. ASSUME NEW x \in DOMAIN M, NEW q \in DOMAIN S
      PROVE  q \in M[x] <=> \E i \in DOMAIN S[q] : S[q][i].ctx = x
  <2>1. CASE q = p
    BY <2>1
  <2>2. CASE q # p
    <3>1. q \in L[x] <=> \E i \in DOMAIN subs[q] : subs[q][i].ctx = x
      BY DEF Leafy
    <3>2. S[q] = subs[q]
      BY <2>2
    <3>3. q \in M[x] <=> q \in L[x]
      BY <2>2
    <3> QED
      BY <3>1, <3>2, <3>3
  <2> QED
    BY <2>1, <2>2
<1>6. \A x \in DOMAIN M : \A q \in M[x] : Proper(q)
  BY DEF Leafy
<1> QED
  BY <1>1, <1>2, <1>3, <1>4, <1>5, <1>6 DEF Leafy

(* Only the leaves of one client have changed.                             *)
OnlyLeaves(d, e, c) ==
    /\ DOMAIN e = DOMAIN d /\ \A f \in DOMAIN d \ {"ctx", "subs"} : e[f] = d[f]
    /\ DOMAIN e.subs = DOMAIN d.subs
    /\ DOMAIN e.ctx = DOMAIN d.ctx /\ \A x \in DOMAIN d.ctx \ {c} : e.ctx[x] = d.ctx[x]
    /\ DOMAIN e.ctx[c] = DOMAIN d.ctx[c]
    /\ \A f \in DOMAIN d.ctx[c] \ {"subs"} : e.ctx[c][f] = d.ctx[c][f]

(* ... and agree with what it lists.                                       *)
LEMMA LeavesChanged ==
    ASSUME NEW d, NEW H, NEW Z, Sound(d, H, Z), NEW c \in DOMAIN d.ctx, NEW e, OnlyLeaves(d, e, c),
           Leafy(e.subs, Lists(e))
    PROVE  /\ Sound(e, H, Z) /\ e.roots = d.roots /\ e.tree = d.tree
           /\ d.ctx[c].id # NoId => Keeps(d, e)
<1>1. /\ Fields \subseteq DOMAIN e /\ e.store = d.store /\ e.last_db_id = d.last_db_id
      /\ e.roots = d.roots /\ e.tree = d.tree /\ e.retained = d.retained
      /\ e.disused = d.disused /\ e.sec = d.sec /\ DOMAIN e.subs = DOMAIN d.subs
      /\ DOMAIN e.ctx = DOMAIN d.ctx
  BY DEF Sound, Shaped, Fields, OnlyLeaves
<1>2. Context(d.ctx[c]) /\ ContextFields \subseteq DOMAIN d.ctx[c]
  BY QueueOf DEF Context
<1>3. \A f \in ContextFields \ {"subs"} : e.ctx[c][f] = d.ctx[c][f]
  BY <1>2 DEF OnlyLeaves
<1>4. Context(e.ctx[c])
  BY <1>2, <1>3 DEF Context, OnlyLeaves, ContextFields
<1>5. \A x \in DOMAIN d.ctx : Context(e.ctx[x])
  BY <1>4, QueueOf DEF OnlyLeaves
<1>6. Shaped(e)
  BY <1>1, <1>5 DEF Sound, Shaped
<1>7. Queues(e) = Queues(d)
  <2>1. \A x \in DOMAIN d.ctx : e.ctx[x].msgs = d.ctx[x].msgs
    <3>1. e.ctx[c].msgs = d.ctx[c].msgs
      BY <1>3 DEF ContextFields
    <3> QED
      BY <3>1 DEF OnlyLeaves
  <2> QED
    BY <1>1, <2>1 DEF Queues
<1>8. Refs(e, H) = Refs(d, H)
  BY <1>1, <1>7 DEF Refs
<1>9. Sound(e, H, Z)
  BY <1>1, <1>6, <1>7, <1>8 DEF Sound, Wooded
<1>10. ASSUME d.ctx[c].id # NoId PROVE Keeps(d, e)
  <2>1. SameClient(d.ctx[c], e.ctx[c])
    BY <1>3, <1>10 DEF SameClient, ContextFields, Paced, Tally
  <2>2. \A x \in DOMAIN d.ctx : SameClient(d.ctx[x], e.ctx[x])
    BY <2>1 DEF OnlyLeaves, SameClient
  <2>3. d.last_db_id \in Nat
    BY SoundNat
  <2> QED
    BY <1>1, <2>2, <2>3 DEF Keeps
<1> QED
  BY <1>1, <1>9, <1>10

(* The subscriptions of a node without those of one context.               *)
LEMMA NotOfIs ==
    ASSUME NEW c, NEW leaves, Once(leaves)
    PROVE  /\ Once(NotOf(c, leaves))
           /\ \A i \in DOMAIN NotOf(c, leaves) : \E j \in DOMAIN leaves : NotOf(c, leaves)[i] = leaves[j]
           /\ \A x : (\E i \in DOMAIN NotOf(c, leaves) : NotOf(c, leaves)[i].ctx = x)
                     <=> (x # c /\ \E i \in DOMAIN leaves : leaves[i].ctx = x)
<1> DEFINE I == {i \in DOMAIN leaves : leaves[i].ctx # c}
           t == Picked(leaves, I)
<1>0. NotOf(c, leaves) = t
  BY DEF NotOf
<1>1. PICK e : Listed(t) /\ Embeds(leaves, I, t, e)
  BY PickedListed DEF Once
<1>2. DOMAIN t = 1..Len(t) /\ Len(t) \in Nat
  BY <1>1, ListedDomain
<1>3. /\ \A j \in DOMAIN t : e[j] \in DOMAIN leaves /\ leaves[e[j]].ctx # c /\ t[j] = leaves[e[j]]
      /\ \A i \in DOMAIN leaves : leaves[i].ctx # c => \E j \in DOMAIN t : e[j] = i
      /\ \A j, k \in DOMAIN t : j < k => e[j] < e[k]
  <2> HIDE DEF t
  <2> QED
    BY <1>1, <1>2 DEF Embeds
<1>4. Once(t)
  <2>1. ASSUME NEW j \in DOMAIN t, NEW k \in DOMAIN t, t[j].ctx = t[k].ctx PROVE j = k
    <3>1. e[j] = e[k]
      BY <1>3, <2>1 DEF Once
    <3>2. j \in Nat /\ k \in Nat /\ e[j] \in Nat /\ e[k] \in Nat
      <4>1. DOMAIN leaves \subseteq Nat
        BY ListedDomain DEF Once
      <4> HIDE DEF t
      <4> QED
        BY <1>2, <1>3, <4>1
    <3>3. ~(j < k) /\ ~(k < j)
      <4> HIDE DEF t
      <4> QED
        BY <1>3, <3>1, <3>2
    <3> QED
      BY <3>2, <3>3
  <2> QED
    BY <1>1, <2>1 DEF Once
<1> HIDE DEF t
<1>5. ASSUME NEW x
      PROVE  (\E i \in DOMAIN t : t[i].ctx = x) <=> (x # c /\ \E i \in DOMAIN leaves : leaves[i].ctx = x)
  <2>1. ASSUME NEW i \in DOMAIN t, t[i].ctx = x PROVE x # c /\ \E k \in DOMAIN leaves : leaves[k].ctx = x
    BY <1>3, <2>1
  <2>2. ASSUME x # c, NEW k \in DOMAIN leaves, leaves[k].ctx = x PROVE \E i \in DOMAIN t : t[i].ctx = x
    <3>1. PICK j \in DOMAIN t : e[j] = k
      BY <1>3, <2>2
    <3>2. t[j].ctx = x
      BY <1>3, <2>2, <3>1
    <3> QED
      BY <3>2
  <2> QED
    BY <2>1, <2>2
<1>6. \A i \in DOMAIN t : \E j \in DOMAIN leaves : t[i] = leaves[j]
  BY <1>3
<1> QED
  BY <1>0, <1>4, <1>5, <1>6

(* A context leaves a node.                                                *)
LEMMA NodeLeft ==
    ASSUME NEW d, NEW H, NEW Z, Sound(d, H, Z), NEW c \in DOMAIN d.ctx, NEW p \in DOMAIN d.subs
    PROVE  LET e == [d EXCEPT !.subs[p] = NotOf(c, @), !.ctx[c].subs = @ \ {p}]
           IN /\ Sound(e, H, Z) /\ e.roots = d.roots /\ e.tree = d.tree
              /\ d.ctx[c].id # NoId => Keeps(d, e)
              /\ OnlyLeaves(d, e, c)
<1> DEFINE e == [d EXCEPT !.subs[p] = NotOf(c, @), !.ctx[c].subs = @ \ {p}]
           t == NotOf(c, d.subs[p])
<1>1. Fields \subseteq DOMAIN d /\ Context(d.ctx[c])
  BY QueueOf
<1>2. /\ DOMAIN e = DOMAIN d /\ \A f \in DOMAIN d \ {"ctx", "subs"} : e[f] = d[f]
      /\ e.subs = [d.subs EXCEPT ![p] = t]
      /\ e.ctx = [d.ctx EXCEPT ![c].subs = @ \ {p}]
  BY <1>1 DEF Fields
<1> HIDE DEF e, t
<1>3. OnlyLeaves(d, e, c) /\ e.ctx[c].subs = d.ctx[c].subs \ {p}
  BY <1>1, <1>2 DEF OnlyLeaves, Context, ContextFields
<1>4. Leafy(d.subs, Lists(d)) /\ Once(d.subs[p])
  BY DEF Sound, Leafy
<1>5. Leafy(e.subs, Lists(e))
  <2>1. DOMAIN Lists(d) = DOMAIN d.ctx /\ \A x \in DOMAIN d.ctx : Lists(d)[x] = d.ctx[x].subs
    BY DEF Lists
  <2>2. DOMAIN Lists(e) = DOMAIN d.ctx /\ \A x \in DOMAIN d.ctx : Lists(e)[x] = e.ctx[x].subs
    BY <1>3 DEF Lists, OnlyLeaves
  <2> DEFINE L == Lists(d)
             M == Lists(e)
             S == e.subs
             N == d.subs
  <2>3. /\ DOMAIN S = DOMAIN N /\ S[p] = t /\ \A q \in DOMAIN N \ {p} : S[q] = N[q]
    BY <1>2
  <2>4. \A x \in DOMAIN L \ {c} : M[x] = L[x]
    BY <1>3, <2>1, <2>2 DEF OnlyLeaves
  <2>5. M[c] = L[c] \ {p}
    BY <1>3, <2>1, <2>2
  <2>6. /\ Once(t)
        /\ \A i \in DOMAIN t : \E j \in DOMAIN N[p] : t[i] = N[p][j]
        /\ \A x : (\E i \in DOMAIN t : t[i].ctx = x) <=> (x # c /\ \E i \in DOMAIN N[p] : N[p][i].ctx = x)
    BY <1>4, NotOfIs DEF t
  <2>7. DOMAIN M = DOMAIN L /\ c \in DOMAIN L /\ Leafy(N, L)
    BY <1>4, <2>1, <2>2
  <2> HIDE DEF L, M, S, N
  <2>8. p \in DOMAIN N
    BY DEF N
  <2>9. M[c] \subseteq DOMAIN N /\ \A q \in DOMAIN N \ {p} : q \in M[c] <=> q \in L[c]
    BY <2>5, <2>7 DEF Leafy
  <2>10. Once(S[p]) /\ \A i \in DOMAIN S[p] : {"ctx", "qos"} \subseteq DOMAIN S[p][i]
    BY <2>3, <2>6, <2>7, <2>8 DEF Leafy
  <2>11. \A i \in DOMAIN S[p] : S[p][i].ctx \in DOMAIN L
    BY <2>3, <2>6, <2>7, <2>8 DEF Leafy
  <2>12. \A x \in DOMAIN L : p \in M[x] <=> \E i \in DOMAIN S[p] : S[p][i].ctx = x
    <3> SUFFICES ASSUME NEW x \in DOMAIN L PROVE p \in M[x] <=> \E i \in DOMAIN S[p] : S[p][i].ctx = x
      OBVIOUS
    <3>1. p \in L[x] <=> \E i \in DOMAIN N[p] : N[p][i].ctx = x
      BY <2>7, <2>8 DEF Leafy
    <3>2. CASE x = c
      BY <2>3, <2>5, <2>6, <3>2
    <3>3. CASE x # c
      BY <2>3, <2>4, <2>6, <3>1, <3>3
    <3> QED
      BY <3>2, <3>3
  <2>13. Leafy(S, M)
    BY <2>3, <2>4, <2>5, <2>7, <2>8, <2>9, <2>10, <2>11, <2>12, LeafyAt
  <2> QED
    BY <2>13 DEF S, M
<1>6. Sound(e, H, Z) /\ e.roots = d.roots /\ e.tree = d.tree /\ (d.ctx[c].id # NoId => Keeps(d, e))
  BY <1>3, <1>5, LeavesChanged
<1> QED
  BY <1>3, <1>6 DEF e
-----------------------------------------------------------------------------
(* mqtt3_sub_remove                                                        *)

(* Unsubscribing keeps the database sound.                                 *)
LEMMA SubRemoveSound ==
    ASSUME NEW d, NEW H, NEW Z, Sound(d, H, Z), NEW c \in DOMAIN d.ctx, d.ctx[c].id # NoId,
           NEW sub, Topic(sub)
    PROVE  Moves(d, mqtt3_sub_remove(d, c, sub), H, Z)
<1> DEFINE tokens == _sub_topic_tokenise(sub)
           e == [d EXCEPT !.subs[tokens] = NotOf(c, @), !.ctx[c].subs = @ \ {tokens}]
<1>1. Listed(tokens)
  BY TokensListed DEF Topic
<1>2. mqtt3_sub_remove(d, c, sub) = IF tokens \in Range(d.tree) THEN DropNodes(e, tokens) ELSE DropNodes(d, tokens)
  BY DEF mqtt3_sub_remove
<1>3. CASE tokens \in Range(d.tree)
  <2>1. tokens \in DOMAIN d.subs
    BY <1>3 DEF Sound, Wooded
  <2> HIDE DEF tokens
  <2>2. Sound(e, H, Z) /\ Keeps(d, e)
    BY <2>1, NodeLeft
  <2> HIDE DEF e
  <2>3. Sound(DropNodes(e, tokens), H, Z) /\ Keeps(e, DropNodes(e, tokens))
    BY <1>1, <2>2, DropNodesSound
  <2>4. Moves(d, DropNodes(e, tokens), H, Z)
    BY <2>2, <2>3, MovesOn DEF Moves
  <2> QED
    BY <1>2, <1>3, <2>4
<1>4. CASE tokens \notin Range(d.tree)
  <2> HIDE DEF tokens
  <2>1. Moves(d, DropNodes(d, tokens), H, Z)
    BY <1>1, DropNodesSound DEF Moves
  <2> QED
    BY <1>2, <1>4, <2>1
<1> QED
  BY <1>3, <1>4

(* A subscription changes its QoS.                                         *)
LEMMA LeafRaised ==
    ASSUME NEW d, NEW H, NEW Z, Sound(d, H, Z), NEW c \in DOMAIN d.ctx, d.ctx[c].id # NoId,
           NEW p \in DOMAIN d.subs, NEW k \in DOMAIN d.subs[p], NEW qos
    PROVE  Moves(d, [d EXCEPT !.subs[p][k].qos = qos], H, Z)
<1> DEFINE e == [d EXCEPT !.subs[p][k].qos = qos]
           t == [d.subs[p] EXCEPT ![k].qos = qos]
<1>1. Fields \subseteq DOMAIN d
  BY QueueOf
<1>2. /\ DOMAIN e = DOMAIN d /\ \A f \in DOMAIN d \ {"subs"} : e[f] = d[f]
      /\ e.subs = [d.subs EXCEPT ![p] = t]
  BY <1>1 DEF Fields
<1>3. DOMAIN t = DOMAIN d.subs[p]
      /\ \A i \in DOMAIN t : t[i] = IF i = k THEN [d.subs[p][k] EXCEPT !.qos = qos] ELSE d.subs[p][i]
  OBVIOUS
<1>4. Leafy(d.subs, Lists(d)) /\ Once(d.subs[p])
      /\ \A i \in DOMAIN d.subs[p] : {"ctx", "qos"} \subseteq DOMAIN d.subs[p][i]
  BY DEF Sound, Leafy
<1>5. \A i \in DOMAIN t : t[i].ctx = d.subs[p][i].ctx /\ {"ctx", "qos"} \subseteq DOMAIN t[i]
  <2> SUFFICES ASSUME NEW i \in DOMAIN t PROVE t[i].ctx = d.subs[p][i].ctx /\ {"ctx", "qos"} \subseteq DOMAIN t[i]
    OBVIOUS
  <2>1. {"ctx", "qos"} \subseteq DOMAIN d.subs[p][i]
    BY <1>3, <1>4
  <2>2. t[i] = [d.subs[p][i] EXCEPT !.qos = qos] \/ t[i] = d.subs[p][i]
    BY <1>3
  <2> HIDE DEF t
  <2> QED
    BY <2>1, <2>2
<1>6. Once(t)
  <2>1. Listed(t)
    <3>1. DOMAIN d.subs[p] = 1..Len(d.subs[p]) /\ Len(d.subs[p]) \in Nat
      BY <1>4, ListedDomain DEF Once
    <3>2. t = [i \in 1..Len(d.subs[p]) |-> t[i]]
      BY <3>1
    <3> HIDE DEF t
    <3> QED
      BY <3>1, <3>2, FunctionListed
  <2> HIDE DEF t
  <2> QED
    BY <1>3, <1>4, <1>5, <2>1 DEF Once
<1> HIDE DEF e, t
<1>7. e.ctx = d.ctx
  BY <1>1, <1>2 DEF Fields
<1>8. OnlyLeaves(d, e, c)
  BY <1>2, <1>7 DEF OnlyLeaves
<1>9. Leafy(e.subs, Lists(e))
  <2> DEFINE L == Lists(d)
             S == e.subs
             N == d.subs
  <2>1. Lists(e) = L /\ c \in DOMAIN L /\ Leafy(N, L)
    BY <1>4, <1>7 DEF Lists
  <2>2. DOMAIN S = DOMAIN N /\ S[p] = t /\ \A q \in DOMAIN N \ {p} : S[q] = N[q]
    BY <1>2
  <2>3. p \in DOMAIN N /\ DOMAIN t = DOMAIN N[p]
    BY <1>3
  <2>4. \A i \in DOMAIN t : t[i].ctx = N[p][i].ctx /\ {"ctx", "qos"} \subseteq DOMAIN t[i]
    BY <1>5
  <2> HIDE DEF L, S, N
  <2>5. \A i \in DOMAIN S[p] : S[p][i].ctx \in DOMAIN L
    BY <2>1, <2>2, <2>3, <2>4 DEF Leafy
  <2>6. \A x \in DOMAIN L : p \in L[x] <=> \E i \in DOMAIN S[p] : S[p][i].ctx = x
    BY <2>1, <2>2, <2>3, <2>4 DEF Leafy
  <2>7. L[c] \subseteq DOMAIN N /\ \A q \in L[c] : Proper(q)
    BY <2>1 DEF Leafy
  <2>8. Once(S[p]) /\ \A i \in DOMAIN S[p] : {"ctx", "qos"} \subseteq DOMAIN S[p][i]
    BY <1>6, <2>2, <2>4
  <2>9. Leafy(S, L)
    BY <2>1, <2>2, <2>3, <2>5, <2>6, <2>7, <2>8, LeafyAt
  <2> QED
    BY <2>1, <2>9 DEF S
<1>10. Sound(e, H, Z) /\ Keeps(d, e)
  BY <1>8, <1>9, LeavesChanged
<1> QED
  BY <1>10 DEF Moves, e

(* A context comes to a node.                                              *)
LEMMA LeafAdded ==
    ASSUME NEW d, NEW H, NEW Z, Sound(d, H, Z), NEW c \in DOMAIN d.ctx, d.ctx[c].id # NoId,
           NEW p \in DOMAIN d.subs, \A i \in DOMAIN d.subs[p] : d.subs[p][i].ctx # c, Proper(p), NEW qos
    PROVE  Moves(d, [d EXCEPT !.subs[p] = Append(@, [ctx |-> c, qos |-> qos]),
                              !.ctx[c].subs = @ \cup {p}], H, Z)
<1> DEFINE leaf == [ctx |-> c, qos |-> qos]
           t == Append(d.subs[p], leaf)
           e == [d EXCEPT !.subs[p] = Append(@, [ctx |-> c, qos |-> qos]), !.ctx[c].subs = @ \cup {p}]
<1>1. Fields \subseteq DOMAIN d /\ Context(d.ctx[c])
  BY QueueOf
<1>2. /\ DOMAIN e = DOMAIN d /\ \A f \in DOMAIN d \ {"ctx", "subs"} : e[f] = d[f]
      /\ e.subs = [d.subs EXCEPT ![p] = t]
      /\ e.ctx = [d.ctx EXCEPT ![c].subs = @ \cup {p}]
  BY <1>1 DEF Fields
<1>3. leaf.ctx = c /\ DOMAIN leaf = {"ctx", "qos"}
  OBVIOUS
<1>4. Leafy(d.subs, Lists(d)) /\ Once(d.subs[p])
      /\ \A i \in DOMAIN d.subs[p] : {"ctx", "qos"} \subseteq DOMAIN d.subs[p][i]
  BY DEF Sound, Leafy
<1> HIDE DEF e, leaf
<1>5. /\ Listed(t) /\ Len(t) = Len(d.subs[p]) + 1 /\ Len(d.subs[p]) \in Nat
      /\ DOMAIN d.subs[p] = 1..Len(d.subs[p]) /\ DOMAIN t = 1..Len(t)
      /\ \A i \in DOMAIN d.subs[p] : t[i] = d.subs[p][i]
      /\ t[Len(d.subs[p]) + 1] = leaf
  BY <1>4, AppendListed, ListedDomain DEF Once
<1> HIDE DEF t
<1>6. /\ DOMAIN d.subs[p] \subseteq DOMAIN t
      /\ \A i \in DOMAIN t : i \in DOMAIN d.subs[p] \/ i = Len(d.subs[p]) + 1
      /\ Len(d.subs[p]) + 1 \in DOMAIN t
  <2> DEFINE n == Len(d.subs[p])
  <2>1. n \in Nat /\ DOMAIN t = 1..(n + 1) /\ DOMAIN d.subs[p] = 1..n
    BY <1>5
  <2> HIDE DEF n
  <2>2. 1..n \subseteq 1..(n + 1) /\ \A i \in 1..(n + 1) : i \in 1..n \/ i = n + 1
    BY <2>1
  <2>3. n + 1 \in 1..(n + 1)
    BY <2>1
  <2> QED
    BY <2>1, <2>2, <2>3 DEF n
<1>7. /\ Once(t) /\ \A i \in DOMAIN t : {"ctx", "qos"} \subseteq DOMAIN t[i]
      /\ \A x : (\E i \in DOMAIN t : t[i].ctx = x) <=> (x = c \/ \E i \in DOMAIN d.subs[p] : d.subs[p][i].ctx = x)
  <2> DEFINE n == Len(d.subs[p]) + 1
             N == d.subs[p]
  <2>1. \A i \in DOMAIN t : (i \in DOMAIN N /\ t[i] = N[i]) \/ (i = n /\ t[i] = leaf)
    BY <1>5, <1>6
  <2>2. n \in DOMAIN t /\ t[n] = leaf /\ \A i \in DOMAIN N : i \in DOMAIN t /\ t[i] = N[i]
    BY <1>5, <1>6
  <2>3. \A i \in DOMAIN N : N[i].ctx # c /\ {"ctx", "qos"} \subseteq DOMAIN N[i]
    BY <1>4
  <2>4. \A i, j \in DOMAIN N : N[i].ctx = N[j].ctx => i = j
    BY <1>4 DEF Once
  <2> HIDE DEF n, N
  <2>5. \A i \in DOMAIN t : {"ctx", "qos"} \subseteq DOMAIN t[i]
    BY <1>3, <2>1, <2>3
  <2>6. \A i, j \in DOMAIN t : t[i].ctx = t[j].ctx => i = j
    BY <1>3, <2>1, <2>3, <2>4
  <2>7. \A x : (\E i \in DOMAIN t : t[i].ctx = x) <=> (x = c \/ \E i \in DOMAIN N : N[i].ctx = x)
    BY <1>3, <2>1, <2>2
  <2> QED
    BY <1>5, <2>5, <2>6, <2>7 DEF Once, N
<1>8. OnlyLeaves(d, e, c) /\ e.ctx[c].subs = d.ctx[c].subs \cup {p}
  BY <1>1, <1>2 DEF OnlyLeaves, Context, ContextFields
<1>9. Leafy(e.subs, Lists(e))
  <2>1. DOMAIN Lists(d) = DOMAIN d.ctx /\ \A x \in DOMAIN d.ctx : Lists(d)[x] = d.ctx[x].subs
    BY DEF Lists
  <2>2. DOMAIN Lists(e) = DOMAIN d.ctx /\ \A x \in DOMAIN d.ctx : Lists(e)[x] = e.ctx[x].subs
    BY <1>8 DEF Lists, OnlyLeaves
  <2> DEFINE L == Lists(d)
             M == Lists(e)
             S == e.subs
             N == d.subs
  <2>3. DOMAIN S = DOMAIN N /\ S[p] = t /\ \A q \in DOMAIN N \ {p} : S[q] = N[q]
    BY <1>2
  <2>4. \A x \in DOMAIN L \ {c} : M[x] = L[x]
    BY <1>8, <2>1, <2>2 DEF OnlyLeaves
  <2>5. M[c] = L[c] \cup {p}
    BY <1>8, <2>1, <2>2
  <2>6. \A x : (\E i \in DOMAIN t : t[i].ctx = x) <=> (x = c \/ \E i \in DOMAIN N[p] : N[p][i].ctx = x)
    BY <1>7
  <2>7. DOMAIN M = DOMAIN L /\ c \in DOMAIN L /\ Leafy(N, L)
    BY <1>4, <2>1, <2>2
  <2> HIDE DEF L, M, S, N
  <2>8. p \in DOMAIN N
    BY DEF N
  <2>9. M[c] \subseteq DOMAIN N /\ \A q \in DOMAIN N \ {p} : q \in M[c] <=> q \in L[c]
    BY <2>5, <2>7, <2>8 DEF Leafy
  <2>10. Once(S[p]) /\ \A i \in DOMAIN S[p] : {"ctx", "qos"} \subseteq DOMAIN S[p][i]
    BY <1>7, <2>3
  <2>11. \A i \in DOMAIN S[p] : S[p][i].ctx \in DOMAIN L
    <3>1. \A i \in DOMAIN N[p] : N[p][i].ctx \in DOMAIN L
      BY <2>7, <2>8 DEF Leafy
    <3> QED
      BY <2>3, <2>6, <2>7, <3>1
  <2>12. \A x \in DOMAIN L : p \in M[x] <=> \E i \in DOMAIN S[p] : S[p][i].ctx = x
    <3> SUFFICES ASSUME NEW x \in DOMAIN L PROVE p \in M[x] <=> \E i \in DOMAIN S[p] : S[p][i].ctx = x
      OBVIOUS
    <3>1. p \in L[x] <=> \E i \in DOMAIN N[p] : N[p][i].ctx = x
      BY <2>7, <2>8 DEF Leafy
    <3>2. CASE x = c
      BY <2>3, <2>5, <2>6, <3>2
    <3>3. CASE x # c
      BY <2>3, <2>4, <2>6, <3>1, <3>3
    <3> QED
      BY <3>2, <3>3
  <2>13. Leafy(S, M)
    BY <2>3, <2>4, <2>7, <2>8, <2>9, <2>10, <2>11, <2>12, LeafyAt
  <2> QED
    BY <2>13 DEF S, M
<1>10. Sound(e, H, Z) /\ Keeps(d, e)
  BY <1>8, <1>9, LeavesChanged
<1> QED
  BY <1>10 DEF Moves, e

(* Subscribing keeps the database sound.                                   *)
LEMMA SubAddSound ==
    ASSUME NEW d, NEW H, NEW Z, Sound(d, H, Z), NEW c \in DOMAIN d.ctx, d.ctx[c].id # NoId,
           NEW sub, Topic(sub), NEW qos
    PROVE  Moves(d, mqtt3_sub_add(d, c, sub, qos), H, Z)
<1> DEFINE tokens == _sub_topic_tokenise(sub)
           roots == IF tokens[1] \in Range(d.roots) THEN d.roots ELSE <<tokens[1]>> \o d.roots
           b == [d EXCEPT !.roots = roots]
           a == AddNodes(b, tokens)
           same == {i \in DOMAIN a.subs[tokens] : a.ctx[a.subs[tokens][i].ctx].id = d.ctx[c].id}
           up == [a EXCEPT !.subs[tokens][Min(same)].qos = qos]
           new == [a EXCEPT !.subs[tokens] = Append(@, [ctx |-> c, qos |-> qos]),
                            !.ctx[c].subs = @ \cup {tokens}]
<1>1. mqtt3_sub_add(d, c, sub, qos) = IF same # {} THEN up ELSE new
  BY DEF mqtt3_sub_add
<1>2. Listed(tokens) /\ Len(tokens) >= 1 /\ Proper(tokens)
  BY TokensListed DEF Topic
<1> HIDE DEF tokens
<1>3. Fields \subseteq DOMAIN d /\ Listed(d.roots) /\ Wooded(d.tree, d.subs, d.retained) /\ Leafy(d.subs, Lists(d))
  BY DEF Sound, Shaped
<1>4. Listed(roots)
  <2>1. Listed(<<tokens[1]>>)
    BY SeqListed, <<tokens[1]>> \in Seq({tokens[1]})
  <2>2. Listed(<<tokens[1]>> \o d.roots)
    BY <1>3, <2>1, ConcatListed
  <2> QED
    BY <1>3, <2>2
<1> HIDE DEF roots
<1>5. /\ OnlyTree(d, b) /\ b.roots = roots
      /\ b.tree = d.tree /\ b.subs = d.subs /\ b.retained = d.retained
  BY <1>3 DEF OnlyTree, Fields
<1> HIDE DEF b
<1>6. Sound(b, H, Z) /\ Keeps(d, b)
  BY <1>3, <1>4, <1>5, TreeChanged
<1>7. Sound(a, H, Z) /\ Keeps(b, a) /\ a.ctx = b.ctx /\ tokens \in DOMAIN a.subs
  BY <1>2, <1>6, AddNodesSound
<1> HIDE DEF a
<1>8. Moves(d, a, H, Z) /\ a.ctx = d.ctx
  BY <1>5, <1>6, <1>7, MovesOn DEF Moves, OnlyTree
<1>9. CASE same # {}
  <2>1. same \subseteq Nat /\ IsFiniteSet(same)
    <3>1. Listed(a.subs[tokens])
      BY <1>7 DEF Sound, Leafy, Once
    <3>2. /\ IsFiniteSet(DOMAIN a.subs[tokens])
          /\ DOMAIN a.subs[tokens] = 1..Len(a.subs[tokens])
      BY <3>1, ListedDomain
    <3>3. DOMAIN a.subs[tokens] \subseteq Nat
      BY <3>2
    <3> QED
      BY <3>2, <3>3, FS_Subset
  <2>2. Min(same) \in same
    BY ZenonT(60), <1>9, <2>1, MinIn
  <2>3. Min(same) \in DOMAIN a.subs[tokens]
    BY ZenonT(60), <2>2
  <2> HIDE DEF same
  <2>4. Moves(a, up, H, Z)
    BY <1>7, <1>8, <2>3, LeafRaised
  <2> HIDE DEF up
  <2>5. Moves(d, up, H, Z)
    BY <1>8, <2>4, MovesOn
  <2> QED
    BY <1>1, <1>9, <2>5
<1>10. CASE same = {}
  <2>1. \A i \in DOMAIN a.subs[tokens] : a.subs[tokens][i].ctx # c
    BY <1>8, <1>10
  <2> HIDE DEF same
  <2>2. Moves(a, new, H, Z)
    BY <1>2, <1>7, <1>8, <2>1, LeafAdded
  <2> HIDE DEF new
  <2>3. Moves(d, new, H, Z)
    BY <1>8, <2>2, MovesOn
  <2> QED
    BY <1>1, <1>10, <2>3
<1> QED
  BY <1>9, <1>10
-----------------------------------------------------------------------------
(* mqtt3_subs_clean_session                                                *)

(* What DropNodes makes of the tree depends on the tree alone.             *)
LEMMA DropAlike ==
    ASSUME NEW d, Fields \subseteq DOMAIN d, NEW e, Fields \subseteq DOMAIN e, NEW tokens,
           e.tree = d.tree, e.subs = d.subs, e.retained = d.retained
    PROVE  LET a == DropNodes(d, tokens)
               b == DropNodes(e, tokens)
           IN /\ b.tree = a.tree /\ b.subs = a.subs /\ b.retained = a.retained
              /\ DOMAIN a = DOMAIN d /\ \A f \in DOMAIN d \ {"tree", "subs", "retained"} : a[f] = d[f]
<1> DEFINE tree == Pruned(d.tree, tokens, {p \in Range(d.tree) : d.subs[p] # <<>> \/ d.retained[p] # 0})
           u == [p \in Range(tree) |-> d.subs[p]]
           r == [p \in Range(tree) |-> d.retained[p]]
<1>1. DropNodes(d, tokens) = [d EXCEPT !.tree = tree, !.subs = u, !.retained = r]
  BY DEF DropNodes
<1>2. DropNodes(e, tokens) = [e EXCEPT !.tree = tree, !.subs = u, !.retained = r]
  BY DEF DropNodes
<1> HIDE DEF tree, u, r
<1> QED
  BY ZenonT(60), <1>1, <1>2 DEF Fields

(* One turn of the clean-up of subscriptions.                              *)
LeaveNode(c, a, p) == DropNodes([a EXCEPT !.subs[p] = NotOf(c.x, @)], p)
(* What is known after some of them.                                       *)
LeftNodes(c, done, a) ==
    /\ DOMAIN a = DOMAIN c.d
    /\ \A f \in DOMAIN c.d \ {"tree", "subs", "retained"} : a[f] = c.d[f]
    /\ Sound([a EXCEPT !.ctx[c.x].subs = @ \ done], c.H, c.Z)
(* The induction over the nodes.                                           *)
Lvn == INSTANCE FoldInduction WITH Op <- LeaveNode, Inv <- LeftNodes

(* One node more.                                                          *)
LEMMA LeaveStepped ==
    ASSUME NEW c, Fields \subseteq DOMAIN c.d, c.x \in DOMAIN c.d.ctx, Context(c.d.ctx[c.x]),
           NEW done, NEW p \in c.d.ctx[c.x].subs \ done, NEW a, LeftNodes(c, done, a)
    PROVE  LeftNodes(c, done \cup {p}, LeaveNode(c, a, p))
<1> DEFINE x == c.x
           e == [a EXCEPT !.ctx[x].subs = @ \ done]
           f == [e EXCEPT !.subs[p] = NotOf(x, @), !.ctx[x].subs = @ \ {p}]
           g == DropNodes(f, p)
           b == [a EXCEPT !.subs[p] = NotOf(x, @)]
           h == DropNodes(b, p)
           u == [h EXCEPT !.ctx[x].subs = @ \ (done \cup {p})]
<1>1. Fields \subseteq DOMAIN a /\ DOMAIN a = DOMAIN c.d /\ a.ctx = c.d.ctx /\ x \in DOMAIN a.ctx
      /\ ContextFields \subseteq DOMAIN a.ctx[x]
  BY DEF LeftNodes, Fields, Context
<1>2. /\ DOMAIN e = DOMAIN a /\ \A y \in DOMAIN a \ {"ctx"} : e[y] = a[y]
      /\ e.ctx = [a.ctx EXCEPT ![x].subs = @ \ done]
  BY <1>1 DEF Fields
<1>3. Sound(e, c.H, c.Z)
  BY DEF LeftNodes
<1> HIDE DEF e
<1>4. x \in DOMAIN e.ctx /\ e.ctx[x].subs = a.ctx[x].subs \ done /\ p \in e.ctx[x].subs
  BY <1>1, <1>2 DEF ContextFields
<1>5. p \in DOMAIN e.subs
  BY <1>3, <1>4 DEF Sound, Leafy, Lists
<1>6. Sound(f, c.H, c.Z)
  BY <1>3, <1>4, <1>5, NodeLeft
<1>7. /\ DOMAIN f = DOMAIN e /\ \A y \in DOMAIN e \ {"ctx", "subs"} : f[y] = e[y]
      /\ f.subs = [e.subs EXCEPT ![p] = NotOf(x, e.subs[p])]
      /\ f.ctx = [e.ctx EXCEPT ![x].subs = @ \ {p}]
  BY <1>1, <1>2 DEF Fields
<1>8. /\ DOMAIN b = DOMAIN a /\ \A y \in DOMAIN a \ {"subs"} : b[y] = a[y]
      /\ b.subs = [a.subs EXCEPT ![p] = NotOf(x, a.subs[p])]
  BY <1>1 DEF Fields
<1> HIDE DEF f, b
<1>9. /\ b.tree = f.tree /\ b.subs = f.subs /\ b.retained = f.retained
      /\ Fields \subseteq DOMAIN b /\ Fields \subseteq DOMAIN f
  BY <1>1, <1>2, <1>7, <1>8 DEF Fields
<1>10. Listed(p)
  BY <1>3, <1>5 DEF Sound, Wooded, Node
<1>11. Sound(g, c.H, c.Z)
  BY <1>6, <1>10, DropNodesSound
<1>12. /\ h.tree = g.tree /\ h.subs = g.subs /\ h.retained = g.retained
       /\ DOMAIN h = DOMAIN b /\ \A y \in DOMAIN b \ {"tree", "subs", "retained"} : h[y] = b[y]
       /\ DOMAIN g = DOMAIN f /\ \A y \in DOMAIN f \ {"tree", "subs", "retained"} : g[y] = f[y]
  BY <1>9, DropAlike
<1> HIDE DEF g, h
<1>13. /\ DOMAIN h = DOMAIN a
       /\ \A y \in DOMAIN a \ {"tree", "subs", "retained"} : h[y] = a[y]
  BY <1>8, <1>12
<1>14. /\ DOMAIN u = DOMAIN a /\ \A y \in DOMAIN a \ {"ctx"} : u[y] = h[y]
       /\ u.ctx = [a.ctx EXCEPT ![x].subs = @ \ (done \cup {p})]
  <2>1. h.ctx = a.ctx /\ "ctx" \in DOMAIN h
    BY <1>1, <1>13 DEF Fields
  <2> QED
    BY <1>13, <2>1
<1> HIDE DEF u
<1>15. g.ctx = u.ctx
  <2>1. g.ctx = [e.ctx EXCEPT ![x].subs = @ \ {p}]
    BY <1>1, <1>2, <1>7, <1>12 DEF Fields
  <2>2. e.ctx[x] = [a.ctx[x] EXCEPT !.subs = a.ctx[x].subs \ done]
    BY <1>1, <1>2
  <2>3. a.ctx[x].subs \ (done \cup {p}) = (a.ctx[x].subs \ done) \ {p}
    OBVIOUS
  <2>4. [e.ctx[x] EXCEPT !.subs = @ \ {p}] = [a.ctx[x] EXCEPT !.subs = @ \ (done \cup {p})]
    BY <1>1, <2>2, <2>3 DEF ContextFields
  <2>5. e.ctx = [a.ctx EXCEPT ![x] = e.ctx[x]]
    BY <1>1, <1>2
  <2>6. g.ctx = [a.ctx EXCEPT ![x] = [a.ctx[x] EXCEPT !.subs = @ \ (done \cup {p})]]
    BY <1>1, <2>1, <2>4, <2>5
  <2> QED
    BY <1>14, <2>6
<1>16. ASSUME NEW y \in Fields PROVE u[y] = g[y]
  <2>1. CASE y = "ctx"
    BY <1>15, <2>1
  <2>2. CASE y \in {"tree", "subs", "retained"}
    <3>1. u[y] = h[y] /\ y \in DOMAIN a
      BY <1>1, <1>14, <2>2
    <3> QED
      BY <1>12, <2>2, <3>1
  <2>3. CASE y \notin {"ctx", "tree", "subs", "retained"}
    <3>1. y \in DOMAIN a
      BY <1>1
    <3>2. u[y] = h[y] /\ h[y] = a[y]
      BY <1>13, <1>14, <2>3, <3>1
    <3>3. y \in DOMAIN e /\ y \in DOMAIN f
      BY <1>2, <1>7, <3>1
    <3>4. g[y] = f[y] /\ f[y] = e[y]
      BY <1>7, <1>12, <2>3, <3>3
    <3>5. e[y] = a[y]
      BY <1>2, <2>3, <3>1
    <3> QED
      BY <3>2, <3>4, <3>5
  <2> QED
    BY <2>1, <2>2, <2>3
<1>17. Sound(u, c.H, c.Z)
  BY <1>1, <1>11, <1>14, <1>16, SoundAlike
<1>18. LeaveNode(c, a, p) = h
  BY DEF LeaveNode, h, b
<1>19. DOMAIN h = DOMAIN c.d /\ \A y \in DOMAIN c.d \ {"tree", "subs", "retained"} : h[y] = c.d[y]
  BY <1>1, <1>13 DEF LeftNodes
<1> QED
  BY <1>17, <1>18, <1>19 DEF LeftNodes, u

(* mqtt3_subs_clean_session                                                *)
LeftAll(d, x, S) == FoldSet(LAMBDA p, a : DropNodes([a EXCEPT !.subs[p] = NotOf(x, @)], p), d, S)
LEMMA LeftAllIs ==
    ASSUME NEW c, NEW d, NEW S
    PROVE  Lvn!OfSet(c, d, S) = LeftAll(d, c.x, S)
  BY DEF Lvn!OfSet, LeaveNode, LeftAll, FoldSet, MapThenFoldSet

(* The client is at no node any more, and lists none.                      *)
LEMMA LeftAllSound ==
    ASSUME NEW d, NEW H, NEW Z, Sound(d, H, Z), NEW x \in DOMAIN d.ctx
    PROVE  LET a == LeftAll(d, x, d.ctx[x].subs)
           IN /\ DOMAIN a = DOMAIN d
              /\ \A f \in DOMAIN d \ {"tree", "subs", "retained"} : a[f] = d[f]
              /\ Sound([a EXCEPT !.ctx[x].subs = {}], H, Z)
<1> DEFINE c == [d |-> d, x |-> x, H |-> H, Z |-> Z]
           S == d.ctx[x].subs
<1>1. Fields \subseteq DOMAIN d /\ Context(d.ctx[x])
  BY QueueOf
<1>2. c.d = d /\ c.x = x /\ c.H = H /\ c.Z = Z
  OBVIOUS
<1> HIDE DEF c
<1>3. LeftNodes(c, {}, d)
  <2> DEFINE e == [d EXCEPT !.ctx[x].subs = @ \ {}]
  <2>1. OneCtx(d, e, x) /\ e.ctx[x] = [d.ctx[x] EXCEPT !.subs = @ \ {}]
    BY <1>1 DEF OneCtx, Fields
  <2> HIDE DEF e
  <2>2. /\ Context(e.ctx[x]) /\ e.ctx[x].subs = d.ctx[x].subs /\ e.ctx[x].msgs = d.ctx[x].msgs
    <3>1. d.ctx[x].subs \ {} = d.ctx[x].subs
      OBVIOUS
    <3> QED
      BY <1>1, <2>1, <3>1 DEF Context, ContextFields
  <2>3. Sound(e, H, Z)
    BY <2>1, <2>2, OneCtxSound
  <2> QED
    BY <1>2, <2>3 DEF LeftNodes, e
<1>4. IsFiniteSet(S)
  <2>1. S \subseteq Range(d.tree) /\ Listed(d.tree)
    BY DEF Sound, Leafy, Wooded, Lists
  <2> QED
    BY <2>1, RangeFinite, FS_Subset
<1>5. \A done \in SUBSET S : \A p \in S \ done : \A a :
          LeftNodes(c, done, a) => LeftNodes(c, done \cup {p}, LeaveNode(c, a, p))
  BY <1>1, <1>2, LeaveStepped
<1>6. LeftNodes(c, S, Lvn!OfSet(c, d, S))
  <2>1. Numbered(S)
    BY <1>4, FiniteNumbered
  <2> HIDE DEF S
  <2> QED
    BY <1>3, <1>5, <2>1, Lvn!SetInduction DEF Numbered
<1>7. Lvn!OfSet(c, d, S) = LeftAll(d, x, S)
  BY <1>2, LeftAllIs
<1> DEFINE a == LeftAll(d, x, S)
           e == [a EXCEPT !.ctx[x].subs = @ \ S]
           f == [a EXCEPT !.ctx[x].subs = {}]
<1>8. /\ DOMAIN a = DOMAIN d /\ (\A y \in DOMAIN d \ {"tree", "subs", "retained"} : a[y] = d[y])
      /\ Sound(e, H, Z)
  BY <1>2, <1>6, <1>7 DEF LeftNodes
<1> HIDE DEF a
<1>9. a.ctx = d.ctx /\ "ctx" \in DOMAIN a
  BY <1>1, <1>8 DEF Fields
<1>10. e.ctx[x].subs = S \ S /\ x \in DOMAIN a.ctx
  BY <1>1, <1>9 DEF Context, ContextFields
<1>11. e = f
  <2>1. a.ctx[x].subs \ S = {}
    BY <1>9
  <2> QED
    BY <2>1
<1> QED
  BY <1>8, <1>11 DEF a

(* mqtt3_subs_clean_session: a context without subscriptions.              *)
LEMMA CleanSound ==
    ASSUME NEW d, NEW H, NEW Z, Sound(d, H, Z), NEW x \in DOMAIN d.ctx
    PROVE  LET a == mqtt3_subs_clean_session(d, x)
           IN /\ Sound(a, H, Z) /\ DOMAIN a = DOMAIN d
              /\ \A f \in DOMAIN d \ {"tree", "subs", "retained", "roots", "ctx"} : a[f] = d[f]
              /\ DOMAIN a.ctx = DOMAIN d.ctx /\ a.ctx = [d.ctx EXCEPT ![x].subs = {}]
<1> DEFINE b == LeftAll(d, x, d.ctx[x].subs)
           freed == {p[1] : p \in d.ctx[x].subs} \ ({p[1] : p \in Range(b.tree)} \cup {"", "$SYS"})
           roots == Picked(b.roots, {i \in DOMAIN b.roots : b.roots[i] \notin freed})
           e == [b EXCEPT !.ctx[x].subs = {}]
           a == [b EXCEPT !.ctx[x].subs = {}, !.roots = roots]
<1>1. mqtt3_subs_clean_session(d, x) = a
  BY DEF mqtt3_subs_clean_session, LeftAll
<1>2. /\ DOMAIN b = DOMAIN d /\ (\A y \in DOMAIN d \ {"tree", "subs", "retained"} : b[y] = d[y])
      /\ Sound(e, H, Z)
  BY LeftAllSound
<1>3. Fields \subseteq DOMAIN d /\ Listed(d.roots) /\ Context(d.ctx[x])
  BY DEF Sound, Shaped
<1> HIDE DEF b
<1>4. b.roots = d.roots /\ b.ctx = d.ctx
  BY <1>2, <1>3 DEF Fields
<1>5. Listed(roots)
  <2> HIDE DEF freed
  <2>1. Listed(b.roots)
    BY <1>3, <1>4
  <2> QED
    BY <2>1, PickedListed
<1> HIDE DEF roots
<1>6. /\ DOMAIN a = DOMAIN b /\ (\A y \in DOMAIN b \ {"ctx", "roots"} : a[y] = b[y])
      /\ a.roots = roots /\ a.ctx = [b.ctx EXCEPT ![x].subs = {}]
  BY <1>2, <1>3 DEF Fields
<1>7. /\ DOMAIN e = DOMAIN b /\ (\A y \in DOMAIN b \ {"ctx"} : e[y] = b[y])
      /\ e.ctx = [b.ctx EXCEPT ![x].subs = {}]
  BY <1>2, <1>3 DEF Fields
<1> HIDE DEF a, e
<1>8. OnlyTree(e, a) /\ a.tree = e.tree /\ a.subs = e.subs /\ a.retained = e.retained
  BY <1>2, <1>3, <1>6, <1>7 DEF OnlyTree, Fields
<1>9. Sound(a, H, Z)
  <2>1. Wooded(e.tree, e.subs, e.retained) /\ Leafy(e.subs, Lists(e))
    BY <1>2 DEF Sound
  <2> QED
    BY <1>2, <1>5, <1>6, <1>8, <2>1, TreeChanged
<1>10. \A f \in DOMAIN d \ {"tree", "subs", "retained", "roots", "ctx"} : a[f] = d[f]
  BY <1>2, <1>6
<1>11. a.ctx = [d.ctx EXCEPT ![x].subs = {}] /\ DOMAIN a.ctx = DOMAIN d.ctx
  BY <1>4, <1>6
<1>12. DOMAIN a = DOMAIN d
  BY <1>2, <1>6
<1> QED
  BY <1>1, <1>9, <1>10, <1>11, <1>12
-----------------------------------------------------------------------------
(* mqtt3_context_cleanup and mosquitto__free_disused_contexts              *)

(* A context nothing points to any more can go.                            *)
LEMMA LeafyWithout ==
    ASSUME NEW subs, NEW L, Leafy(subs, L), NEW x \in DOMAIN L, L[x] = {},
           NEW M, DOMAIN M = DOMAIN L \ {x}, \A y \in DOMAIN M : M[y] = L[y]
    PROVE  Leafy(subs, M)
<1>1. \A p \in DOMAIN subs : \A i \in DOMAIN subs[p] : subs[p][i].ctx # x
  BY DEF Leafy
<1> QED
  BY <1>1 DEF Leafy

(* Counts are numbers.                                                     *)
LEMMA RefsType ==
    ASSUME NEW d, NEW H, NEW Z, Sound(d, H, Z)
    PROVE  Refs(d, H) \in [Nat -> Nat]
<1>1. \A s \in Nat : Refs(d, H)[s] \in Nat
  BY SoundNat
<1> QED
  BY <1>1 DEF Refs

(* mqtt3_context_cleanup: a context is freed with its messages and         *)
(* subscriptions.                                                          *)
LEMMA CleanupSound ==
    ASSUME NEW d, NEW H, NEW Z, Sound(d, H, Z), NEW x \in DOMAIN d.ctx
    PROVE  LET e == mqtt3_context_cleanup(d, x)
           IN /\ Sound(e, H, Z) /\ DOMAIN e = DOMAIN d
              /\ e.sec = d.sec /\ e.disused = d.disused /\ e.last_db_id = d.last_db_id
              /\ DOMAIN e.ctx = DOMAIN d.ctx \ {x}
              /\ \A y \in DOMAIN e.ctx : e.ctx[y] = d.ctx[y]
<1> DEFINE a == mqtt3_subs_clean_session(d, x)
           stores == Stores(d.ctx[x].msgs)
           b == DerefAll(a, stores)
           e == [b EXCEPT !.ctx = Without(@, {x})]
           T == [s \in Nat |-> Held(Queues(e), s) + Pinned(e.retained, s) + H[s]]
<1>1. mqtt3_context_cleanup(d, x) = e
  BY DEF mqtt3_context_cleanup, Stores
<1>2. /\ Sound(a, H, Z) /\ DOMAIN a = DOMAIN d
      /\ \A f \in DOMAIN d \ {"tree", "subs", "retained", "roots", "ctx"} : a[f] = d[f]
      /\ DOMAIN a.ctx = DOMAIN d.ctx /\ a.ctx = [d.ctx EXCEPT ![x].subs = {}]
  BY CleanSound
<1>3. Fields \subseteq DOMAIN d /\ Context(d.ctx[x]) /\ Queue(d.ctx[x].msgs) /\ Listed(d.ctx[x].msgs)
      /\ \A i \in DOMAIN d.ctx[x].msgs : Message(d.ctx[x].msgs[i])
  BY QueueOf
<1> HIDE DEF a
<1>4. a.ctx[x].msgs = d.ctx[x].msgs /\ a.ctx[x].subs = {} /\ \A y \in DOMAIN d.ctx \ {x} : a.ctx[y] = d.ctx[y]
  BY <1>2, <1>3 DEF Context, ContextFields
<1>5. Listed(stores) /\ \A i \in DOMAIN stores : stores[i] \in Nat \ {0}
  BY <1>3, StoresListed DEF Message
<1> HIDE DEF stores
<1>6. Fields \subseteq DOMAIN a
  BY <1>2, <1>3
(* Whatever the references of its messages are, only the store changes.    *)
<1>7. Queued(Queues(a)) /\ DOMAIN Queues(a) = DOMAIN d.ctx /\ x \in DOMAIN Queues(a)
      /\ Queues(a)[x] = d.ctx[x].msgs
  BY <1>2, <1>4 DEF Sound, Queues
<1> DEFINE R == [y \in DOMAIN d.ctx \ {x} |-> a.ctx[y].msgs]
           U == [s \in Nat |-> Held(R, s) + Pinned(a.retained, s) + H[s]]
<1>8. Queued(R) /\ \A s : Held(Queues(a), s) = Held(R, s) + Times(Stores(Queues(a)[x]), s)
  <2>1. DOMAIN R = DOMAIN Queues(a) \ {x} /\ \A y \in DOMAIN R : R[y] = Queues(a)[y]
    BY <1>2, <1>7 DEF Queues
  <2> HIDE DEF R
  <2> QED
    BY <1>7, <2>1, HeldWithout
<1> HIDE DEF R
<1>9. /\ U \in [Nat -> Nat]
      /\ \A s \in Nat : Refs(a, H)[s] = U[s] + Times(stores, s)
  <2> SUFFICES ASSUME NEW s \in Nat PROVE U[s] \in Nat /\ Refs(a, H)[s] = U[s] + Times(stores, s)
    OBVIOUS
  <2>1. Held(R, s) \in Nat
    BY <1>8, HeldNat
  <2>2. /\ Pinned(a.retained, s) \in Nat /\ H[s] \in Nat
        /\ Refs(a, H)[s] = Held(Queues(a), s) + Pinned(a.retained, s) + H[s]
    BY <1>2, SoundNat
  <2>3. Times(stores, s) \in Nat
    BY <1>5, TimesNat
  <2>4. Held(Queues(a), s) = Held(R, s) + Times(stores, s)
    BY <1>7, <1>8 DEF stores
  <2> QED
    BY <2>1, <2>2, <2>3, <2>4
<1> HIDE DEF U
<1>10. Stocked(a.store, a.last_db_id, Owed(U, stores, 0), Z)
  <2>1. Stocked(a.store, a.last_db_id, Refs(a, H), Z)
    BY <1>2 DEF Sound
  <2>2. \A s \in Nat : Owed(U, stores, 0)[s] = Refs(a, H)[s]
    <3> SUFFICES ASSUME NEW s \in Nat PROVE Owed(U, stores, 0)[s] = Refs(a, H)[s]
      OBVIOUS
    <3>1. Behind(stores, 0, s) = Times(stores, s)
      BY <1>5, BehindStep
    <3> QED
      BY <1>9, <3>1 DEF Owed
  <2> QED
    BY <2>1, <2>2 DEF Stocked
<1>11. OnlyStore(a, b) /\ Stocked(b.store, a.last_db_id, U, Z)
  BY <1>5, <1>6, <1>9, <1>10, DerefAllStocked
<1> HIDE DEF b
<1>12. /\ Fields \subseteq DOMAIN b /\ b.last_db_id = a.last_db_id /\ b.roots = a.roots
       /\ b.tree = a.tree /\ b.subs = a.subs /\ b.retained = a.retained /\ b.ctx = a.ctx
       /\ b.disused = a.disused /\ b.sec = a.sec
  BY <1>6, <1>11, OnlyStoreIs
<1>13. /\ e.ctx = Without(a.ctx, {x}) /\ e.store = b.store /\ e.last_db_id = a.last_db_id
       /\ e.roots = a.roots /\ e.tree = a.tree /\ e.subs = a.subs /\ e.retained = a.retained
       /\ e.disused = a.disused /\ e.sec = a.sec /\ Fields \subseteq DOMAIN e /\ DOMAIN e = DOMAIN b
  BY <1>12 DEF Fields
<1>14. DOMAIN e.ctx = DOMAIN d.ctx \ {x} /\ \A y \in DOMAIN e.ctx : e.ctx[y] = a.ctx[y] /\ e.ctx[y] = d.ctx[y]
  BY <1>2, <1>4, <1>13 DEF Without
<1> HIDE DEF e
<1>15. Queues(e) = R
  BY <1>14 DEF Queues, R
<1>16. Refs(e, H) = U
  BY <1>13, <1>15 DEF Refs, U
<1>17. Leafy(e.subs, Lists(e))
  <2>1. Leafy(a.subs, Lists(a))
    BY <1>2 DEF Sound
  <2>2. /\ DOMAIN Lists(a) = DOMAIN d.ctx /\ Lists(a)[x] = {}
        /\ DOMAIN Lists(e) = DOMAIN d.ctx \ {x}
        /\ \A y \in DOMAIN Lists(e) : Lists(e)[y] = Lists(a)[y]
    BY <1>2, <1>4, <1>14 DEF Lists
  <2> QED
    BY <1>13, <2>1, <2>2, LeafyWithout
<1>18. Shaped(e)
  <2>1. Listed(a.roots) /\ \A y \in DOMAIN a.ctx : Context(a.ctx[y])
    BY <1>2 DEF Sound, Shaped
  <2> QED
    BY <1>2, <1>13, <1>14, <2>1 DEF Shaped
<1>19. Sound(e, H, Z)
  <2>1. H \in [Nat -> Nat] /\ Wooded(e.tree, e.subs, e.retained)
    BY <1>2, <1>13 DEF Sound
  <2>2. Stocked(e.store, e.last_db_id, Refs(e, H), Z)
    BY <1>11, <1>13, <1>16
  <2> QED
    BY <1>8, <1>15, <1>17, <1>18, <2>1, <2>2 DEF Sound
<1>20. DOMAIN e = DOMAIN d /\ e.sec = d.sec /\ e.disused = d.disused /\ e.last_db_id = d.last_db_id
  BY <1>2, <1>3, <1>11, <1>13 DEF Fields, OnlyStore
<1> QED
  BY <1>1, <1>14, <1>19, <1>20

(* One turn of mosquitto__free_disused_contexts.                           *)
CleanOne(c, a, x) == mqtt3_context_cleanup(a, x)
(* What is known after some of them.                                       *)
CleanedUp(c, done, a) ==
    /\ Sound(a, c.H, c.Z) /\ DOMAIN a = DOMAIN c.d
    /\ a.sec = c.d.sec /\ a.disused = c.d.disused /\ a.last_db_id = c.d.last_db_id
    /\ DOMAIN a.ctx = DOMAIN c.d.ctx \ done
    /\ \A y \in DOMAIN a.ctx : a.ctx[y] = c.d.ctx[y]
(* The induction over the contexts.                                        *)
Cln == INSTANCE FoldInduction WITH Op <- CleanOne, Inv <- CleanedUp

(* mosquitto__free_disused_contexts                                        *)
CleanAll(d, S) == FoldSet(LAMBDA x, a : mqtt3_context_cleanup(a, x), d, S)

(* mosquitto__free_disused_contexts                                        *)
LEMMA FreeSound ==
    ASSUME NEW d, NEW H, NEW Z, Sound(d, H, Z), d.disused \subseteq DOMAIN d.ctx
    PROVE  LET e == mosquitto__free_disused_contexts(d)
           IN /\ Sound(e, H, Z) /\ e.sec = d.sec /\ e.disused = {} /\ e.last_db_id = d.last_db_id
              /\ DOMAIN e.ctx = DOMAIN d.ctx \ d.disused
              /\ \A y \in DOMAIN e.ctx : e.ctx[y] = d.ctx[y]
<1> DEFINE c == [d |-> d, H |-> H, Z |-> Z]
           S == d.disused
           a == CleanAll(d, S)
           e == [a EXCEPT !.disused = {}]
<1>1. mosquitto__free_disused_contexts(d) = e
  BY DEF mosquitto__free_disused_contexts, CleanAll
<1>2. c.d = d /\ c.H = H /\ c.Z = Z
  OBVIOUS
<1> HIDE DEF c
<1>3. CleanedUp(c, {}, d)
  BY <1>2 DEF CleanedUp
<1>4. ASSUME NEW done \in SUBSET S, NEW x \in S \ done, NEW b, CleanedUp(c, done, b)
      PROVE  CleanedUp(c, done \cup {x}, CleanOne(c, b, x))
  <2> DEFINE f == mqtt3_context_cleanup(b, x)
  <2>1. x \in DOMAIN b.ctx /\ Sound(b, H, Z)
    BY <1>2, <1>4 DEF CleanedUp
  <2>2. /\ Sound(f, H, Z) /\ DOMAIN f = DOMAIN b
        /\ f.sec = b.sec /\ f.disused = b.disused /\ f.last_db_id = b.last_db_id
        /\ DOMAIN f.ctx = DOMAIN b.ctx \ {x}
        /\ \A y \in DOMAIN f.ctx : f.ctx[y] = b.ctx[y]
    BY <2>1, CleanupSound
  <2> HIDE DEF f
  <2>3. DOMAIN f.ctx = DOMAIN d.ctx \ (done \cup {x}) /\ \A y \in DOMAIN f.ctx : f.ctx[y] = d.ctx[y]
    BY <1>2, <1>4, <2>2 DEF CleanedUp
  <2>4. CleanedUp(c, done \cup {x}, f)
    BY <1>2, <1>4, <2>2, <2>3 DEF CleanedUp
  <2> QED
    BY <2>4 DEF CleanOne, f
<1>5. IsFiniteSet(S)
  <2>1. IsFiniteSet(DOMAIN d.ctx)
    BY DEF Sound, Queued, Queues
  <2> QED
    BY <2>1, FS_Subset
<1>6. CleanedUp(c, S, Cln!OfSet(c, d, S))
  <2>1. Numbered(S)
    BY <1>5, FiniteNumbered
  <2> HIDE DEF S
  <2> QED
    BY <1>3, <1>4, <2>1, Cln!SetInduction DEF Numbered
<1>7. Cln!OfSet(c, d, S) = a
  BY DEF Cln!OfSet, CleanOne, CleanAll, FoldSet, MapThenFoldSet
<1>8. CleanedUp(c, S, a)
  BY <1>6, <1>7
<1> HIDE DEF a
<1>9. Fields \subseteq DOMAIN a
  BY <1>8 DEF CleanedUp, Sound, Shaped
<1>10. /\ e.store = a.store /\ e.last_db_id = a.last_db_id /\ e.roots = a.roots
       /\ e.tree = a.tree /\ e.subs = a.subs /\ e.retained = a.retained /\ e.ctx = a.ctx
       /\ e.sec = a.sec /\ e.disused = {} /\ Fields \subseteq DOMAIN e
  BY <1>9 DEF Fields
<1> HIDE DEF e
<1>11. Shaped(e) /\ Sound(a, H, Z)
  BY <1>2, <1>8, <1>10 DEF Shaped, Sound, CleanedUp
<1>12. Sound(e, H, Z)
  BY <1>10, <1>11, Framed DEF Lists, Queues
<1> QED
  BY <1>1, <1>2, <1>8, <1>10, <1>12 DEF CleanedUp

(* mqtt3_context_init                                                      *)
Blank(sock) ==
    [id |-> NoId, sock |-> sock, state |-> "new", clean |-> TRUE, subs |-> {}, msgs |-> <<>>,
     count12 |-> 0, last_mid |-> 0, will |-> NoWill, out |-> <<>>,
     username |-> NoUser, password |-> "", acl |-> NoAcl]

(* mqtt3_context_init                                                      *)
LEMMA InitSound ==
    ASSUME NEW d, NEW H, NEW Z, Sound(d, H, Z), NEW x, x \notin DOMAIN d.ctx, NEW sock
    PROVE  LET e == mqtt3_context_init(d, x, sock)
           IN /\ Sound(e, H, Z) /\ DOMAIN e = DOMAIN d
              /\ \A f \in DOMAIN d \ {"ctx"} : e[f] = d[f]
              /\ DOMAIN e.ctx = DOMAIN d.ctx \cup {x} /\ e.ctx[x] = Blank(sock)
              /\ \A y \in DOMAIN d.ctx : e.ctx[y] = d.ctx[y]
<1> DEFINE blank == Blank(sock)
           e == [d EXCEPT !.ctx = With1(@, x, blank)]
<1>1. mqtt3_context_init(d, x, sock) = e
  BY DEF mqtt3_context_init, Blank
<1>2. Fields \subseteq DOMAIN d /\ Listed(d.roots) /\ \A y \in DOMAIN d.ctx : Context(d.ctx[y])
  BY DEF Sound, Shaped
<1>3. Context(blank) /\ blank.subs = {} /\ blank.msgs = <<>>
  BY DEF Context, ContextFields, Willing, Blank
<1> HIDE DEF blank
<1>4. /\ DOMAIN e = DOMAIN d /\ (\A f \in DOMAIN d \ {"ctx"} : e[f] = d[f])
      /\ e.ctx = With1(d.ctx, x, blank)
  BY <1>2 DEF Fields
<1>5. /\ DOMAIN e.ctx = DOMAIN d.ctx \cup {x} /\ e.ctx[x] = blank
      /\ \A y \in DOMAIN d.ctx : e.ctx[y] = d.ctx[y]
  BY <1>4 DEF With1
<1> HIDE DEF e
<1>6. /\ e.store = d.store /\ e.last_db_id = d.last_db_id /\ e.roots = d.roots
      /\ e.tree = d.tree /\ e.subs = d.subs /\ e.retained = d.retained /\ Fields \subseteq DOMAIN e
  BY <1>2, <1>4 DEF Fields
<1>7. Shaped(e)
  BY <1>2, <1>3, <1>5, <1>6 DEF Shaped
<1>8. Queued(Queues(e)) /\ \A s : Held(Queues(e), s) = Held(Queues(d), s)
  <2>1. Queued(Queues(d))
    BY DEF Sound
  <2>2. /\ DOMAIN Queues(d) = DOMAIN d.ctx /\ DOMAIN Queues(e) = DOMAIN d.ctx \cup {x}
        /\ Queues(e)[x] = <<>> /\ \A y \in DOMAIN d.ctx : Queues(e)[y] = Queues(d)[y]
    BY <1>3, <1>5 DEF Queues
  <2> QED
    BY <2>1, <2>2, HeldWith
<1>9. Refs(e, H) = Refs(d, H)
  BY <1>6, <1>8 DEF Refs
<1>10. Leafy(e.subs, Lists(e))
  <2> DEFINE L == Lists(d)
             M == Lists(e)
  <2>1. Leafy(d.subs, L)
    BY DEF Sound
  <2>2. /\ DOMAIN L = DOMAIN d.ctx /\ DOMAIN M = DOMAIN d.ctx \cup {x}
        /\ M[x] = {} /\ \A y \in DOMAIN d.ctx : M[y] = L[y]
    BY <1>3, <1>5 DEF Lists
  <2> HIDE DEF L, M
  <2>3. \A p \in DOMAIN d.subs : \A i \in DOMAIN d.subs[p] : d.subs[p][i].ctx # x
    BY <2>1, <2>2 DEF Leafy
  <2>4. Leafy(d.subs, M)
    BY <2>1, <2>2, <2>3 DEF Leafy
  <2> QED
    BY <1>6, <2>4 DEF M
<1>11. Sound(e, H, Z)
  BY <1>6, <1>7, <1>8, <1>9, <1>10 DEF Sound
<1> QED
  BY <1>1, <1>4, <1>5, <1>11 DEF blank
-----------------------------------------------------------------------------
(* The end of a connection: wills, mqtt3_context_disconnect.               *)

(* A step that concerns one client: what the others are stays.             *)
Others(d, e, c) ==
    /\ e.sec = d.sec /\ DOMAIN e.ctx = DOMAIN d.ctx
    /\ \A y \in DOMAIN d.ctx \ {c} : SameClient(d.ctx[y], e.ctx[y])
(* A context that has left keeps what it had.                              *)
Parted(x, y) ==
    /\ y.state = "disconnected" /\ y.sock = FALSE /\ y.will = NoWill
    /\ y.id = IF x.clean THEN NoId ELSE x.id
    /\ \A f \in {"clean", "username", "password", "acl"} : y[f] = x[f]
    /\ Paced(x) => Paced(y)

(* do_disconnect                                                           *)
LEMMA DisconnectSound ==
    ASSUME NEW d, NEW H, NEW Z, Sound(d, H, Z), NEW c \in DOMAIN d.ctx
    PROVE  LET e == do_disconnect(d, c)
           IN /\ Sound(e, H, Z) /\ Others(d, e, c)
              /\ d.ctx[c].state = "disconnected" => e = d
              /\ d.ctx[c].state # "disconnected" =>
                    /\ Parted(d.ctx[c], e.ctx[c])
                    /\ e.disused = IF d.ctx[c].clean THEN d.disused \cup {c} ELSE d.disused
              /\ d.ctx[c].state = "disconnecting" =>
                    /\ \A y \in DOMAIN d.ctx \ {c} : e.ctx[y] = d.ctx[y]
                    /\ e.ctx[c].msgs = d.ctx[c].msgs /\ e.ctx[c].subs = d.ctx[c].subs
<1> DEFINE w == d.ctx[c].will
           says == d.ctx[c].state # "disconnecting" /\ w # NoWill /\ mosquitto_acl_check(d, c, w.topic, "write")
           b == IF says THEN mqtt3_db_messages_easy_queue(d, d.ctx[c].id, w.topic, w.qos, w.payload, w.retain)
                ELSE d
           f == [b EXCEPT !.ctx[c].will = NoWill, !.ctx[c].sock = FALSE, !.ctx[c].out = <<>>]
           clean == d.ctx[c].clean
           disused == IF clean THEN f.disused \cup {c} ELSE f.disused
           id == IF clean THEN NoId ELSE f.ctx[c].id
           e == [f EXCEPT !.disused = disused, !.ctx[c].id = id, !.ctx[c].state = "disconnected"]
<1>1. do_disconnect(d, c) = IF d.ctx[c].state = "disconnected" THEN d ELSE e
  <2>1. mqtt3_context_disconnect(d, c) = f
    BY DEF mqtt3_context_disconnect
  <2> HIDE DEF f
  <2> QED
    BY <2>1 DEF do_disconnect
<1>2. Fields \subseteq DOMAIN d /\ Context(d.ctx[c])
  BY QueueOf
<1>3. Moves(d, b, H, Z)
  <2>1. CASE says
    <3>1. Topic(w.topic)
      BY <1>2, <2>1 DEF Context, Willing
    <3> HIDE DEF w
    <3>2. Moves(d, mqtt3_db_messages_easy_queue(d, d.ctx[c].id, w.topic, w.qos, w.payload, w.retain), H, Z)
      BY <3>1, EasyQueueSound DEF Moves
    <3> QED
      BY <2>1, <3>2
  <2>2. CASE ~says
    <3>1. b = d
      BY <2>2
    <3> QED
      BY <3>1, MovesSelf
  <2> QED
    BY <2>1, <2>2
<1>4. d.ctx[c].state = "disconnecting" => b = d
  OBVIOUS
<1> HIDE DEF says, b, w
<1>5. Sound(b, H, Z) /\ Keeps(d, b) /\ c \in DOMAIN b.ctx /\ Fields \subseteq DOMAIN b /\ Context(b.ctx[c])
  BY <1>3, QueueOf DEF Moves, Keeps
<1>6. SameClient(d.ctx[c], b.ctx[c]) /\ DOMAIN b.ctx = DOMAIN d.ctx
  BY <1>5 DEF Keeps
<1>7. /\ DOMAIN f = DOMAIN b /\ (\A x \in DOMAIN b \ {"ctx"} : f[x] = b[x])
      /\ f.ctx = [b.ctx EXCEPT ![c] = [b.ctx[c] EXCEPT !.will = NoWill, !.sock = FALSE, !.out = <<>>]]
  BY <1>5 DEF Fields
<1> HIDE DEF f
<1>8. /\ f.disused = b.disused /\ DOMAIN f.ctx = DOMAIN b.ctx /\ Fields \subseteq DOMAIN f
      /\ f.ctx[c] = [b.ctx[c] EXCEPT !.will = NoWill, !.sock = FALSE, !.out = <<>>]
      /\ \A y \in DOMAIN b.ctx \ {c} : f.ctx[y] = b.ctx[y]
  BY <1>5, <1>7 DEF Fields
<1>9. f.ctx[c].id = b.ctx[c].id
  BY <1>5, <1>8 DEF Context, ContextFields
<1> HIDE DEF disused, id
<1>10. /\ (\A x \in DOMAIN b \ {"ctx", "disused"} : e[x] = b[x]) /\ Fields \subseteq DOMAIN e
       /\ e.disused = disused /\ DOMAIN e.ctx = DOMAIN b.ctx
       /\ e.ctx[c] = [f.ctx[c] EXCEPT !.id = id, !.state = "disconnected"]
       /\ \A y \in DOMAIN b.ctx \ {c} : e.ctx[y] = b.ctx[y]
  BY <1>5, <1>7, <1>8 DEF Fields
<1> HIDE DEF e
<1>11. /\ DOMAIN e.ctx[c] = DOMAIN b.ctx[c]
       /\ \A x \in DOMAIN b.ctx[c] \ {"will", "sock", "out", "id", "state"} : e.ctx[c][x] = b.ctx[c][x]
       /\ e.ctx[c].will = NoWill /\ e.ctx[c].sock = FALSE /\ e.ctx[c].id = id
       /\ e.ctx[c].state = "disconnected"
  <2> DEFINE x == b.ctx[c]
             z == e.ctx[c]
             y == f.ctx[c]
  <2>1. ContextFields \subseteq DOMAIN x
    BY <1>5 DEF Context
  <2>2. z = [y EXCEPT !.id = id, !.state = "disconnected"]
    BY <1>10
  <2>3. y = [x EXCEPT !.will = NoWill, !.sock = FALSE, !.out = <<>>]
    BY <1>8
  <2> HIDE DEF x, y, z
  <2>4. ContextFields \subseteq DOMAIN y
    BY <2>1, <2>3
  <2>5. z.id = id /\ z.state = "disconnected" /\ DOMAIN z = DOMAIN x
    BY <2>2, <2>3, <2>4 DEF ContextFields
  <2>6. z.will = NoWill /\ z.sock = FALSE
    BY <2>1, <2>2, <2>3, <2>4 DEF ContextFields
  <2>7. \A h \in DOMAIN x \ {"will", "sock", "out", "id", "state"} : z[h] = x[h]
    BY <2>2, <2>3
  <2> QED
    BY <2>5, <2>6, <2>7 DEF x, z
<1>12. /\ Context(e.ctx[c]) /\ e.ctx[c].msgs = b.ctx[c].msgs /\ e.ctx[c].subs = b.ctx[c].subs
       /\ e.ctx[c].count12 = b.ctx[c].count12
       /\ \A x \in {"clean", "username", "password", "acl"} : e.ctx[c][x] = b.ctx[c][x]
  BY <1>5, <1>11 DEF Context, ContextFields, Willing
<1>13. /\ e.store = b.store /\ e.last_db_id = b.last_db_id /\ e.roots = b.roots
       /\ e.tree = b.tree /\ e.subs = b.subs /\ e.retained = b.retained /\ e.sec = b.sec
  BY <1>5, <1>10 DEF Fields
<1>14. Shaped(e)
  BY <1>5, <1>10, <1>12, <1>13 DEF Sound, Shaped
<1>15. Sound(e, H, Z)
  <2>1. \A y \in DOMAIN b.ctx : e.ctx[y].msgs = b.ctx[y].msgs /\ e.ctx[y].subs = b.ctx[y].subs
    BY <1>10, <1>12
  <2>2. Lists(e) = Lists(b) /\ Queues(e) = Queues(b)
    BY <1>10, <2>1 DEF Lists, Queues
  <2> QED
    BY <1>5, <1>13, <1>14, <2>2, Framed
<1>16. Others(d, e, c)
  BY <1>5, <1>10, <1>13 DEF Others, Keeps
<1>17. Parted(d.ctx[c], e.ctx[c])
  <2>1. e.ctx[c].id = IF d.ctx[c].clean THEN NoId ELSE d.ctx[c].id
    BY <1>6, <1>9, <1>11 DEF id, SameClient
  <2>2. \A x \in {"clean", "username", "password", "acl"} : e.ctx[c][x] = d.ctx[c][x]
    BY <1>6, <1>12 DEF SameClient
  <2>3. Paced(d.ctx[c]) => Paced(e.ctx[c])
    BY <1>6, <1>11, <1>12 DEF SameClient, Paced, Tally
  <2> QED
    BY <1>11, <2>1, <2>2, <2>3 DEF Parted
<1>18. e.disused = IF d.ctx[c].clean THEN d.disused \cup {c} ELSE d.disused
  BY <1>5, <1>8, <1>10 DEF disused, Keeps
<1>19. ASSUME d.ctx[c].state = "disconnecting"
       PROVE  /\ \A y \in DOMAIN d.ctx \ {c} : e.ctx[y] = d.ctx[y]
              /\ e.ctx[c].msgs = d.ctx[c].msgs /\ e.ctx[c].subs = d.ctx[c].subs
  BY <1>4, <1>10, <1>12, <1>19
<1>20. Others(d, d, c)
  BY DEF Others, SameClient
<1>21. CASE d.ctx[c].state = "disconnected"
  <2>1. do_disconnect(d, c) = d
    BY <1>1, <1>21
  <2>2. d.ctx[c].state # "disconnecting"
    BY <1>21
  <2> QED
    BY <1>20, <1>21, <2>1, <2>2
<1>22. CASE d.ctx[c].state # "disconnected"
  <2>1. do_disconnect(d, c) = e
    BY <1>1, <1>22
  <2> QED
    BY <1>15, <1>16, <1>17, <1>18, <1>19, <1>22, <2>1
<1> QED
  BY <1>21, <1>22
-----------------------------------------------------------------------------
(* Messages that an acl now forbids.                                       *)

(* What a list has of messages is shared between those picked and the rest.*)
LEMMA EmbedMapped ==
    ASSUME NEW q, NEW I, I \subseteq DOMAIN q, NEW t, NEW e, Embeds(q, I, t, e),
           NEW r, NEW u, Len(u) = Len(t), \A j \in 1..Len(t) : u[j] = r[e[j]]
    PROVE  Embeds(r, I, u, e)
BY DEF Embeds

(* A queue taken apart.                                                    *)
LEMMA EmbeddedSplit ==
    ASSUME NEW msgs, Queue(msgs), NEW I, I \subseteq DOMAIN msgs,
           NEW t, Listed(t), NEW e, Embeds(msgs, I, t, e),
           NEW u, Listed(u), NEW g, Embeds(msgs, DOMAIN msgs \ I, u, g)
    PROVE  /\ Queue(t) /\ Queue(u)
           /\ \A s : Times(Stores(msgs), s) = Times(Stores(t), s) + Times(Stores(u), s)
           /\ Times(Mark(msgs), 1) = Times(Mark(t), 1) + Times(Mark(u), 1)
           /\ I = {} => \A s : Times(Mark(t), s) = 0
<1> DEFINE J == DOMAIN msgs \ I
<1>0. Listed(msgs) /\ J \subseteq DOMAIN msgs
  BY DEF Queue
<1>1. Listed(t) /\ Embeds(msgs, I, t, e)
  OBVIOUS
<1>2. Listed(u) /\ Embeds(msgs, J, u, g)
  OBVIOUS
<1>3. /\ DOMAIN t = 1..Len(t) /\ Len(t) \in Nat /\ DOMAIN u = 1..Len(u) /\ Len(u) \in Nat
      /\ DOMAIN msgs = 1..Len(msgs)
  BY <1>0, <1>1, <1>2, ListedDomain
<1>4. /\ \A j \in DOMAIN t : e[j] \in DOMAIN msgs /\ t[j] = msgs[e[j]]
      /\ \A j \in DOMAIN u : g[j] \in DOMAIN msgs /\ u[j] = msgs[g[j]]
  BY <1>1, <1>2, <1>3 DEF Embeds
<1>5. Queue(t) /\ Queue(u)
  BY <1>1, <1>2, <1>4 DEF Queue
<1>6. ASSUME NEW r, NEW a, NEW b, Listed(r), DOMAIN r = DOMAIN msgs,
             Listed(a), Len(a) = Len(t), \A j \in DOMAIN t : a[j] = r[e[j]],
             Listed(b), Len(b) = Len(u), \A j \in DOMAIN u : b[j] = r[g[j]], NEW s
      PROVE  Times(r, s) = Times(a, s) + Times(b, s)
  <2>1. Embeds(r, I, a, e)
    BY <1>1, <1>3, <1>6, EmbedMapped
  <2>2. Embeds(r, J, b, g)
    <3> HIDE DEF J
    <3> QED
      BY <1>0, <1>2, <1>3, <1>6, EmbedMapped
  <2>3. I \cup J = DOMAIN r /\ I \cap J = {}
    BY <1>6
  <2>4. DOMAIN a = 1..Len(a) /\ DOMAIN b = 1..Len(b) /\ Len(a) \in Nat /\ Len(b) \in Nat
    BY <1>6, ListedDomain
  <2>5. Listed(r)
    BY <1>6
  <2> HIDE DEF J
  <2> QED
    BY <2>1, <2>2, <2>3, <2>4, <2>5, TimesSplit
<1>7. \A s : Times(Stores(msgs), s) = Times(Stores(t), s) + Times(Stores(u), s)
  <2> SUFFICES ASSUME NEW s PROVE Times(Stores(msgs), s) = Times(Stores(t), s) + Times(Stores(u), s)
    OBVIOUS
  <2>1. /\ Listed(Stores(msgs)) /\ DOMAIN Stores(msgs) = DOMAIN msgs
        /\ \A i \in DOMAIN msgs : Stores(msgs)[i] = msgs[i].store
        /\ Listed(Stores(t)) /\ Len(Stores(t)) = Len(t)
        /\ \A i \in DOMAIN t : Stores(t)[i] = t[i].store
        /\ Listed(Stores(u)) /\ Len(Stores(u)) = Len(u)
        /\ \A i \in DOMAIN u : Stores(u)[i] = u[i].store
    BY <1>0, <1>1, <1>2, StoresListed
  <2>2. /\ \A j \in DOMAIN t : Stores(t)[j] = Stores(msgs)[e[j]]
        /\ \A j \in DOMAIN u : Stores(u)[j] = Stores(msgs)[g[j]]
    BY <1>4, <2>1
  <2> QED
    BY <1>6, <2>1, <2>2
<1>8. Times(Mark(msgs), 1) = Times(Mark(t), 1) + Times(Mark(u), 1)
  <2>1. /\ Listed(Mark(msgs)) /\ DOMAIN Mark(msgs) = DOMAIN msgs
        /\ \A i \in DOMAIN msgs : Mark(msgs)[i] = IF msgs[i].qos > 0 THEN 1 ELSE 0
        /\ Listed(Mark(t)) /\ Len(Mark(t)) = Len(t)
        /\ \A i \in DOMAIN t : Mark(t)[i] = IF t[i].qos > 0 THEN 1 ELSE 0
        /\ Listed(Mark(u)) /\ Len(Mark(u)) = Len(u)
        /\ \A i \in DOMAIN u : Mark(u)[i] = IF u[i].qos > 0 THEN 1 ELSE 0
    BY <1>0, <1>1, <1>2, MarkListed
  <2>2. /\ \A j \in DOMAIN t : Mark(t)[j] = Mark(msgs)[e[j]]
        /\ \A j \in DOMAIN u : Mark(u)[j] = Mark(msgs)[g[j]]
    BY <1>4, <2>1
  <2> QED
    BY <1>6, <2>1, <2>2
<1>9. ASSUME I = {}, NEW s PROVE Times(Mark(t), s) = 0
  <2>1. DOMAIN t = {}
    BY <1>1, <1>3, <1>9 DEF Embeds
  <2>2. DOMAIN Mark(t) = {}
    BY <2>1 DEF Mark
  <2>3. {i \in DOMAIN Mark(t) : Mark(t)[i] = s} = {}
    BY <2>2
  <2> QED
    BY <2>3, FS_EmptySet DEF Times
<1> QED
  BY <1>5, <1>7, <1>8, <1>9

(* What is picked from a queue, and the rest.                              *)
LEMMA PickedSplit ==
    ASSUME NEW msgs, Queue(msgs), NEW I, I \subseteq DOMAIN msgs,
           NEW t, t = Picked(msgs, I), NEW u, u = Picked(msgs, DOMAIN msgs \ I)
    PROVE  /\ Queue(t) /\ Queue(u)
           /\ \A s : Times(Stores(msgs), s) = Times(Stores(t), s) + Times(Stores(u), s)
           /\ Times(Mark(msgs), 1) = Times(Mark(t), 1) + Times(Mark(u), 1)
           /\ I = {} => \A s : Times(Mark(t), s) = 0
<1>1. Listed(msgs) /\ DOMAIN msgs \ I \subseteq DOMAIN msgs
  BY DEF Queue
<1>2. PICK e : Listed(t) /\ Embeds(msgs, I, t, e)
  BY <1>1, PickedListed
<1>3. PICK g : Listed(u) /\ Embeds(msgs, DOMAIN msgs \ I, u, g)
  BY <1>1, PickedListed
<1> QED
  BY <1>2, <1>3, EmbeddedSplit

(* No acl file has been read.                                              *)
NoLists(sec) ==
    /\ {"acl_list", "acl_patterns", "unpwd", "allow_anonymous"} \subseteq DOMAIN sec
    /\ sec.acl_list = <<>> /\ sec.acl_patterns = <<>>

(* A queue from which nothing is taken goes on.                            *)
LEMMA PickedFlows ==
    ASSUME NEW msgs, Queue(msgs), Flows(msgs)
    PROVE  Flows(Picked(msgs, DOMAIN msgs))
<1> DEFINE u == Picked(msgs, DOMAIN msgs)
<1>1. PICK e : Listed(u) /\ Embeds(msgs, DOMAIN msgs, u, e)
  BY PickedListed DEF Queue
<1>2. DOMAIN u = 1..Len(u) /\ Len(u) \in Nat /\ DOMAIN msgs = 1..Len(msgs) /\ Len(msgs) \in Nat
  BY <1>1, ListedDomain DEF Queue
<1> HIDE DEF u
<1>3. /\ \A j \in 1..Len(u) : e[j] \in 1..Len(msgs) /\ u[j] = msgs[e[j]]
      /\ \A i \in 1..Len(msgs) : \E j \in 1..Len(u) : e[j] = i
      /\ \A j, k \in 1..Len(u) : j < k => e[j] < e[k]
  BY <1>1, <1>2 DEF Embeds
<1>4. 1 \in 1..Len(u) => e[1] = 1
  <2> SUFFICES ASSUME 1 \in 1..Len(u) PROVE e[1] = 1
    OBVIOUS
  <2>1. e[1] \in 1..Len(msgs)
    BY <1>3
  <2>2. 1 \in 1..Len(msgs)
    BY <1>2, <2>1
  <2>3. PICK j \in 1..Len(u) : e[j] = 1
    BY <1>3, <2>2
  <2>4. j = 1 \/ 1 < j
    BY <1>2
  <2>5. 1 < j => e[1] < 1
    BY <1>3, <2>3
  <2> QED
    BY <1>2, <2>1, <2>3, <2>4, <2>5
<1>5. ASSUME NEW j \in 1..Len(u), u[j].state = "queued" PROVE max_inflight # 0 /\ j # 1
  <2>1. e[j] \in DOMAIN msgs /\ msgs[e[j]].state = "queued"
    BY <1>2, <1>3, <1>5
  <2>2. max_inflight # 0 /\ e[j] # 1
    BY <2>1 DEF Flows
  <2> QED
    BY <1>4, <2>2
<1> QED
  BY <1>2, <1>5 DEF Flows, u

(* PurgeDenied: messages the client may no longer read are gone from its   *)
(* list and released in the store; without an acl file none are.           *)
LEMMA PurgeSound ==
    ASSUME NEW d, NEW H, NEW Z, Sound(d, H, Z), NEW c \in DOMAIN d.ctx
    PROVE  LET e == PurgeDenied(d, c)
           IN /\ Sound(e, H, Z) /\ DOMAIN e = DOMAIN d
              /\ \A f \in DOMAIN d \ {"ctx", "store"} : e[f] = d[f]
              /\ DOMAIN e.ctx = DOMAIN d.ctx
              /\ \A y \in DOMAIN d.ctx \ {c} : e.ctx[y] = d.ctx[y]
              /\ \A f \in ContextFields \ {"msgs"} : e.ctx[c][f] = d.ctx[c][f]
              /\ NoLists(d.sec) /\ Paced(d.ctx[c]) => Paced(e.ctx[c])
<1> DEFINE msgs == d.ctx[c].msgs
           no == {i \in DOMAIN msgs : msgs[i].dir = "out" /\
                    ~mosquitto_acl_check(d, c, d.store[msgs[i].store].topic, "read")}
           t == Picked(msgs, no)
           u == Picked(msgs, DOMAIN msgs \ no)
           b == [d EXCEPT !.ctx[c].msgs = u]
           e == DerefAll(b, Stores(t))
<1>1. PurgeDenied(d, c) = e
  BY DEF PurgeDenied, Stores
<1>2. Fields \subseteq DOMAIN d /\ Context(d.ctx[c]) /\ Queue(msgs)
  BY QueueOf
<1>3. no \subseteq DOMAIN msgs
  OBVIOUS
<1>4. NoLists(d.sec) => no = {}
  BY DEF NoLists, mosquitto_acl_check, acl_check_default
<1> HIDE DEF no, msgs
<1>5. /\ Queue(t) /\ Queue(u)
      /\ \A s : Times(Stores(msgs), s) = Times(Stores(t), s) + Times(Stores(u), s)
      /\ Times(Mark(msgs), 1) = Times(Mark(t), 1) + Times(Mark(u), 1)
      /\ no = {} => \A s : Times(Mark(t), s) = 0
  <2>1. t = Picked(msgs, no) /\ u = Picked(msgs, DOMAIN msgs \ no)
    OBVIOUS
  <2> HIDE DEF t, u
  <2> QED
    BY <1>2, <1>3, <2>1, PickedSplit
<1> HIDE DEF t, u
<1>6. /\ DOMAIN b = DOMAIN d /\ (\A f \in DOMAIN d \ {"ctx"} : b[f] = d[f])
      /\ DOMAIN b.ctx = DOMAIN d.ctx /\ b.ctx[c] = [d.ctx[c] EXCEPT !.msgs = u]
      /\ \A y \in DOMAIN d.ctx \ {c} : b.ctx[y] = d.ctx[y]
  BY <1>2 DEF Fields
<1> HIDE DEF b
<1>7. /\ OneCtx(d, b, c) /\ Context(b.ctx[c]) /\ b.ctx[c].msgs = u
      /\ \A f \in ContextFields \ {"msgs"} : b.ctx[c][f] = d.ctx[c][f]
  BY <1>2, <1>6 DEF OneCtx, Context, ContextFields
<1>8. b.ctx[c].subs = d.ctx[c].subs /\ b.ctx[c].count12 = d.ctx[c].count12
  BY <1>7 DEF ContextFields
<1>9. Listed(Stores(t)) /\ \A i \in DOMAIN Stores(t) : Stores(t)[i] \in Nat \ {0}
  BY <1>5, StoresListed DEF Queue, Message
<1>10. \A s : Times(Stores(d.ctx[c].msgs), s) = Times(Stores(b.ctx[c].msgs), s) + Times(Stores(t), s)
  <2> SUFFICES ASSUME NEW s
               PROVE Times(Stores(d.ctx[c].msgs), s) = Times(Stores(b.ctx[c].msgs), s) + Times(Stores(t), s)
    OBVIOUS
  <2>1. Times(Stores(t), s) \in Nat /\ Times(Stores(u), s) \in Nat
    BY <1>5, <1>9, TimesNat, StoresListed DEF Queue
  <2> QED
    BY <1>5, <1>7, <2>1 DEF msgs
<1>11. Sound(e, H, Z) /\ OnlyStore(b, e) /\ e.ctx = b.ctx
  BY <1>5, <1>7, <1>8, <1>9, <1>10, QueueCut
<1> HIDE DEF e
<1>12. DOMAIN e = DOMAIN d /\ \A f \in DOMAIN d \ {"ctx", "store"} : e[f] = d[f]
  BY <1>6, <1>11 DEF OnlyStore
<1>13. ASSUME NoLists(d.sec), Paced(d.ctx[c]) PROVE Paced(e.ctx[c])
  <2>1. Times(Mark(t), 1) = 0 /\ Times(Mark(u), 1) \in Nat
    BY <1>4, <1>5, <1>13, CountedIs DEF Queue
  <2>2. Times(Mark(msgs), 1) = Times(Mark(u), 1)
    BY <1>5, <2>1
  <2>3. Tally(d.ctx[c]) => Tally(e.ctx[c])
    BY <1>7, <1>8, <1>11, <2>2 DEF Tally, msgs
  <2>4. u = Picked(msgs, DOMAIN msgs)
    BY <1>4, <1>13 DEF u
  <2>5. Flows(msgs) => Flows(u)
    BY <1>2, <2>4, PickedFlows
  <2>6. e.ctx[c].sock = d.ctx[c].sock /\ e.ctx[c].msgs = u
    BY <1>7, <1>11 DEF ContextFields
  <2> QED
    BY <1>13, <2>3, <2>5, <2>6 DEF Paced, msgs
<1> QED
  BY <1>1, <1>6, <1>7, <1>11, <1>12, <1>13
-----------------------------------------------------------------------------
(* A session that is taken over.                                           *)

(* Leaves of one context become leaves of another that has none.           *)
Renamed(leaves, f, c) ==
    [i \in DOMAIN leaves |-> IF leaves[i].ctx = f THEN [leaves[i] EXCEPT !.ctx = c] ELSE leaves[i]]

(* The leaves of one client become those of another.                       *)
LEMMA RenamedIs ==
    ASSUME NEW leaves, Once(leaves), NEW f, NEW c, f # c,
           \A i \in DOMAIN leaves : {"ctx", "qos"} \subseteq DOMAIN leaves[i],
           \A i \in DOMAIN leaves : leaves[i].ctx # c
    PROVE  LET t == Renamed(leaves, f, c)
           IN /\ Once(t) /\ \A i \in DOMAIN t : {"ctx", "qos"} \subseteq DOMAIN t[i]
              /\ DOMAIN t = DOMAIN leaves
              /\ \A i \in DOMAIN t : t[i].ctx = IF leaves[i].ctx = f THEN c ELSE leaves[i].ctx
<1> DEFINE t == Renamed(leaves, f, c)
<1>1. /\ DOMAIN t = DOMAIN leaves /\ t = [i \in DOMAIN leaves |-> t[i]]
      /\ \A i \in DOMAIN leaves :
            t[i] = IF leaves[i].ctx = f THEN [leaves[i] EXCEPT !.ctx = c] ELSE leaves[i]
  BY DEF Renamed
<1> HIDE DEF t
<1>2. \A i \in DOMAIN leaves : /\ {"ctx", "qos"} \subseteq DOMAIN t[i]
                               /\ t[i].ctx = IF leaves[i].ctx = f THEN c ELSE leaves[i].ctx
  <2> SUFFICES ASSUME NEW i \in DOMAIN leaves
               PROVE  /\ {"ctx", "qos"} \subseteq DOMAIN t[i]
                      /\ t[i].ctx = IF leaves[i].ctx = f THEN c ELSE leaves[i].ctx
    OBVIOUS
  <2>1. CASE leaves[i].ctx = f
    BY <1>1, <2>1
  <2>2. CASE leaves[i].ctx # f
    BY <1>1, <2>2
  <2> QED
    BY <2>1, <2>2
<1>3. DOMAIN leaves = 1..Len(leaves) /\ Len(leaves) \in Nat
  BY ListedDomain DEF Once
<1>4. Listed(t)
  BY <1>1, <1>3, FunctionListed
<1>5. \A i, j \in DOMAIN t : t[i].ctx = t[j].ctx => i = j
  BY <1>1, <1>2 DEF Once
<1> QED
  BY <1>1, <1>2, <1>4, <1>5 DEF Once, t

(* All leaves of a client move to the one that takes over.                 *)
LEMMA LeafyMoved ==
    ASSUME NEW subs, NEW L, Leafy(subs, L), NEW c \in DOMAIN L, NEW f \in DOMAIN L, f # c, L[c] = {},
           NEW S, DOMAIN S = DOMAIN subs,
           \A p \in DOMAIN subs : S[p] = IF p \notin L[f] THEN subs[p] ELSE Renamed(subs[p], f, c),
           NEW M, DOMAIN M = DOMAIN L, M[c] = L[f], M[f] = {}, \A x \in DOMAIN L \ {c, f} : M[x] = L[x]
    PROVE  Leafy(S, M)
<1>1. \A p \in DOMAIN subs : \A i \in DOMAIN subs[p] : subs[p][i].ctx # c
  BY DEF Leafy
<1>2. ASSUME NEW p \in DOMAIN subs
      PROVE  /\ Once(S[p]) /\ \A i \in DOMAIN S[p] : {"ctx", "qos"} \subseteq DOMAIN S[p][i]
             /\ \A i \in DOMAIN S[p] : S[p][i].ctx \in DOMAIN L
             /\ \A x \in DOMAIN L : p \in M[x] <=> \E i \in DOMAIN S[p] : S[p][i].ctx = x
  <2>1. /\ Once(subs[p]) /\ \A i \in DOMAIN subs[p] : {"ctx", "qos"} \subseteq DOMAIN subs[p][i]
        /\ \A i \in DOMAIN subs[p] : subs[p][i].ctx \in DOMAIN L
        /\ \A x \in DOMAIN L : p \in L[x] <=> \E i \in DOMAIN subs[p] : subs[p][i].ctx = x
    BY DEF Leafy
  <2>2. CASE p \notin L[f]
    <3>1. S[p] = subs[p]
      BY <2>2
    <3>2. \A x \in DOMAIN L : p \in M[x] <=> p \in L[x]
      BY <2>2
    <3> QED
      BY <2>1, <3>1, <3>2
  <2>3. CASE p \in L[f]
    <3>1. S[p] = Renamed(subs[p], f, c)
      BY <2>3
    <3>2. /\ Once(S[p]) /\ \A i \in DOMAIN S[p] : {"ctx", "qos"} \subseteq DOMAIN S[p][i]
          /\ DOMAIN S[p] = DOMAIN subs[p]
          /\ \A i \in DOMAIN S[p] : S[p][i].ctx = IF subs[p][i].ctx = f THEN c ELSE subs[p][i].ctx
      BY <1>1, <2>1, <3>1, RenamedIs
    <3>3. \A i \in DOMAIN S[p] : S[p][i].ctx \in DOMAIN L
      BY <2>1, <3>2
    <3>4. ASSUME NEW x \in DOMAIN L PROVE p \in M[x] <=> \E i \in DOMAIN S[p] : S[p][i].ctx = x
      <4>1. CASE x = c
        BY <2>1, <2>3, <3>2, <4>1
      <4>2. CASE x = f
        BY <3>2, <4>2
      <4>3. CASE x \notin {c, f}
        BY <2>1, <3>2, <4>3
      <4> QED
        BY <4>1, <4>2, <4>3
    <3> QED
      BY <3>2, <3>3, <3>4
  <2> QED
    BY <2>2, <2>3
<1>3. \A x \in DOMAIN L : M[x] \subseteq DOMAIN S
  <2>1. \A x \in DOMAIN L : L[x] \subseteq DOMAIN subs
    BY DEF Leafy
  <2> SUFFICES ASSUME NEW x \in DOMAIN L PROVE M[x] \subseteq DOMAIN subs
    OBVIOUS
  <2>2. M[x] = L[f] \/ M[x] = {} \/ M[x] = L[x]
    OBVIOUS
  <2> QED
    BY <2>1, <2>2
<1>4. \A x \in DOMAIN L : \A p \in M[x] : Proper(p)
  <2> SUFFICES ASSUME NEW x \in DOMAIN L, NEW p \in M[x] PROVE Proper(p)
    OBVIOUS
  <2>1. M[x] = L[f] \/ M[x] = {} \/ M[x] = L[x]
    OBVIOUS
  <2> QED
    BY <2>1 DEF Leafy
<1> QED
  BY <1>2, <1>3, <1>4 DEF Leafy

(* A message list changes hands.                                           *)
LEMMA HeldMoved ==
    ASSUME NEW Q, Queued(Q), NEW c \in DOMAIN Q, NEW f \in DOMAIN Q, f # c, Q[c] = <<>>,
           NEW R, DOMAIN R = DOMAIN Q, R[c] = Q[f], R[f] = <<>>, \A x \in DOMAIN Q \ {c, f} : R[x] = Q[x]
    PROVE  Queued(R) /\ \A s : Held(R, s) = Held(Q, s)
<1> DEFINE P == [x \in DOMAIN Q |-> IF x = f THEN <<>> ELSE Q[x]]
<1>1. DOMAIN P = DOMAIN Q /\ P[f] = <<>> /\ P[c] = <<>> /\ \A x \in DOMAIN Q \ {f} : P[x] = Q[x]
  OBVIOUS
<1> HIDE DEF P
<1>2. Queue(<<>>) /\ \A s : Times(Stores(<<>>), s) = 0
  <2>1. Queue(Q[c])
    BY DEF Queued
  <2>2. DOMAIN Stores(<<>>) = {}
    BY DEF Stores
  <2>3. \A s : {i \in DOMAIN Stores(<<>>) : Stores(<<>>)[i] = s} = {}
    BY <2>2
  <2> QED
    BY <2>1, <2>3, FS_EmptySet DEF Times
<1>3. Queued(P) /\ \A s : Held(P, s) + Times(Stores(Q[f]), s) = Held(Q, s) + Times(Stores(<<>>), s)
  BY <1>1, <1>2, HeldReplaced
<1>4. \A x \in DOMAIN P \ {c} : R[x] = P[x]
  BY <1>1
<1>5. Queue(Q[f])
  BY DEF Queued
<1>6. Queued(R) /\ \A s : Held(R, s) + Times(Stores(P[c]), s) = Held(P, s) + Times(Stores(Q[f]), s)
  BY <1>1, <1>3, <1>4, <1>5, HeldReplaced
<1>7. ASSUME NEW s PROVE Held(R, s) = Held(Q, s)
  <2>1. Held(R, s) \in Nat /\ Held(P, s) \in Nat /\ Held(Q, s) \in Nat
    BY <1>3, <1>6, HeldNat
  <2>2. Times(Stores(Q[f]), s) \in Nat
    BY HeldApart
  <2>3. Held(P, s) + Times(Stores(Q[f]), s) = Held(Q, s) + 0
    BY <1>2, <1>3
  <2>4. Held(R, s) + 0 = Held(P, s) + Times(Stores(Q[f]), s)
    BY <1>1, <1>2, <1>6
  <2> QED
    BY <2>1, <2>2, <2>3, <2>4
<1> QED
  BY <1>6, <1>7
-----------------------------------------------------------------------------
(* mqtt3_handle_connect: the session passes on.                            *)

(* A context that hands over: it keeps its name and loses what it has.     *)
Emptied(x, y) ==
    /\ y.msgs = <<>> /\ y.subs = {}
    /\ \A g \in ContextFields \ {"msgs", "subs"} : y[g] = x[g]
(* A context that has taken over, and one that has been emptied.           *)
Endowed(x, y) ==
    \A g \in ContextFields \ {"msgs", "subs", "last_mid", "count12"} : y[g] = x[g]

(* Queue and subscriptions pass on to the new connection.                  *)
LEMMA HandedOver ==
    ASSUME NEW d, NEW H, NEW Z, Sound(d, H, Z), NEW c \in DOMAIN d.ctx, NEW f \in DOMAIN d.ctx, f # c,
           d.ctx[c].msgs = <<>>, d.ctx[c].subs = {},
           NEW e, DOMAIN e = DOMAIN d, \A x \in DOMAIN d \ {"ctx", "subs"} : e[x] = d[x],
           DOMAIN e.subs = DOMAIN d.subs,
           \A p \in DOMAIN d.subs :
               e.subs[p] = IF p \notin d.ctx[f].subs THEN d.subs[p] ELSE Renamed(d.subs[p], f, c),
           DOMAIN e.ctx = DOMAIN d.ctx, \A y \in DOMAIN d.ctx \ {c, f} : e.ctx[y] = d.ctx[y],
           Context(e.ctx[c]), e.ctx[c].msgs = d.ctx[f].msgs, e.ctx[c].subs = d.ctx[f].subs,
           Context(e.ctx[f]), e.ctx[f].msgs = <<>>, e.ctx[f].subs = {}
    PROVE  Sound(e, H, Z)
<1>1. Fields \subseteq DOMAIN d /\ Listed(d.roots) /\ \A y \in DOMAIN d.ctx : Context(d.ctx[y])
  BY DEF Sound, Shaped
<1>2. /\ e.store = d.store /\ e.last_db_id = d.last_db_id /\ e.roots = d.roots
      /\ e.tree = d.tree /\ e.retained = d.retained
  BY <1>1 DEF Fields
<1>3. Shaped(e)
  BY <1>1, <1>2 DEF Shaped
<1>4. Leafy(e.subs, Lists(e))
  <2> DEFINE L == Lists(d)
             M == Lists(e)
             N == d.subs
             S == e.subs
  <2>1. /\ DOMAIN L = DOMAIN d.ctx /\ L[c] = {} /\ L[f] = d.ctx[f].subs
        /\ DOMAIN M = DOMAIN L /\ M[c] = L[f] /\ M[f] = {} /\ \A x \in DOMAIN L \ {c, f} : M[x] = L[x]
    BY DEF Lists
  <2>2. DOMAIN S = DOMAIN N /\ \A p \in DOMAIN N : S[p] = IF p \notin L[f] THEN N[p] ELSE Renamed(N[p], f, c)
    BY <2>1
  <2>3. Leafy(N, L)
    BY DEF Sound
  <2> HIDE DEF L, M, N, S
  <2>4. Leafy(S, M)
    BY <2>1, <2>2, <2>3, LeafyMoved
  <2> QED
    BY <2>4 DEF S, M
<1>5. Queued(Queues(e)) /\ \A s : Held(Queues(e), s) = Held(Queues(d), s)
  <2>1. Queued(Queues(d))
    BY DEF Sound
  <2>2. /\ DOMAIN Queues(d) = DOMAIN d.ctx /\ DOMAIN Queues(e) = DOMAIN d.ctx
        /\ Queues(d)[c] = <<>> /\ Queues(e)[c] = Queues(d)[f] /\ Queues(e)[f] = <<>>
        /\ \A y \in DOMAIN d.ctx \ {c, f} : Queues(e)[y] = Queues(d)[y]
    BY DEF Queues
  <2> QED
    BY <2>1, <2>2, HeldMoved
<1>6. Refs(e, H) = Refs(d, H)
  BY <1>2, <1>5 DEF Refs
<1>7. Wooded(e.tree, e.subs, e.retained) /\ H \in [Nat -> Nat]
      /\ Stocked(e.store, e.last_db_id, Refs(e, H), Z)
  BY <1>2, <1>6 DEF Sound, Wooded
<1> QED
  BY <1>3, <1>4, <1>5, <1>7 DEF Sound

(* A persistent session goes over to a new connection of its client.       *)
LEMMA InheritSound ==
    ASSUME NEW d, NEW H, NEW Z, Sound(d, H, Z), NEW c \in DOMAIN d.ctx, NEW f \in DOMAIN d.ctx, f # c,
           d.ctx[c].msgs = <<>>, d.ctx[c].subs = {}
    PROVE  LET e == Inherit(d, c, f)
           IN /\ Sound(e, H, Z) /\ e.sec = d.sec /\ e.disused = d.disused
              /\ DOMAIN e.ctx = DOMAIN d.ctx /\ \A y \in DOMAIN d.ctx \ {c, f} : e.ctx[y] = d.ctx[y]
              /\ Endowed(d.ctx[c], e.ctx[c]) /\ Emptied(d.ctx[f], e.ctx[f])
              /\ Paced(d.ctx[c]) => Paced(e.ctx[c])
<1> DEFINE x == [d.ctx[c] EXCEPT !.msgs = d.ctx[f].msgs, !.subs = d.ctx[f].subs, !.last_mid = d.ctx[f].last_mid]
           y == [d.ctx[f] EXCEPT !.msgs = <<>>, !.subs = {}]
           S == [p \in DOMAIN d.subs |-> IF p \in d.ctx[f].subs THEN Renamed(d.subs[p], f, c) ELSE d.subs[p]]
           b == [d EXCEPT !.ctx[c] = x, !.ctx[f] = y, !.subs = S]
           e == IF d.ctx[f].msgs = <<>> THEN b ELSE mqtt3_db_message_reconnect_reset(b, c)
<1>1. Fields \subseteq DOMAIN d /\ Context(d.ctx[c]) /\ Context(d.ctx[f])
  BY QueueOf
<1>2. Inherit(d, c, f) = e
  BY DEF Inherit, Renamed
<1>3. /\ Context(x) /\ x.msgs = d.ctx[f].msgs /\ x.subs = d.ctx[f].subs
      /\ \A g \in ContextFields \ {"msgs", "subs", "last_mid"} : x[g] = d.ctx[c][g]
  BY <1>1 DEF Context, ContextFields
<1>4. /\ Context(y) /\ y.msgs = <<>> /\ y.subs = {}
      /\ \A g \in ContextFields \ {"msgs", "subs"} : y[g] = d.ctx[f][g]
  BY <1>1 DEF Context, ContextFields
<1> HIDE DEF x, y, S
<1>5. /\ DOMAIN b = DOMAIN d /\ \A g \in DOMAIN d \ {"ctx", "subs"} : b[g] = d[g]
      /\ DOMAIN b.ctx = DOMAIN d.ctx /\ b.ctx[c] = x /\ b.ctx[f] = y
      /\ \A z \in DOMAIN d.ctx \ {c, f} : b.ctx[z] = d.ctx[z]
      /\ b.subs = S
  BY <1>1 DEF Fields
<1>6. /\ DOMAIN S = DOMAIN d.subs
      /\ \A p \in DOMAIN d.subs :
             S[p] = IF p \notin d.ctx[f].subs THEN d.subs[p] ELSE Renamed(d.subs[p], f, c)
  BY DEF S
<1> HIDE DEF b
<1>7. Sound(b, H, Z)
  BY <1>3, <1>4, <1>5, <1>6, HandedOver
<1>8. b.sec = d.sec /\ b.disused = d.disused
  BY <1>1, <1>5 DEF Fields
<1>9. CASE d.ctx[f].msgs = <<>>
  <2>1. e = b
    BY <1>9
  <2>2. Paced(d.ctx[c]) => Paced(x)
    BY <1>3, <1>9, FlowsEmpty DEF Paced, Tally, ContextFields
  <2> HIDE DEF e
  <2>3. Endowed(d.ctx[c], e.ctx[c]) /\ Emptied(d.ctx[f], e.ctx[f])
    BY <2>1, <1>3, <1>4, <1>5 DEF Endowed, Emptied
  <2>4. Paced(d.ctx[c]) => Paced(e.ctx[c])
    BY <2>1, <2>2, <1>5
  <2> QED
    BY <1>2, <1>5, <1>7, <1>8, <2>1, <2>3, <2>4
<1>10. CASE d.ctx[f].msgs # <<>>
  <2> DEFINE r == mqtt3_db_message_reconnect_reset(b, c)
  <2>1. e = r
    BY <1>10
  <2>2. c \in DOMAIN b.ctx
    BY <1>5
  <2> HIDE DEF e
  <2>3. /\ Sound(r, H, Z) /\ OneCtx(b, r, c) /\ Paced(r.ctx[c])
        /\ \A g \in ContextFields \ {"msgs", "count12"} : r.ctx[c][g] = b.ctx[c][g]
    BY <1>7, <2>2, ResetSound
  <2> HIDE DEF r
  <2>4. Fields \subseteq DOMAIN b
    BY <1>1, <1>5
  <2>5. r.sec = b.sec /\ r.disused = b.disused
    BY <2>3, <2>4, OneCtxIs
  <2>6. DOMAIN r.ctx = DOMAIN b.ctx /\ \A z \in DOMAIN b.ctx \ {c} : r.ctx[z] = b.ctx[z]
    BY <2>3 DEF OneCtx
  <2>7. Endowed(d.ctx[c], r.ctx[c])
    BY <2>3, <1>3, <1>5 DEF Endowed
  <2>8. Emptied(d.ctx[f], r.ctx[f])
    BY <2>6, <1>4, <1>5 DEF Emptied
  <2>9. DOMAIN r.ctx = DOMAIN d.ctx /\ \A z \in DOMAIN d.ctx \ {c, f} : r.ctx[z] = d.ctx[z]
    BY <2>6, <1>5
  <2> QED
    BY <1>2, <1>8, <2>1, <2>3, <2>5, <2>7, <2>8, <2>9
<1> QED
  BY <1>9, <1>10
=============================================================================
