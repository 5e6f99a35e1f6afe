---------------------------- MODULE FoldInduction ----------------------------
(***************************************************************************)
(* Induction over the folds of the community modules.  The operator that   *)
(* is folded, Op, and what is to be shown of its accumulators, Inv, are    *)
(* CONSTANTS, so that an INSTANCE supplies them: a module about operators  *)
(* that fold gets its inductions as theorems in which no operator is a     *)
(* parameter any more.  The first argument of both stands for whatever     *)
(* else they depend on, the second of Inv for what is already folded.      *)
(***************************************************************************)
EXTENDS Integers
LOCAL INSTANCE FiniteSetTheorems
LOCAL INSTANCE WellFoundedInduction
LOCAL INSTANCE TLAPS

CONSTANTS Op(_, _, _), Inv(_, _, _)

Left(c, base, seq) ==
    LET iter[s \in SUBSET DOMAIN seq] ==
            IF s = {} THEN base
            ELSE LET x == CHOOSE x \in s : \A y \in s : x >= y IN Op(c, iter[s \ {x}], seq[x])
    IN iter[DOMAIN seq]
OfSet(c, base, S) ==
    LET iter[s \in SUBSET S] ==
            IF s = {} THEN base
            ELSE LET x == CHOOSE x \in s : TRUE IN Op(c, iter[s \ {x}], x)
    IN iter[S]
-----------------------------------------------------------------------------
(* Induction over the natural numbers, for a set.                          *)
LEMMA NatSet ==
    ASSUME NEW N \in SUBSET Nat, 0 \in N, \A n \in N : n + 1 \in N
    PROVE  N = Nat
<1> DEFINE T == Nat \ N
<1> SUFFICES ASSUME T # {} PROVE FALSE
  OBVIOUS
<1>1. PICK x \in T : \A y \in T : ~ (<<y, x>> \in OpToRel(<, Nat))
  <2>1. T \subseteq Nat
    OBVIOUS
  <2> HIDE DEF T
  <2> QED
    BY <2>1, NatLessThanWellFounded, WFMin
<1>2. x - 1 \in Nat /\ (x - 1) + 1 = x
  <2>1. x \in Nat /\ x # 0
    OBVIOUS
  <2> QED
    BY <2>1
<1>3. <<x - 1, x>> \in OpToRel(<, Nat)
  BY <1>2 DEF OpToRel
<1>4. x - 1 \in N
  BY <1>1, <1>2, <1>3
<1> QED
  BY <1>2, <1>4

Largest(T) == CHOOSE x \in T : \A y \in T : x >= y

(* Sets of numbers up to n have a largest element.                         *)
LEMMA MaxIn ==
    ASSUME NEW n \in Nat, NEW T \in SUBSET (1..n), T # {}
    PROVE  Largest(T) \in T /\ \A y \in T : Largest(T) >= y
<1> DEFINE N == {k \in Nat : \A U \in SUBSET (1..k) : U # {} => \E x \in U : \A y \in U : x >= y}
<1>1. 0 \in N
  <2>1. 1..0 = {}
    OBVIOUS
  <2> QED
    BY <2>1
<1>2. ASSUME NEW k \in N PROVE k + 1 \in N
  <2> SUFFICES ASSUME NEW U \in SUBSET (1..(k + 1)), U # {}
               PROVE  \E x \in U : \A y \in U : x >= y
    OBVIOUS
  <2>1. CASE k + 1 \in U
    BY <2>1
  <2>2. CASE k + 1 \notin U
    <3>1. U \in SUBSET (1..k)
      BY <2>2
    <3> QED
      BY <3>1
  <2> QED
    BY <2>1, <2>2
<1>3. N = Nat
  <2> HIDE DEF N
  <2>1. N \in SUBSET Nat
    BY DEF N
  <2> QED
    BY <1>1, <1>2, <2>1, NatSet
<1>4. \E x \in T : \A y \in T : x >= y
  BY <1>3
<1> QED
  BY <1>4 DEF Largest
-----------------------------------------------------------------------------
(* The equation that MapThenFoldSet solves: f says what is folded, ch in   *)
(* which order.                                                            *)
Solves(c, base, S, f, ch, g) ==
    g = [s \in SUBSET S |-> IF s = {} THEN base ELSE Op(c, g[s \ {ch[s]}], f[ch[s]])]
Chooses(S, ch) == \A s \in SUBSET S : s # {} => ch[s] \in s

LEMMA SmallerSet ==
    ASSUME NEW S, IsFiniteSet(S), NEW s \in SUBSET S, NEW x \in s
    PROVE  /\ s \ {x} \in SUBSET S /\ Cardinality(s) \in Nat /\ Cardinality(s \ {x}) \in Nat
           /\ Cardinality(s) = Cardinality(s \ {x}) + 1
<1>1. IsFiniteSet(s)
  BY FS_Subset
<1>2. IsFiniteSet(s \ {x}) /\ Cardinality(s \ {x}) = Cardinality(s) - 1
  BY <1>1, FS_RemoveElement
<1>3. Cardinality(s) \in Nat /\ Cardinality(s \ {x}) \in Nat
  BY <1>1, <1>2, FS_CardinalityType
<1> QED
  BY <1>2, <1>3

LEMMA Solvable ==
    ASSUME NEW c, NEW base, NEW S, IsFiniteSet(S), NEW f, NEW ch, Chooses(S, ch)
    PROVE  \E g : Solves(c, base, S, f, ch, g)
<1> DEFINE Upto(g, n) == \A s \in SUBSET S : Cardinality(s) <= n =>
                            g[s] = IF s = {} THEN base ELSE Op(c, g[s \ {ch[s]}], f[ch[s]])
           N == {n \in Nat : \E g : Upto(g, n)}
<1>1. 0 \in N
  <2> DEFINE g == [s \in SUBSET S |-> base]
  <2>1. Upto(g, 0)
    <3> SUFFICES ASSUME NEW s \in SUBSET S, Cardinality(s) <= 0 PROVE s = {}
      OBVIOUS
    <3>1. IsFiniteSet(s)
      BY FS_Subset
    <3> QED
      BY <3>1, FS_EmptySet, FS_CardinalityType
  <2> QED
    BY <2>1
<1>2. ASSUME NEW n \in N PROVE n + 1 \in N
  <2>1. PICK g : Upto(g, n)
    OBVIOUS
  <2> DEFINE h == [s \in SUBSET S |->
                      IF Cardinality(s) <= n THEN g[s]
                      ELSE IF s = {} THEN base ELSE Op(c, g[s \ {ch[s]}], f[ch[s]])]
  <2>2. Upto(h, n + 1)
    <3> SUFFICES ASSUME NEW s \in SUBSET S, Cardinality(s) <= n + 1
                 PROVE  h[s] = IF s = {} THEN base ELSE Op(c, h[s \ {ch[s]}], f[ch[s]])
      OBVIOUS
    <3>1. CASE s = {}
      BY <2>1, <3>1
    <3>2. CASE s # {}
      <4>1. ch[s] \in s
        BY <3>2 DEF Chooses
      <4>2. /\ s \ {ch[s]} \in SUBSET S /\ Cardinality(s) \in Nat /\ Cardinality(s \ {ch[s]}) \in Nat
            /\ Cardinality(s) = Cardinality(s \ {ch[s]}) + 1
        BY <4>1, SmallerSet
      <4>3. Cardinality(s \ {ch[s]}) <= n
        BY <4>2
      <4>4. h[s \ {ch[s]}] = g[s \ {ch[s]}]
        BY <4>2, <4>3
      <4>5. h[s] = Op(c, g[s \ {ch[s]}], f[ch[s]])
        BY <2>1, <3>2
      <4> QED
        BY <3>2, <4>4, <4>5
    <3> QED
      BY <3>1, <3>2
  <2>3. \E x : Upto(x, n + 1)
    <3> HIDE DEF h, Upto
    <3> QED
      BY <2>2
  <2>4. n + 1 \in Nat
    OBVIOUS
  <2> HIDE DEF Upto
  <2> QED
    BY <2>3, <2>4
<1>3. N = Nat
  <2> HIDE DEF N
  <2>1. N \in SUBSET Nat
    BY DEF N
  <2> QED
    BY <1>1, <1>2, <2>1, NatSet
<1>4. Cardinality(S) \in Nat
  BY FS_CardinalityType
<1>5. PICK g : Upto(g, Cardinality(S))
  BY <1>3, <1>4
<1> DEFINE h == [s \in SUBSET S |-> IF s = {} THEN base ELSE Op(c, g[s \ {ch[s]}], f[ch[s]])]
<1>6. ASSUME NEW s \in SUBSET S PROVE h[s] = g[s]
  <2>1. Cardinality(s) <= Cardinality(S)
    BY FS_Subset
  <2> QED
    BY <1>5, <2>1
<1>7. Solves(c, base, S, f, ch, h)
  <2>1. ASSUME NEW s \in SUBSET S
        PROVE  h[s] = IF s = {} THEN base ELSE Op(c, h[s \ {ch[s]}], f[ch[s]])
    <3>1. h[s \ {ch[s]}] = g[s \ {ch[s]}]
      BY <1>6
    <3>2. h[s] = IF s = {} THEN base ELSE Op(c, g[s \ {ch[s]}], f[ch[s]])
      OBVIOUS
    <3> HIDE DEF h
    <3> QED
      BY <3>1, <3>2
  <2>2. h = [s \in SUBSET S |-> h[s]]
    OBVIOUS
  <2> HIDE DEF h
  <2> QED
    BY <2>1, <2>2 DEF Solves
<1> HIDE DEF h
<1> QED
  BY <1>7
-----------------------------------------------------------------------------
(* FoldLeft takes the elements one after the other: h[k] is what the first *)
(* k of them lead to.                                                      *)
LeftIter(c, base, seq, g) ==
    g = [s \in SUBSET DOMAIN seq |->
            IF s = {} THEN base ELSE Op(c, g[s \ {Largest(s)}], seq[Largest(s)])]
Steps(c, base, seq, n, h) ==
    /\ h[0] = base
    /\ \A k \in 0..(n - 1) : h[k + 1] = Op(c, h[k], seq[k + 1])
    /\ h[n] = Left(c, base, seq)

THEOREM LeftSteps ==
    ASSUME NEW c, NEW base, NEW seq, NEW n \in Nat, DOMAIN seq = 1..n
    PROVE  \E h : Steps(c, base, seq, n, h)
<1> DEFINE ch == [s \in SUBSET (1..n) |-> Largest(s)]
           It(g) == LeftIter(c, base, seq, g)
<1>1. IsFiniteSet(1..n)
  BY FS_Interval
<1>2. Chooses(1..n, ch)
  BY MaxIn DEF Chooses
<1>3. PICK g : Solves(c, base, 1..n, seq, ch, g)
  BY <1>1, <1>2, Solvable
<1>4. It(g)
  <2>1. ASSUME NEW s \in SUBSET (1..n)
        PROVE  g[s] = IF s = {} THEN base ELSE Op(c, g[s \ {Largest(s)}], seq[Largest(s)])
    <3>1. ch[s] = Largest(s)
      OBVIOUS
    <3>2. g[s] = IF s = {} THEN base ELSE Op(c, g[s \ {ch[s]}], seq[ch[s]])
      <4> HIDE DEF ch
      <4> QED
        BY <1>3 DEF Solves
    <3> HIDE DEF ch
    <3> QED
      BY <3>1, <3>2
  <2>2. g = [s \in SUBSET (1..n) |-> g[s]]
    <3> HIDE DEF ch
    <3> QED
      BY <1>3 DEF Solves
  <2> QED
    BY <2>1, <2>2 DEF LeftIter
<1> DEFINE it == CHOOSE x : It(x)
<1>5. It(it)
  <2> HIDE DEF It
  <2> QED
    BY <1>4, Zenon
<1>6. Left(c, base, seq) = it[1..n]
  BY DEF Left, LeftIter, Largest
<1> HIDE DEF it
<1>7. it[1..0] = base
  <2>1. 1..0 = {} /\ {} \in SUBSET DOMAIN seq
    OBVIOUS
  <2>2. it[{}] = base
    BY <1>5, <2>1 DEF LeftIter
  <2> QED
    BY <2>1, <2>2
<1>8. ASSUME NEW k \in 0..(n - 1) PROVE it[1..(k + 1)] = Op(c, it[1..k], seq[k + 1])
  <2>1. k \in Nat /\ k + 1 \in Nat /\ k + 1 <= n /\ k + 1 \in 1..(k + 1)
    OBVIOUS
  <2>2. 1..(k + 1) # {}
    BY <2>1
  <2>3. 1..(k + 1) \in SUBSET (1..n)
    BY <2>1
  <2>4. Largest(1..(k + 1)) = k + 1
    <3>1. 1..(k + 1) \in SUBSET (1..(k + 1))
      OBVIOUS
    <3>2. /\ Largest(1..(k + 1)) \in 1..(k + 1)
          /\ \A y \in 1..(k + 1) : Largest(1..(k + 1)) >= y
      BY <2>1, <2>2, <3>1, MaxIn
    <3>3. Largest(1..(k + 1)) >= k + 1
      BY <2>1, <3>2
    <3> QED
      BY <2>1, <3>2, <3>3
  <2>5. (1..(k + 1)) \ {k + 1} = 1..k
    BY <2>1
  <2> QED
    BY <1>5, <2>2, <2>3, <2>4, <2>5 DEF LeftIter
<1> DEFINE h == [k \in 0..n |-> it[1..k]]
<1>9. /\ h[0] = it[1..0] /\ h[n] = it[1..n]
      /\ \A k \in 0..(n - 1) : h[k] = it[1..k] /\ h[k + 1] = it[1..(k + 1)]
  OBVIOUS
<1> HIDE DEF h
<1>10. Steps(c, base, seq, n, h)
  BY <1>6, <1>7, <1>8, <1>9 DEF Steps
<1> QED
  BY <1>10

(* What holds of the first accumulator, and of the next one with each      *)
(* element, holds of the result of FoldLeft.                               *)
THEOREM LeftInduction ==
    ASSUME NEW c, NEW base, NEW seq, NEW n \in Nat, DOMAIN seq = 1..n,
           Inv(c, 0, base),
           \A k \in 0..(n - 1) : \A a : Inv(c, k, a) => Inv(c, k + 1, Op(c, a, seq[k + 1]))
    PROVE  Inv(c, n, Left(c, base, seq))
<1>1. PICK h : Steps(c, base, seq, n, h)
  BY LeftSteps
<1> DEFINE N == {k \in Nat : k <= n => Inv(c, k, h[k])}
<1>2. 0 \in N
  BY <1>1 DEF Steps
<1>3. ASSUME NEW k \in N PROVE k + 1 \in N
  <2> SUFFICES ASSUME k + 1 <= n PROVE Inv(c, k + 1, h[k + 1])
    OBVIOUS
  <2>1. k \in 0..(n - 1) /\ Inv(c, k, h[k])
    OBVIOUS
  <2> QED
    BY <1>1, <2>1 DEF Steps
<1>4. N = Nat
  <2> HIDE DEF N
  <2>1. N \in SUBSET Nat
    BY DEF N
  <2> QED
    BY <1>2, <1>3, <2>1, NatSet
<1> QED
  BY <1>1, <1>4 DEF Steps
-----------------------------------------------------------------------------
(* FoldSet takes the elements in an order of its own.                      *)
SetIter(c, base, S, g) ==
    g = [s \in SUBSET S |->
            IF s = {} THEN base
            ELSE Op(c, g[s \ {CHOOSE x \in s : TRUE}], CHOOSE x \in s : TRUE)]

THEOREM SetInduction ==
    ASSUME NEW c, NEW base, NEW S, Inv(c, {}, base),
           \E n \in Nat : \E f \in [1..n -> S] : \A x \in S : \E i \in 1..n : f[i] = x,
           \A done \in SUBSET S : \A x \in S \ done : \A a :
               Inv(c, done, a) => Inv(c, done \cup {x}, Op(c, a, x))
    PROVE  Inv(c, S, OfSet(c, base, S))
<1>0. IsFiniteSet(S)
  <2>1. PICK n \in Nat : \E f \in [1..n -> S] : \A x \in S : \E i \in 1..n : f[i] = x
    OBVIOUS
  <2>2. PICK f \in [1..n -> S] : \A x \in S : \E i \in 1..n : f[i] = x
    BY <2>1
  <2>3. f \in Surjection(1..n, S)
    BY <2>2 DEF Surjection
  <2>4. IsFiniteSet(1..n)
    BY FS_Interval
  <2> QED
    BY <2>3, <2>4, FS_Surjection
<1> DEFINE ch == [s \in SUBSET S |-> CHOOSE x \in s : TRUE]
           id == [x \in S |-> x]
           It(g) == SetIter(c, base, S, g)
<1>1. ASSUME NEW s \in SUBSET S, s # {} PROVE (CHOOSE x \in s : TRUE) \in s
  BY <1>1
<1>2. Chooses(S, ch)
  BY <1>1 DEF Chooses
<1>3. PICK g : Solves(c, base, S, id, ch, g)
  <2> HIDE DEF ch, id
  <2> QED
    BY <1>0, <1>2, Solvable
<1>4. It(g)
  <2>1. ASSUME NEW s \in SUBSET S
        PROVE  g[s] = IF s = {} THEN base
                      ELSE Op(c, g[s \ {CHOOSE x \in s : TRUE}], CHOOSE x \in s : TRUE)
    <3>1. ch[s] = CHOOSE x \in s : TRUE
      OBVIOUS
    <3>2. s # {} => id[ch[s]] = ch[s]
      BY <1>1
    <3>3. g[s] = IF s = {} THEN base ELSE Op(c, g[s \ {ch[s]}], id[ch[s]])
      <4> HIDE DEF ch, id
      <4> QED
        BY <1>3 DEF Solves
    <3> HIDE DEF ch, id
    <3> QED
      BY <3>1, <3>2, <3>3
  <2>2. g = [s \in SUBSET S |-> g[s]]
    <3> HIDE DEF ch, id
    <3> QED
      BY <1>3 DEF Solves
  <2> QED
    BY <2>1, <2>2 DEF SetIter
<1> DEFINE it == CHOOSE x : It(x)
<1>5. It(it)
  <2> HIDE DEF It
  <2> QED
    BY <1>4, Zenon
<1>6. OfSet(c, base, S) = it[S]
  BY DEF OfSet, SetIter
<1> HIDE DEF it, ch, id
<1> DEFINE N == {k \in Nat : \A s \in SUBSET S : Cardinality(s) = k => Inv(c, s, it[s])}
<1>7. 0 \in N
  <2> SUFFICES ASSUME NEW s \in SUBSET S, Cardinality(s) = 0 PROVE Inv(c, s, it[s])
    OBVIOUS
  <2>1. s = {}
    BY <1>0, FS_Subset, FS_EmptySet
  <2>2. it[{}] = base
    BY <1>5 DEF SetIter
  <2> QED
    BY <2>1, <2>2
<1>8. ASSUME NEW k \in N PROVE k + 1 \in N
  <2> SUFFICES ASSUME NEW s \in SUBSET S, Cardinality(s) = k + 1 PROVE Inv(c, s, it[s])
    OBVIOUS
  <2> DEFINE x == CHOOSE y \in s : TRUE
  <2>1. s # {}
    BY <1>0, FS_Subset, FS_EmptySet
  <2>2. x \in s
    BY <1>1, <2>1
  <2>3. it[s] = Op(c, it[s \ {x}], x)
    BY <1>5, <2>1 DEF SetIter
  <2> HIDE DEF x
  <2>4. s \ {x} \in SUBSET S /\ Cardinality(s \ {x}) = k
    BY <1>0, <2>2, SmallerSet
  <2>5. Inv(c, s \ {x}, it[s \ {x}])
    BY <2>4
  <2>6. (s \ {x}) \cup {x} = s /\ x \in S \ (s \ {x})
    BY <2>2
  <2>7. Inv(c, (s \ {x}) \cup {x}, Op(c, it[s \ {x}], x))
    BY <2>4, <2>5, <2>6
  <2> QED
    BY <2>3, <2>6, <2>7
<1>9. N = Nat
  <2> HIDE DEF N
  <2>1. N \in SUBSET Nat
    BY DEF N
  <2> QED
    BY <1>7, <1>8, <2>1, NatSet
<1>10. Cardinality(S) \in Nat
  BY <1>0, FS_CardinalityType
<1> QED
  BY <1>6, <1>9, <1>10
=============================================================================
