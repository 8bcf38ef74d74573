------------------------------ MODULE lkpInduction ------------------------------
(***************************************************************************)
(* Induction, and what a fold over a sequence computes.  The theorems of   *)
(* the library that take an operator (NatInduction, RecursiveFcnOfNat)     *)
(* cannot be instantiated here; these are stated with sets and functions,  *)
(* and follow from the least element of a set of numbers.  Every fold of   *)
(* the models (the bytes of a stream, the fields of a message, the rows of *)
(* a table, the buffers of a log) is unrolled with them.                   *)
(***************************************************************************)
EXTENDS Integers, SequencesExt, SequenceTheorems, FiniteSetTheorems, WellFoundedInduction, TLAPS

(* Every set of numbers that is not empty has a least one.                 *)
LEMMA LeastNumber ==
  ASSUME NEW T, T \subseteq Nat, T # {}
  PROVE  \E x \in T : \A y \in T : x <= y
<1> DEFINE R == OpToRel(<, Nat)
<1>1. \E x \in T : \A y \in T : ~ (<<y, x>> \in R)
  <2>1. IsWellFoundedOn(R, Nat)
    BY NatLessThanWellFounded
  <2> HIDE DEF R
  <2> QED BY <2>1, WFMin
<1>2. PICK x \in T : \A y \in T : ~ (<<y, x>> \in R)
  BY <1>1
<1>3. ASSUME NEW y \in T PROVE x <= y
  <2>1. x \in Nat /\ y \in Nat
    OBVIOUS
  <2>2. ~(y < x)
    BY <1>2, <2>1 DEF OpToRel
  <2> QED BY <2>1, <2>2
<1> QED BY <1>3

(* Where the elements of a concatenation come from.                        *)
LEMMA ConcatParts ==
  ASSUME NEW S, NEW s \in Seq(S), NEW t \in Seq(S)
  PROVE  /\ s \o t \in Seq(S) /\ Len(s \o t) = Len(s) + Len(t)
         /\ \A i \in 1..Len(s) : (s \o t)[i] = s[i] /\ i \in 1..(Len(s) + Len(t))
         /\ \A i \in 1..Len(t) :
              (s \o t)[Len(s) + i] = t[i] /\ Len(s) + i \in 1..(Len(s) + Len(t))
<1>0. PICK u : u = s \o t
  OBVIOUS
<1>1. PICK m \in Nat, n \in Nat : m = Len(s) /\ n = Len(t)
  OBVIOUS
<1>2. /\ u \in Seq(S) /\ Len(u) = m + n
      /\ \A i \in 1..(m + n) : u[i] = IF i <= m THEN s[i] ELSE t[i - m]
  BY <1>0, <1>1, ConcatProperties
<1>3. \A i \in 1..n : m + i \in 1..(m + n) /\ ~(m + i <= m) /\ m + i - m = i
  OBVIOUS
<1>4. \A i \in 1..m : i \in 1..(m + n) /\ i <= m
  OBVIOUS
<1> QED BY <1>0, <1>1, <1>2, <1>3, <1>4

(* Induction over the numbers, for a set T.                                *)
LEMMA Induction ==
  ASSUME NEW T, 0 \in T, \A n \in Nat : n \in T => n + 1 \in T
  PROVE  \A n \in Nat : n \in T
<1> SUFFICES ASSUME \E n \in Nat : n \notin T PROVE FALSE
  OBVIOUS
<1> DEFINE U == {n \in Nat : n \notin T}
<1>1. PICK x \in U : \A y \in U : x <= y
  BY LeastNumber
<1>2. x - 1 \in Nat /\ x - 1 \notin U /\ x - 1 + 1 = x
  BY <1>1
<1> QED BY <1>1, <1>2

(* Induction over 0..n, for a set T.                                       *)
LEMMA FiniteInduction ==
  ASSUME NEW n \in Nat, NEW T, 0 \in T, \A i \in 1..n : i - 1 \in T => i \in T
  PROVE  \A i \in 0..n : i \in T
<1> DEFINE K == {i \in Nat : i <= n => i \in T}
<1>1. 0 \in K
  OBVIOUS
<1>2. ASSUME NEW i \in Nat, i \in K PROVE i + 1 \in K
  <2> SUFFICES ASSUME i + 1 <= n PROVE i + 1 \in T
    OBVIOUS
  <2>1. i + 1 \in 1..n /\ i + 1 - 1 = i /\ i \in T
    BY <1>2
  <2> QED BY <2>1
<1>3. \A i \in Nat : i \in K
  <2> HIDE DEF K
  <2> QED BY <1>1, <1>2, Induction
<1> QED BY <1>3

(* A set of numbers up to n that is not empty has a greatest one, which is *)
(* what Max chooses.                                                       *)
LEMMA GreatestNumber ==
  ASSUME NEW n \in Nat, NEW T, T \subseteq 0..n, T # {}
  PROVE  Max(T) \in T /\ \A y \in T : y <= Max(T)
<1> DEFINE B == {b \in Nat : \A y \in T : y <= b}
<1>1. PICK b \in B : \A c \in B : b <= c
  <2>1. n \in B
    OBVIOUS
  <2> QED BY <2>1, LeastNumber
<1>2. b \in T
  <2> SUFFICES ASSUME b \notin T PROVE FALSE
    OBVIOUS
  <2>1. PICK y \in T : y <= b /\ y # b
    BY <1>1
  <2>2. b - 1 \in B
    BY <1>1, <2>1
  <2> QED BY <1>1, <2>2
<1>3. \E x \in T : \A y \in T : x >= y
  BY <1>1, <1>2
<1> QED BY <1>3 DEF Max

(* The function that MapThenFoldSet defines when it takes the greatest     *)
(* element first, for the operator F on 1..n.                              *)
FoldsBy(n, base, F, g) ==
  g = [T \in SUBSET (1..n) |-> IF T = {} THEN base ELSE F[<<g[T \ {Max(T)}], Max(T)>>]]

(* There is a function that satisfies the recursion: built for 1..k, one k *)
(* after the other.                                                        *)
LEMMA SetRecursion ==
  ASSUME NEW n \in Nat, NEW Typ, NEW base \in Typ, NEW F \in [Typ \X (1..n) -> Typ]
  PROVE  \E g \in [SUBSET (1..n) -> Typ] : FoldsBy(n, base, F, g)
<1> DEFINE Good(k, g) == /\ g \in [SUBSET (1..k) -> Typ]
                         /\ \A T \in SUBSET (1..k) :
                              g[T] = IF T = {} THEN base ELSE F[<<g[T \ {Max(T)}], Max(T)>>]
           K == {k \in Nat : k <= n => \E g : Good(k, g)}
<1>1. 0 \in K
  <2> DEFINE g0 == [T \in SUBSET (1..0) |-> base]
  <2>1. SUBSET (1..0) = {{}}
    OBVIOUS
  <2>2. Good(0, g0)
    BY <2>1
  <2> HIDE DEF Good
  <2> QED BY <2>2
<1>2. ASSUME NEW k \in Nat, k \in K PROVE k + 1 \in K
  <2> SUFFICES ASSUME k + 1 <= n PROVE \E g : Good(k + 1, g)
    <3> HIDE DEF Good
    <3> QED OBVIOUS
  <2>1. PICK g : Good(k, g)
    <3> HIDE DEF Good
    <3>1. k <= n
      OBVIOUS
    <3> QED BY <1>2, <3>1
  <2> DEFINE h == [T \in SUBSET (1..(k + 1)) |->
                     IF k + 1 \in T THEN F[<<g[T \ {k + 1}], k + 1>>] ELSE g[T]]
  <2>2. ASSUME NEW T \in SUBSET (1..(k + 1)), k + 1 \in T
        PROVE  Max(T) = k + 1 /\ T \ {k + 1} \in SUBSET (1..k)
    <3>1. k + 1 \in Nat /\ T \subseteq 0..(k + 1) /\ T # {}
      BY <2>2
    <3>2. Max(T) \in T /\ \A y \in T : y <= Max(T)
      BY <3>1, GreatestNumber
    <3>3. Max(T) = k + 1
      <4>1. PICK m \in 1..(k + 1) : m = Max(T)
        BY <3>2
      <4>2. k + 1 <= m
        BY <2>2, <3>2, <4>1
      <4> QED BY <4>1, <4>2
    <3>4. T \ {k + 1} \in SUBSET (1..k)
      OBVIOUS
    <3> QED BY <3>3, <3>4
  <2>3. ASSUME NEW T \in SUBSET (1..(k + 1)), k + 1 \notin T
        PROVE  /\ T \in SUBSET (1..k)
               /\ T \ {Max(T)} \in SUBSET (1..(k + 1)) /\ k + 1 \notin T \ {Max(T)}
    <3>1. \A y \in T : y \in 1..k
      BY <2>3
    <3> QED BY <2>3, <3>1
  <2>4. h \in [SUBSET (1..(k + 1)) -> Typ]
    <3>1. ASSUME NEW T \in SUBSET (1..(k + 1)) PROVE h[T] \in Typ
      <4>1. CASE k + 1 \in T
        <5>1. g[T \ {k + 1}] \in Typ /\ k + 1 \in 1..n
          BY <2>1, <2>2, <4>1
        <5> QED BY <4>1, <5>1
      <4>2. CASE k + 1 \notin T
        BY <2>1, <2>3, <4>2
      <4> QED BY <4>1, <4>2
    <3> QED BY <3>1
  <2>5. ASSUME NEW T \in SUBSET (1..(k + 1))
        PROVE  h[T] = IF T = {} THEN base ELSE F[<<h[T \ {Max(T)}], Max(T)>>]
    <3>1. CASE k + 1 \in T
      <4>1. h[T \ {k + 1}] = g[T \ {k + 1}]
        BY <2>2, <3>1
      <4> QED BY <2>2, <3>1, <4>1
    <3>2. CASE k + 1 \notin T
      <4>1. h[T] = g[T] /\ (T # {} => h[T \ {Max(T)}] = g[T \ {Max(T)}])
        BY <2>3, <3>2
      <4> QED BY <2>1, <2>3, <3>2, <4>1
    <3> QED BY <3>1, <3>2
  <2>6. Good(k + 1, h)
    <3> HIDE DEF h
    <3> QED BY <2>4, <2>5
  <2> HIDE DEF Good, h
  <2> QED BY <2>6
<1>3. \E g : Good(n, g)
  <2> HIDE DEF Good
  <2>1. \A k \in Nat : k \in K
    <3> HIDE DEF K
    <3> QED BY <1>1, <1>2, Induction
  <2> QED BY <2>1
<1>4. PICK g : Good(n, g)
  BY <1>3
<1>5. FoldsBy(n, base, F, g)
  BY <1>4 DEF FoldsBy
<1> QED BY <1>4, <1>5

(* What FoldsBy needs of Max.                                              *)
LEMMA MaxOfRange ==
  ASSUME NEW n \in Nat, NEW T \in SUBSET (1..n), T # {}
  PROVE  Max(T) \in 1..n /\ T \ {Max(T)} \in SUBSET (1..n)
<1>1. T \subseteq 0..n
  OBVIOUS
<1>2. Max(T) \in T
  BY <1>1, GreatestNumber
<1> QED BY <1>2

(* 1..k without its greatest element is 1..(k - 1).                        *)
LEMMA InitialRange ==
  ASSUME NEW n \in Nat, NEW k \in 1..n
  PROVE  /\ 1..k \in SUBSET (1..n) /\ 1..k # {}
         /\ Max(1..k) = k /\ (1..k) \ {k} = 1..(k - 1)
<1>1. k \in Nat /\ 1..k \subseteq 0..k /\ k \in 1..k
  OBVIOUS
<1>2. Max(1..k) \in 1..k /\ \A y \in 1..k : y <= Max(1..k)
  BY <1>1, GreatestNumber
<1>3. PICK m \in 1..k : m = Max(1..k)
  BY <1>2
<1>4. k <= m
  BY <1>1, <1>2, <1>3
<1> QED BY <1>3, <1>4

(* Every function that satisfies the recursion, as far as its values have  *)
(* the type, has the value r at 1..n.                                      *)
FoldResult(n, Typ, base, F, r) ==
  \A it : /\ it[{}] = base
          /\ \A T \in SUBSET (1..n) :
               T # {} /\ it[T \ {Max(T)}] \in Typ => it[T] = F[<<it[T \ {Max(T)}], Max(T)>>]
          => it[1..n] = r

(* A fold is the end of the chain h that applies F once for every index,   *)
(* from left to right.                                                     *)
LEMMA FoldChain ==
  ASSUME NEW n \in Nat, NEW Typ, NEW base \in Typ, NEW F \in [Typ \X (1..n) -> Typ]
  PROVE  \E h \in [0..n -> Typ] :
           /\ h[0] = base /\ \A i \in 1..n : h[i] = F[<<h[i - 1], i>>]
           /\ FoldResult(n, Typ, base, F, h[n])
<1>0. PICK g \in [SUBSET (1..n) -> Typ] : FoldsBy(n, base, F, g)
  BY SetRecursion
<1>1. g = [T \in SUBSET (1..n) |-> IF T = {} THEN base ELSE F[<<g[T \ {Max(T)}], Max(T)>>]]
  BY <1>0 DEF FoldsBy
<1> DEFINE h == [i \in 0..n |-> g[1..i]]
<1>2. h \in [0..n -> Typ]
  BY <1>1
<1>3. h[0] = base /\ h[0] = g[{}]
  BY <1>1, 1..0 = {}
<1>4. ASSUME NEW i \in 1..n PROVE h[i] = F[<<h[i - 1], i>>]
  <2>1. g[1..i] = F[<<g[1..(i - 1)], i>>]
    <3>1. /\ 1..i \in SUBSET (1..n) /\ 1..i # {}
          /\ Max(1..i) = i /\ (1..i) \ {i} = 1..(i - 1)
      BY InitialRange
    <3> QED BY <1>1, <3>1
  <2>2. i \in 0..n /\ i - 1 \in 0..n
    OBVIOUS
  <2> QED BY <2>1, <2>2
<1> HIDE DEF h
<1>5. ASSUME NEW iter,
             iter[{}] = base,
             \A T \in SUBSET (1..n) :
               T # {} /\ iter[T \ {Max(T)}] \in Typ => iter[T] = F[<<iter[T \ {Max(T)}], Max(T)>>]
      PROVE  iter[1..n] = h[n]
  <2> DEFINE K == {i \in 0..n : iter[1..i] = h[i]}
  <2>1. 0 \in K
    BY <1>3, <1>5, 1..0 = {}
  <2>2. ASSUME NEW i \in 1..n, i - 1 \in K PROVE i \in K
    <3>1. iter[1..(i - 1)] = h[i - 1] /\ h[i - 1] \in Typ
      BY <1>2, <2>2
    <3>2. /\ 1..i \in SUBSET (1..n) /\ 1..i # {}
          /\ Max(1..i) = i /\ (1..i) \ {i} = 1..(i - 1)
      BY InitialRange
    <3>3. iter[1..i] = F[<<iter[1..(i - 1)], i>>]
      BY <1>5, <3>1, <3>2
    <3> QED BY <1>4, <3>1, <3>3
  <2> HIDE DEF K
  <2>3. \A i \in 0..n : i \in K
    BY <2>1, <2>2, FiniteInduction
  <2> QED BY <2>3 DEF K
<1>6. FoldResult(n, Typ, base, F, h[n])
  BY <1>5 DEF FoldResult
<1> QED BY <1>2, <1>3, <1>4, <1>6
=============================================================================
