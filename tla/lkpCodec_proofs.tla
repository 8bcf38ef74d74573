--------------------------- MODULE lkpCodec_proofs ---------------------------
(***************************************************************************)
(* Proofs about lkpCodec and the generated classes of lkpProto, for any    *)
(* scripts of messages and any way TCP cuts the stream: every class reads  *)
(* back what it wrote, the loop of onMessage handles the frames in order   *)
(* and whole, and so the codec implements a reliable channel up to the     *)
(* first frame it refuses.                                                 *)
(*                                                                         *)
(* Sequences of fields are read and measured by folds; TotalChain and      *)
(* ReadChain turn these into chains h[0], h[1], ... (FoldChain of          *)
(* lkpInduction), from which concatenation follows. Written says of a      *)
(* prefix of the fields of a message what its size is and what is read     *)
(* from it; each Add lemma is one statement "if (this->x() != 0)" of       *)
(* SerializeWithCachedSizes. A message is given by its fields in the order *)
(* of their numbers: FileOf(a, b, ...), and t to z stand for the fields of *)
(* a second message it is merged with.                                     *)
(***************************************************************************)
EXTENDS lkpCodec, lkpInduction

(* A sum is the end of the chain of its partial sums.                      *)
LEMMA TotalChain ==
  ASSUME NEW s \in Seq(Nat)
  PROVE  \E h \in [0..Len(s) -> Nat] :
           /\ h[0] = 0
           /\ \A i \in 1..Len(s) : h[i] = h[i - 1] + s[i]
           /\ Total(s) = h[Len(s)]
<1> DEFINE n == Len(s)
           F == [p \in Nat \X (1..n) |-> p[1] + s[p[2]]]
           Eq(g) == g = [T \in SUBSET DOMAIN s |->
                           IF T = {} THEN 0 ELSE g[T \ {Max(T)}] + s[Max(T)]]
           iter == CHOOSE g : Eq(g)
<1>1. n \in Nat /\ DOMAIN s = 1..n /\ \A i \in 1..n : s[i] \in Nat
  BY ElementOfSeq
<1>2. Total(s) = iter[DOMAIN s]
  BY DEF Total, FoldLeft, MapThenFoldSet
<1> HIDE DEF n
<1>3. 0 \in Nat /\ F \in [Nat \X (1..n) -> Nat]
  BY <1>1
<1>4. Eq(iter)
  <2>1. PICK g \in [SUBSET (1..n) -> Nat] : FoldsBy(n, 0, F, g)
    <3> HIDE DEF F
    <3> QED BY <1>1, <1>3, SetRecursion
  <2>2. \A T \in SUBSET (1..n) :
          g[T] = IF T = {} THEN 0 ELSE g[T \ {Max(T)}] + s[Max(T)]
    BY <1>1, <2>1, MaxOfRange DEF FoldsBy
  <2>3. Eq(g)
    BY <1>1, <2>1, <2>2 DEF FoldsBy
  <2> HIDE DEF Eq
  <2> QED BY <2>3
<1>5. PICK h \in [0..n -> Nat] :
        /\ h[0] = 0 /\ \A i \in 1..n : h[i] = F[<<h[i - 1], i>>]
        /\ FoldResult(n, Nat, 0, F, h[n])
  <2> HIDE DEF F
  <2> QED BY <1>1, <1>3, FoldChain
<1>6. iter[1..n] = h[n]
  <2> HIDE DEF iter
  <2>1. iter[{}] = 0
    BY <1>1, <1>4
  <2>2. \A T \in SUBSET (1..n) :
          T # {} /\ iter[T \ {Max(T)}] \in Nat => iter[T] = F[<<iter[T \ {Max(T)}], Max(T)>>]
    BY <1>1, <1>4, MaxOfRange
  <2> QED BY <1>5, <2>1, <2>2 DEF FoldResult
<1>7. \A i \in 1..n : h[i] = h[i - 1] + s[i]
  <2>1. ASSUME NEW i \in 1..n PROVE h[i] = h[i - 1] + s[i]
    <3>1. i - 1 \in 0..n /\ <<h[i - 1], i>> \in Nat \X (1..n)
      BY <1>1
    <3> QED BY <1>5, <3>1
  <2> QED BY <2>1
<1> QED BY <1>1, <1>2, <1>5, <1>6, <1>7 DEF n

(* The sum of two sequences, one after the other, is the sum of both sums. *)
LEMMA TotalConcat ==
  ASSUME NEW s \in Seq(Nat), NEW t \in Seq(Nat)
  PROVE  Total(s) \in Nat /\ Total(s \o t) = Total(s) + Total(t)
<1>1. PICK m \in Nat, n \in Nat : m = Len(s) /\ n = Len(t)
  OBVIOUS
<1>2. PICK u \in Seq(Nat) : u = s \o t
  BY ConcatProperties
<1>3. /\ Len(u) = m + n /\ \A i \in 1..m : u[i] = s[i] /\ i \in 1..(m + n)
      /\ \A i \in 1..n : u[m + i] = t[i] /\ m + i \in 1..(m + n)
  BY <1>1, <1>2, ConcatParts, SMTT(30)
<1>4. PICK f \in [0..m -> Nat] : /\ f[0] = 0 /\ Total(s) = f[m]
                                 /\ \A i \in 1..m : f[i] = f[i - 1] + s[i]
  BY <1>1, TotalChain
<1>5. PICK g \in [0..n -> Nat] : /\ g[0] = 0 /\ Total(t) = g[n]
                                 /\ \A i \in 1..n : g[i] = g[i - 1] + t[i]
  BY <1>1, TotalChain
<1>6. PICK h \in [0..(m + n) -> Nat] :
        h[0] = 0 /\ (\A i \in 1..(m + n) : h[i] = h[i - 1] + u[i]) /\ Total(u) = h[m + n]
  BY <1>3, TotalChain
<1>7. \A i \in 0..m : i \in {k \in 0..m : h[k] = f[k]}
  <2> DEFINE K == {k \in 0..m : h[k] = f[k]}
  <2>1. 0 \in K
    BY <1>4, <1>6
  <2>2. ASSUME NEW i \in 1..m, i - 1 \in K PROVE i \in K
    BY <1>3, <1>4, <1>6, <2>2
  <2> HIDE DEF K
  <2>3. \A i \in 0..m : i \in K
    BY <2>1, <2>2, FiniteInduction
  <2> QED BY <2>3 DEF K
<1>8. \A i \in 0..n : i \in {k \in 0..n : h[m + k] = f[m] + g[k]}
  <2> DEFINE K == {k \in 0..n : h[m + k] = f[m] + g[k]}
  <2>1. 0 \in K
    BY <1>4, <1>5, <1>7
  <2>2. ASSUME NEW i \in 1..n, i - 1 \in K PROVE i \in K
    <3>1. PICK j \in 1..(m + n) : j = m + i /\ u[j] = t[i] /\ j - 1 = m + (i - 1)
      BY <1>3
    <3>2. h[j] = h[j - 1] + u[j]
      BY <1>6
    <3>3. h[m + (i - 1)] = f[m] + g[i - 1] /\ g[i] = g[i - 1] + t[i]
      BY <1>5, <2>2
    <3>4. f[m] \in Nat /\ g[i - 1] \in Nat /\ t[i] \in Nat
      <4>1. m \in 0..m /\ i - 1 \in 0..n
        OBVIOUS
      <4>2. t[i] \in Nat
        BY <1>1, ElementOfSeq
      <4> QED BY <4>1, <4>2
    <3>5. h[m + i] = f[m] + g[i]
      <4>1. h[j - 1] = f[m] + g[i - 1]
        BY <3>1, <3>3
      <4>2. h[j] = (f[m] + g[i - 1]) + t[i]
        BY <3>1, <3>2, <4>1
      <4>3. PICK a \in Nat, b \in Nat, c \in Nat : a = f[m] /\ b = g[i - 1] /\ c = t[i]
        BY <3>4
      <4>4. (a + b) + c = a + (b + c)
        OBVIOUS
      <4>5. h[j] = f[m] + g[i]
        BY <3>3, <4>2, <4>3, <4>4
      <4> QED BY <3>1, <4>5
    <3> QED BY <3>5
  <2> HIDE DEF K
  <2>3. \A i \in 0..n : i \in K
    BY <2>1, <2>2, FiniteInduction
  <2> QED BY <2>3 DEF K
<1>9. h[m + n] = f[m] + g[n] /\ f[m] \in Nat
  BY <1>4, <1>8
<1> QED BY <1>2, <1>4, <1>5, <1>6, <1>9

(* The sums of no number and of one.                                       *)
LEMMA TotalShort == Total(<<>>) = 0 /\ \A n \in Nat : Total(<<n>>) = n
<1>1. Total(<<>>) = 0
  <2>1. PICK s : s = <<>> /\ s \in Seq(Nat) /\ Len(s) = 0
    BY EmptySeq
  <2>2. Total(s) = 0
    BY <2>1, TotalChain
  <2> QED BY <2>1, <2>2
<1>2. ASSUME NEW n \in Nat PROVE Total(<<n>>) = n
  <2>0. <<n>> \in Seq(Nat) /\ Len(<<n>>) = 1 /\ <<n>>[1] = n
    OBVIOUS
  <2>1. PICK s \in Seq(Nat) : s = <<n>> /\ Len(s) = 1 /\ s[1] = n
    BY <2>0
  <2>2. PICK h \in [0..1 -> Nat] : h[0] = 0 /\ h[1] = h[0] + s[1] /\ Total(s) = h[1]
    <3>1. PICK h \in [0..Len(s) -> Nat] :
            h[0] = 0 /\ (\A i \in 1..Len(s) : h[i] = h[i - 1] + s[i]) /\ Total(s) = h[Len(s)]
      BY TotalChain
    <3> QED BY <2>1, <3>1
  <2> QED BY <2>1, <2>2
<1> QED BY <1>1, <1>2
-----------------------------------------------------------------------------
(* A field as it may be written by one of the classes: a number, a text,   *)
(* or the fields of a nested message.                                      *)
AnyField == [tag : Nat, val : Nat \cup STRING \cup Seq([tag : Nat, val : Nat \cup STRING])]

(* A field whose size in bytes is a number.                                *)
Sized == {f \in AnyField : FieldBytes(f) \in Nat}

(* The size of two sequences of fields, one after the other.               *)
LEMMA BytesConcat ==
  ASSUME NEW s \in Seq(Sized), NEW t \in Seq(Sized)
  PROVE  Bytes(s) \in Nat /\ Bytes(s \o t) = Bytes(s) + Bytes(t)
<1>1. PICK u \in Seq(Sized) : u = s \o t
  BY ConcatProperties
<1>2. ASSUME NEW r \in Seq(Sized)
      PROVE  [i \in DOMAIN r |-> FieldBytes(r[i])] \in Seq(Nat)
  <2>1. Len(r) \in Nat /\ DOMAIN r = 1..Len(r) /\ \A i \in 1..Len(r) : r[i] \in Sized
    BY ElementOfSeq
  <2>2. \A i \in 1..Len(r) : FieldBytes(r[i]) \in Nat
    BY <2>1 DEF Sized
  <2> QED BY <2>1, <2>2
<1>3. PICK a \in Seq(Nat), b \in Seq(Nat), c \in Seq(Nat) :
        /\ a = [i \in DOMAIN s |-> FieldBytes(s[i])]
        /\ b = [i \in DOMAIN t |-> FieldBytes(t[i])]
        /\ c = [i \in DOMAIN u |-> FieldBytes(u[i])]
  BY <1>1, <1>2
<1>4. PICK m \in Nat, n \in Nat : m = Len(s) /\ n = Len(t)
  OBVIOUS
<1>5. /\ DOMAIN s = 1..m /\ DOMAIN t = 1..n /\ DOMAIN u = 1..(m + n)
      /\ \A i \in 1..(m + n) : u[i] = IF i <= m THEN s[i] ELSE t[i - m]
  BY <1>1, <1>4, ConcatProperties
<1>6. Len(a) = m /\ Len(b) = n /\ Len(c) = m + n
  BY <1>3, <1>4, <1>5
<1>7. c = a \o b
  <2>1. /\ a \o b \in Seq(Nat) /\ Len(a \o b) = m + n
        /\ \A i \in 1..(m + n) : (a \o b)[i] = IF i <= m THEN a[i] ELSE b[i - m]
    BY <1>6, ConcatProperties
  <2>2. \A i \in 1..(m + n) : c[i] = IF i <= m THEN a[i] ELSE b[i - m]
    BY <1>3, <1>5
  <2>3. PICK d \in Seq(Nat) : d = a \o b
    BY <2>1
  <2>4. Len(d) = Len(c) /\ \A i \in 1..Len(c) : c[i] = d[i]
    BY <1>6, <2>1, <2>2, <2>3
  <2>5. c = d
    BY <2>4, SeqEqual
  <2> QED BY <2>3, <2>5
<1>8. Bytes(s) = Total(a) /\ Bytes(t) = Total(b) /\ Bytes(u) = Total(c)
  BY <1>3 DEF Bytes
<1> QED BY <1>1, <1>7, <1>8, TotalConcat

(* The sizes of no field and of one.                                       *)
LEMMA BytesShort == Bytes(<<>>) = 0 /\ \A f \in Sized : Bytes(<<f>>) = FieldBytes(f)
<1>1. Bytes(<<>>) = 0
  <2>1. [i \in DOMAIN <<>> |-> FieldBytes(<<>>[i])] = <<>>
    OBVIOUS
  <2> QED BY <2>1, TotalShort DEF Bytes
<1>2. ASSUME NEW f \in Sized PROVE Bytes(<<f>>) = FieldBytes(f)
  <2>1. [i \in DOMAIN <<f>> |-> FieldBytes(<<f>>[i])] = <<FieldBytes(f)>>
    OBVIOUS
  <2>2. FieldBytes(f) \in Nat
    BY DEF Sized
  <2> QED BY <2>1, <2>2, TotalShort DEF Bytes
<1> QED BY <1>1, <1>2
-----------------------------------------------------------------------------
(* A field that a message of M can read and stay in M.                     *)
Readable(type, M) == {f \in AnyField : \A q \in M : Turn(type, q, f) \subseteq M}

(* One turn of MergePartialFromCodedStream, for every message the reader   *)
(* may have so far; there is none when reading failed before.              *)
TurnAll(type, ms, f) == UNION {Turn(type, q, f) : q \in ms}

(* What is read from a sequence of fields, on top of messages in ms.       *)
ReadFrom(type, ms, fields) ==
  FoldLeft(LAMBDA qs, f : UNION {Turn(type, q, f) : q \in qs}, ms, fields)

(* The chain h of what is read from the first 0, 1, ... n fields.          *)
Reading(type, ms, s, n, h) ==
  /\ h[0] = ms
  /\ \A i \in 1..n : h[i] = TurnAll(type, h[i - 1], s[i])
  /\ ReadFrom(type, ms, s) = h[n]

(* Reading is the end of such a chain.                                     *)
LEMMA ReadChain ==
  ASSUME NEW type, NEW M, NEW ms \in SUBSET M, NEW s \in Seq(Readable(type, M))
  PROVE  \E h \in [0..Len(s) -> SUBSET M] :
           Reading(type, ms, s, Len(s), h)
<1> DEFINE n == Len(s)
           Typ == SUBSET M
           F == [p \in Typ \X (1..n) |-> TurnAll(type, p[1], s[p[2]])]
           Eq(g) == g = [T \in SUBSET DOMAIN s |->
                           IF T = {} THEN ms ELSE TurnAll(type, g[T \ {Max(T)}], s[Max(T)])]
           iter == CHOOSE g : Eq(g)
<1>1. n \in Nat /\ DOMAIN s = 1..n /\ \A i \in 1..n : s[i] \in Readable(type, M)
  BY ElementOfSeq
<1>2. ReadFrom(type, ms, s) = iter[DOMAIN s]
  BY DEF ReadFrom, FoldLeft, MapThenFoldSet, TurnAll
<1> HIDE DEF n
<1>3. ms \in Typ /\ F \in [Typ \X (1..n) -> Typ]
  <2>1. \A p \in Typ \X (1..n) : p[1] \in Typ /\ p[2] \in 1..n
    OBVIOUS
  <2>2. ASSUME NEW p \in Typ \X (1..n) PROVE TurnAll(type, p[1], s[p[2]]) \in Typ
    <3>1. PICK qs \in Typ, i \in 1..n : qs = p[1] /\ i = p[2]
      BY <2>1
    <3>2. \A q \in qs : Turn(type, q, s[i]) \subseteq M
      BY <1>1 DEF Readable
    <3>3. TurnAll(type, qs, s[i]) \subseteq M
      BY <3>2 DEF TurnAll
    <3> QED BY <3>1, <3>3
  <2> QED BY <2>2
<1>4. Eq(iter)
  <2>1. PICK g \in [SUBSET (1..n) -> Typ] : FoldsBy(n, ms, F, g)
    <3> HIDE DEF F, Typ
    <3> QED BY <1>1, <1>3, SetRecursion
  <2>2. \A T \in SUBSET (1..n) :
          g[T] = IF T = {} THEN ms ELSE TurnAll(type, g[T \ {Max(T)}], s[Max(T)])
    <3> HIDE DEF Typ
    <3> QED BY <1>1, <2>1, MaxOfRange DEF FoldsBy
  <2>3. Eq(g)
    BY <1>1, <2>1, <2>2 DEF FoldsBy
  <2> HIDE DEF Eq
  <2> QED BY <2>3
<1> HIDE DEF Typ
<1>5. PICK h \in [0..n -> Typ] :
        /\ h[0] = ms /\ \A i \in 1..n : h[i] = F[<<h[i - 1], i>>]
        /\ FoldResult(n, Typ, ms, F, h[n])
  <2> HIDE DEF F
  <2> QED BY <1>1, <1>3, FoldChain
<1>6. iter[1..n] = h[n]
  <2> HIDE DEF iter
  <2>1. iter[{}] = ms
    BY <1>1, <1>4
  <2>2. \A T \in SUBSET (1..n) :
          T # {} /\ iter[T \ {Max(T)}] \in Typ => iter[T] = F[<<iter[T \ {Max(T)}], Max(T)>>]
    BY <1>1, <1>4, MaxOfRange
  <2> QED BY <1>5, <2>1, <2>2 DEF FoldResult
<1>7. \A i \in 1..n : h[i] = TurnAll(type, h[i - 1], s[i])
  <2>1. ASSUME NEW i \in 1..n PROVE h[i] = TurnAll(type, h[i - 1], s[i])
    <3>1. i - 1 \in 0..n /\ <<h[i - 1], i>> \in Typ \X (1..n)
      BY <1>1
    <3> QED BY <1>5, <3>1
  <2> QED BY <2>1
<1>8. Reading(type, ms, s, n, h)
  BY <1>1, <1>2, <1>5, <1>6, <1>7 DEF Reading
<1> QED BY <1>5, <1>8 DEF n, Typ

(* Reading gives messages of the class.                                    *)
LEMMA ReadStays ==
  ASSUME NEW type, NEW M, NEW ms \in SUBSET M, NEW s \in Seq(Readable(type, M))
  PROVE  ReadFrom(type, ms, s) \in SUBSET M
<1>1. PICK n \in Nat : n = Len(s)
  OBVIOUS
<1>2. PICK h \in [0..n -> SUBSET M] : Reading(type, ms, s, n, h)
  BY <1>1, ReadChain
<1> QED BY <1>2 DEF Reading

(* Reading two sequences of fields, one after the other, is reading the    *)
(* second on top of what was read from the first.                          *)
LEMMA ReadConcat ==
  ASSUME NEW type, NEW M, NEW ms \in SUBSET M,
         NEW s \in Seq(Readable(type, M)), NEW t \in Seq(Readable(type, M))
  PROVE  ReadFrom(type, ms, s \o t) = ReadFrom(type, ReadFrom(type, ms, s), t)
<1>1. PICK m \in Nat, n \in Nat : m = Len(s) /\ n = Len(t)
  OBVIOUS
<1>2. PICK u \in Seq(Readable(type, M)) : u = s \o t
  BY ConcatProperties
<1>3. /\ Len(u) = m + n /\ \A i \in 1..m : u[i] = s[i] /\ i \in 1..(m + n)
      /\ \A i \in 1..n : u[m + i] = t[i] /\ m + i \in 1..(m + n)
  BY <1>1, <1>2, ConcatParts
<1>4. PICK f \in [0..m -> SUBSET M] : Reading(type, ms, s, m, f)
  BY <1>1, ReadChain
<1>5. PICK qs \in SUBSET M : qs = f[m]
  BY <1>4
<1>6. PICK g \in [0..n -> SUBSET M] : Reading(type, qs, t, n, g)
  BY <1>1, ReadChain
<1>7. PICK h \in [0..(m + n) -> SUBSET M] : Reading(type, ms, u, m + n, h)
  BY <1>3, ReadChain, SMTT(30)
<1>8. \A i \in 0..m : i \in {k \in 0..m : h[k] = f[k]}
  <2> DEFINE K == {k \in 0..m : h[k] = f[k]}
  <2>1. 0 \in K
    BY <1>4, <1>7 DEF Reading
  <2>2. ASSUME NEW i \in 1..m, i - 1 \in K PROVE i \in K
    BY <1>3, <1>4, <1>7, <2>2 DEF Reading
  <2> HIDE DEF K
  <2>3. \A i \in 0..m : i \in K
    BY <2>1, <2>2, FiniteInduction
  <2> QED BY <2>3 DEF K
<1>9. \A i \in 0..n : i \in {k \in 0..n : h[m + k] = g[k]}
  <2> DEFINE K == {k \in 0..n : h[m + k] = g[k]}
  <2>1. 0 \in K
    BY <1>4, <1>5, <1>6, <1>8 DEF Reading
  <2>2. ASSUME NEW i \in 1..n, i - 1 \in K PROVE i \in K
    <3>1. PICK j \in 1..(m + n) : j = m + i /\ u[j] = t[i] /\ j - 1 = m + (i - 1)
      BY <1>3
    <3>2. h[j] = TurnAll(type, h[j - 1], u[j])
      BY <1>7 DEF Reading
    <3>3. h[m + (i - 1)] = g[i - 1] /\ g[i] = TurnAll(type, g[i - 1], t[i])
      BY <1>6, <2>2 DEF Reading
    <3>4. h[j] = g[i]
      BY <3>1, <3>2, <3>3
    <3> QED BY <3>1, <3>4
  <2> HIDE DEF K
  <2>3. \A i \in 0..n : i \in K
    BY <2>1, <2>2, FiniteInduction
  <2> QED BY <2>3 DEF K
<1> QED BY <1>2, <1>4, <1>5, <1>6, <1>7, <1>9 DEF Reading

(* Reading no field.                                                       *)
LEMMA ReadNone ==
  ASSUME NEW type, NEW M, NEW ms \in SUBSET M
  PROVE  ReadFrom(type, ms, <<>>) = ms
<1>1. PICK s : s = <<>> /\ s \in Seq(Readable(type, M)) /\ Len(s) = 0
  BY EmptySeq
<1>2. PICK h \in [0..Len(s) -> SUBSET M] : Reading(type, ms, s, Len(s), h)
  BY <1>1, ReadChain
<1> QED BY <1>1, <1>2 DEF Reading

(* Reading one field.                                                      *)
LEMMA ReadOne ==
  ASSUME NEW type, NEW M, NEW ms \in SUBSET M, NEW f \in Readable(type, M)
  PROVE  ReadFrom(type, ms, <<f>>) = TurnAll(type, ms, f)
<1>1. <<f>> \in Seq(Readable(type, M)) /\ Len(<<f>>) = 1 /\ <<f>>[1] = f
  OBVIOUS
<1>2. PICK s \in Seq(Readable(type, M)) : s = <<f>> /\ Len(s) = 1 /\ s[1] = f
  BY <1>1
<1>3. PICK h \in [0..Len(s) -> SUBSET M] : Reading(type, ms, s, Len(s), h)
  BY ReadChain
<1>4. h[1] = TurnAll(type, h[0], s[1])
  BY <1>2, <1>3 DEF Reading
<1> QED BY <1>2, <1>3, <1>4 DEF Reading
-----------------------------------------------------------------------------
(* q is read unless one of its strings is bad.                             *)
Unless(bad, q) == IF bad = {} THEN {q} ELSE {}

(* The fields written so far take size bytes, and reading them gives       *)
(* result.                                                                 *)
Written(type, M, fields, size, result) ==
  /\ fields \in Seq(Readable(type, M)) /\ fields \in Seq(Sized)
  /\ size \in Nat /\ Bytes(fields) = size
  /\ {New(type)} \in SUBSET M /\ result \in SUBSET M
  /\ ReadFrom(type, {New(type)}, fields) = result

(* A statement that writes nothing leaves the fields as they are.          *)
LEMMA AddNothing ==
  ASSUME NEW type, NEW M, NEW fields, NEW size, NEW result,
         Written(type, M, fields, size, result)
  PROVE  fields \o <<>> = fields
<1>1. fields \in Seq(Sized)
  BY DEF Written
<1> QED BY <1>1, ConcatEmptySeq

(* A statement that writes one field adds its size, and one turn of        *)
(* reading.                                                                *)
LEMMA AddField ==
  ASSUME NEW type, NEW M, NEW fields, NEW size, NEW result,
         Written(type, M, fields, size, result),
         NEW f \in Readable(type, M), FieldBytes(f) \in Nat
  PROVE  Written(type, M, fields \o <<f>>, size + FieldBytes(f), TurnAll(type, result, f))
<1>1. /\ fields \in Seq(Readable(type, M)) /\ fields \in Seq(Sized)
      /\ size \in Nat /\ Bytes(fields) = size
      /\ {New(type)} \in SUBSET M /\ result \in SUBSET M
      /\ ReadFrom(type, {New(type)}, fields) = result
  BY DEF Written
<1>2. f \in Readable(type, M) /\ f \in Sized
  BY DEF Readable, Sized
<1>3. PICK one : one = <<f>>
  OBVIOUS
<1>4. one \in Seq(Readable(type, M)) /\ one \in Seq(Sized)
  BY <1>2, <1>3
<1>5. fields \o one \in Seq(Readable(type, M)) /\ fields \o one \in Seq(Sized)
  BY <1>1, <1>4, ConcatProperties
<1>6. Bytes(one) = FieldBytes(f)
  BY <1>2, <1>3, BytesShort
<1>7. Bytes(fields \o one) = size + FieldBytes(f) /\ size + FieldBytes(f) \in Nat
  <2>1. Bytes(fields \o one) = Bytes(fields) + Bytes(one)
    BY <1>1, <1>4, BytesConcat
  <2> QED BY <1>1, <1>6, <2>1
<1>8. TurnAll(type, result, f) \in SUBSET M
  BY <1>1 DEF TurnAll, Readable
<1>9. ReadFrom(type, result, one) = TurnAll(type, result, f)
  <2>1. PICK ms \in SUBSET M : ms = result
    BY <1>1
  <2>2. ReadFrom(type, ms, <<f>>) = TurnAll(type, ms, f)
    BY <1>2, ReadOne
  <2> QED BY <1>3, <2>1, <2>2
<1>10. ReadFrom(type, {New(type)}, fields \o one)
         = ReadFrom(type, ReadFrom(type, {New(type)}, fields), one)
  <2>1. PICK ms \in SUBSET M : ms = {New(type)}
    BY <1>1
  <2>2. ReadFrom(type, ms, fields \o one) = ReadFrom(type, ReadFrom(type, ms, fields), one)
    <3>1. PICK s \in Seq(Readable(type, M)), t \in Seq(Readable(type, M)) : s = fields /\ t = one
      BY <1>1, <1>4
    <3>2. ReadFrom(type, ms, s \o t) = ReadFrom(type, ReadFrom(type, ms, s), t)
      BY ReadConcat
    <3> QED BY <3>1, <3>2
  <2> QED BY <2>1, <2>2
<1>11. Written(type, M, fields \o one, size + FieldBytes(f), TurnAll(type, result, f))
  BY <1>1, <1>5, <1>7, <1>8, <1>9, <1>10 DEF Written
<1> QED BY <1>3, <1>11

(* An unsigned field is read as it was written.                            *)
LEMMA ReadNumber == \A n \in UInt : n \in Nat /\ n % UInt32 = n
<1> SUFFICES ASSUME NEW n \in UInt PROVE n \in Nat /\ n % UInt32 = n
  OBVIOUS
<1>1. n \in Int /\ 0 <= n /\ n < UInt32 /\ UInt32 \in Nat
  <2>1. UInt32 \in Nat
    BY ProtoAssumption
  <2> QED BY <2>1 DEF UInt
<1> QED BY <1>1

(* The message m with one field set.                                       *)
With(m, name, v) == [m EXCEPT ![name] = v]

(* A value that could be read is stored.                                   *)
LEMMA StoreValue ==
  ASSUME NEW m, NEW name, NEW read, NEW v, read = {v}
  PROVE  Store(m, name, read) = {With(m, name, v)}
BY DEF Store, With

(* A value that could not be read makes reading fail.                      *)
LEMMA StoreNothing ==
  ASSUME NEW m, NEW name
  PROVE  Store(m, name, {}) = {}
BY DEF Store

(* A string is stored if it is valid UTF-8.                                *)
LEMMA StoreText ==
  ASSUME NEW m, NEW name, NEW f
  PROVE  Store(m, name, ReadString(f)) = Unless({f.val} \cap NotUtf8, With(m, name, f.val))
<1>1. CASE f.val \in NotUtf8
  <2>1. ReadString(f) = {} /\ {f.val} \cap NotUtf8 # {}
    BY <1>1 DEF ReadString
  <2> QED BY <2>1, StoreNothing DEF Unless
<1>2. CASE f.val \notin NotUtf8
  <2>1. ReadString(f) = {f.val} /\ {f.val} \cap NotUtf8 = {}
    BY <1>2 DEF ReadString
  <2> QED BY <2>1, StoreValue DEF Unless
<1> QED BY <1>1, <1>2

(* A bool that is written is read as TRUE.                                 *)
LEMMA ReadFlag ==
  ASSUME NEW tag, NEW b, b = TRUE
  PROVE  ReadBool(Field(tag, 1)) = {b}
<1>1. PICK f : f = Field(tag, 1)
  OBVIOUS
<1>2. f.val = 1
  BY <1>1 DEF Field
<1>3. (f.val # 0) = TRUE
  BY <1>2
<1>4. ReadBool(f) = {b}
  BY <1>3 DEF ReadBool
<1> QED BY <1>1, <1>4

(* An unsigned number is stored as it is.                                  *)
LEMMA StoreNumber ==
  ASSUME NEW m, NEW name, NEW f, f.val \in UInt
  PROVE  Store(m, name, ReadUInt32(f)) = {With(m, name, f.val)}
<1>1. ReadUInt32(f) = {f.val}
  BY ReadNumber DEF ReadUInt32
<1> QED BY <1>1, StoreValue

(* An enum and the bytes of a file are stored as they are, without a       *)
(* check.                                                                  *)
LEMMA StoreBare ==
  ASSUME NEW m, NEW name, NEW f
  PROVE  /\ Store(m, name, ReadEnum(f)) = {With(m, name, f.val)}
         /\ Store(m, name, ReadBytes(f)) = {With(m, name, f.val)}
<1>1. ReadEnum(f) = {f.val} /\ ReadBytes(f) = {f.val}
  BY DEF ReadEnum, ReadBytes
<1> QED BY <1>1, StoreValue

(* A field with the default value: not written, not counted.               *)
LEMMA AddNone ==
  ASSUME NEW type, NEW M, NEW fields, NEW size, NEW result,
         Written(type, M, fields, size, result)
  PROVE  Written(type, M, fields \o <<>>, size + 0, result)
<1>1. size + 0 = size
  BY DEF Written
<1> QED BY <1>1, AddNothing

(* A field that is written, counted and read in one turn.                  *)
LEMMA AddOne ==
  ASSUME NEW type, NEW M, NEW fields, NEW size, NEW bad, NEW q,
         NEW new, NEW next, NEW f \in Readable(type, M), FieldBytes(f) \in Nat,
         Written(type, M, fields, size, Unless(bad, q)),
         Turn(type, q, f) = Unless(new, next)
  PROVE  Written(type, M, fields \o <<f>>, size + FieldBytes(f), Unless(bad \cup new, next))
<1>1. TurnAll(type, Unless(bad, q), f) = Unless(bad \cup new, next)
  <2>1. CASE bad = {}
    <3>1. Unless(bad, q) = {q} /\ bad \cup new = new
      BY <2>1 DEF Unless
    <3>2. TurnAll(type, {q}, f) = Turn(type, q, f)
      BY DEF TurnAll
    <3> QED BY <3>1, <3>2
  <2>2. CASE bad # {}
    <3>1. Unless(bad, q) = {} /\ bad \cup new # {}
      BY <2>2 DEF Unless
    <3>2. Unless(bad \cup new, next) = {} /\ TurnAll(type, {}, f) = {}
      BY <3>1 DEF Unless, TurnAll
    <3> QED BY <3>1, <3>2
  <2> QED BY <2>1, <2>2
<1>2. PICK r : r = Unless(bad, q)
  OBVIOUS
<1>3. Written(type, M, fields \o <<f>>, size + FieldBytes(f), TurnAll(type, r, f))
  BY <1>2, AddField
<1> QED BY <1>1, <1>2, <1>3

(* "if (this->number() != 0)" in SerializeWithCachedSizes, ByteSize and    *)
(* the turn that reads it.                                                 *)
LEMMA AddUInt ==
  ASSUME NEW type, NEW M, NEW fields, NEW size, NEW bad, NEW q, NEW next,
         NEW v \in UInt, NEW tag \in Nat, tag # NodeInfoTag, tag % 8 = 0,
         Written(type, M, fields, size, Unless(bad, q)),
         Field(tag, v) \in Readable(type, M),
         Turn(type, q, Field(tag, v)) = {next}, v = 0 => next = q
  PROVE  Written(type, M, fields \o Emit(tag, v), size + SizeIf(v # 0, VarintSize(v)),
                 Unless(bad, next))
<1>1. VarintSize(v) \in Nat /\ v \in Nat
  BY ReadNumber DEF VarintSize
<1>2. CASE v = 0
  <2>1. Emit(tag, v) = <<>> /\ SizeIf(v # 0, VarintSize(v)) = 0
    BY <1>2 DEF Emit, SizeIf
  <2>2. Written(type, M, fields \o <<>>, size + 0, Unless(bad, q))
    BY AddNone
  <2> QED BY <1>2, <2>1, <2>2
<1>3. CASE v # 0
  <2>1. PICK f : f = Field(tag, v)
    OBVIOUS
  <2>2. f.tag = tag /\ f.val = v
    BY <2>1 DEF Field
  <2>3. Emit(tag, v) = <<f>> /\ SizeIf(v # 0, VarintSize(v)) = 1 + VarintSize(v)
    BY <1>3, <2>1 DEF Emit, SizeIf
  <2>4. FieldBytes(f) = 1 + VarintSize(v)
    BY <2>2 DEF FieldBytes, ScalarBytes, WireType
  <2>5. FieldBytes(f) \in Nat
    BY <1>1, <2>4
  <2>6. PICK new : new = {}
    OBVIOUS
  <2>7. Turn(type, q, f) = Unless(new, next)
    BY <2>1, <2>6 DEF Unless
  <2>8. Written(type, M, fields \o <<f>>, size + FieldBytes(f), Unless(bad \cup new, next))
    BY <2>1, <2>5, <2>7, AddOne
  <2>9. bad \cup new = bad
    BY <2>6
  <2> QED BY <2>3, <2>4, <2>8, <2>9
<1> QED BY <1>2, <1>3

(* "if (this->flag() != 0)" in the same three functions.                   *)
LEMMA AddBool ==
  ASSUME NEW type, NEW M, NEW fields, NEW size, NEW bad, NEW q, NEW next,
         NEW b \in BOOLEAN, NEW tag \in Nat, tag # NodeInfoTag, tag % 8 = 0,
         Written(type, M, fields, size, Unless(bad, q)),
         Field(tag, 1) \in Readable(type, M),
         ReadBool(Field(tag, 1)) = {b} => Turn(type, q, Field(tag, 1)) = {next},
         b = FALSE => next = q
  PROVE  Written(type, M, fields \o EmitBool(tag, b), size + SizeIf(b, 1), Unless(bad, next))
<1>1. VarintSize(1) = 1
  BY DEF VarintSize
<1>2. CASE b = FALSE
  <2>1. EmitBool(tag, b) = <<>> /\ SizeIf(b, 1) = 0
    BY <1>2 DEF EmitBool, SizeIf
  <2>2. Written(type, M, fields \o <<>>, size + 0, Unless(bad, q))
    BY AddNone
  <2> QED BY <1>2, <2>1, <2>2
<1>3. CASE b = TRUE
  <2>1. PICK f : f = Field(tag, 1)
    OBVIOUS
  <2>2. f.tag = tag /\ f.val = 1
    BY <2>1 DEF Field
  <2>3. EmitBool(tag, b) = <<f>> /\ SizeIf(b, 1) = 2
    BY <1>3, <2>1 DEF EmitBool, SizeIf
  <2>4. FieldBytes(f) = 2
    BY <1>1, <2>2 DEF FieldBytes, ScalarBytes, WireType
  <2>5. FieldBytes(f) \in Nat
    BY <2>4
  <2>6. PICK new : new = {}
    OBVIOUS
  <2>7. Turn(type, q, f) = Unless(new, next)
    <3>1. ReadBool(Field(tag, 1)) = {b}
      BY <1>3, ReadFlag
    <3>2. Turn(type, q, Field(tag, 1)) = {next}
      BY <3>1
    <3> QED BY <2>1, <2>6, <3>2 DEF Unless
  <2>8. Written(type, M, fields \o <<f>>, size + FieldBytes(f), Unless(bad \cup new, next))
    BY <2>1, <2>5, <2>7, AddOne
  <2>9. bad \cup new = bad
    BY <2>6
  <2> QED BY <2>3, <2>4, <2>8, <2>9
<1> QED BY <1>2, <1>3

(* A successor is a natural number.                                        *)
LEMMA OneMore == \A n \in Nat : 1 + n \in Nat
OBVIOUS

(* "if (this->text().size() > 0)" in the same three functions.             *)
LEMMA AddText ==
  ASSUME NEW type, NEW M, NEW fields, NEW size, NEW bad, NEW q, NEW next,
         NEW new, NEW s, StringSize(s) \in Nat,
         NEW tag \in Nat, tag # NodeInfoTag, tag % 8 # 0,
         Written(type, M, fields, size, Unless(bad, q)),
         Field(tag, s) \in Readable(type, M),
         Turn(type, q, Field(tag, s)) = Unless(new, next), s = "" => next = q /\ new = {}
  PROVE  Written(type, M, fields \o EmitString(tag, s), size + SizeIf(s # "", StringSize(s)),
                 Unless(bad \cup new, next))
<1>1. PICK n : n = StringSize(s) /\ n \in Nat /\ 1 + n \in Nat
  BY OneMore
<1>2. CASE s = ""
  <2>1. EmitString(tag, s) = <<>> /\ SizeIf(s # "", n) = 0
    BY <1>2 DEF EmitString, SizeIf
  <2>2. Written(type, M, fields \o <<>>, size + 0, Unless(bad, q))
    BY AddNone
  <2>3. Unless(bad \cup new, next) = Unless(bad, q)
    <3>1. next = q /\ bad \cup new = bad
      BY <1>2
    <3> QED BY <3>1
  <2> QED BY <1>1, <2>1, <2>2, <2>3
<1>3. CASE s # ""
  <2>1. PICK f : f = Field(tag, s)
    OBVIOUS
  <2>2. f.tag = tag /\ f.val = s
    BY <2>1 DEF Field
  <2>3. EmitString(tag, s) = <<f>> /\ SizeIf(s # "", n) = 1 + n
    BY <1>3, <2>1 DEF EmitString, SizeIf
  <2>4. FieldBytes(f) = 1 + StringSize(s)
    BY <2>2 DEF FieldBytes, ScalarBytes, WireType
  <2>5. FieldBytes(f) = 1 + n
    BY <1>1, <2>4
  <2>6. FieldBytes(f) \in Nat
    BY <1>1, <2>5
  <2>7. Turn(type, q, f) = Unless(new, next)
    BY <2>1
  <2>8. Written(type, M, fields \o <<f>>, size + FieldBytes(f), Unless(bad \cup new, next))
    BY <2>1, <2>6, <2>7, AddOne
  <2> QED BY <1>1, <2>3, <2>5, <2>8
<1> QED BY <1>2, <1>3
-----------------------------------------------------------------------------
(* createMessage (lkpCodec.cc:162-177) gives a message of the class named. *)
LEMMA NewOfType ==
  /\ New("Command") = NewCommand /\ New("File") = NewFile /\ New("CommandACK") = NewCommandACK
  /\ New("HeartBeat") = NewHeartBeat /\ New("PushACK") = NewPushACK
  /\ New("NodeInfo") = NewNodeInfo /\ New("Return") = NewReturn
<1>1. /\ NewCommand.type = "Command" /\ NewFile.type = "File"
      /\ NewCommandACK.type = "CommandACK" /\ NewHeartBeat.type = "HeartBeat"
      /\ NewPushACK.type = "PushACK" /\ NewReturn.type = "Return"
  BY DEF NewPushACK, NewCommand, NewCommandACK, NewFile, NewHeartBeat, NewReturn
<1>2. \A p \in Prototypes : New(p.type) = p
  <2>1. \A p \in Prototypes, q \in Prototypes : p.type = q.type => p = q
    BY <1>1 DEF Prototypes
  <2>2. \A p \in Prototypes : p.type # "NodeInfo"
    BY <1>1 DEF Prototypes
  <2>3. ASSUME NEW p \in Prototypes PROVE New(p.type) = p
    <3>1. New(p.type) = CHOOSE r \in Prototypes : r.type = p.type
      BY <2>2 DEF New
    <3>2. \A r \in Prototypes : r.type = p.type => r = p
      BY <2>1
    <3> QED BY <3>1, <3>2
  <2> QED BY <2>3
<1>3. {NewCommand, NewFile, NewCommandACK, NewHeartBeat, NewPushACK, NewReturn} \subseteq Prototypes
  BY DEF Prototypes
<1>4. New("NodeInfo") = NewNodeInfo
  BY DEF New
<1> QED BY <1>1, <1>2, <1>3, <1>4

(* Zero is an unsigned number.                                             *)
LEMMA ZeroFits == 0 \in UInt /\ UInt \subseteq Nat
<1>1. PICK n \in Nat : n = UInt32 - 1
  <2>1. UInt32 \in Nat /\ UInt32 # 0
    BY ProtoAssumption
  <2> QED BY <2>1
<1>2. 0 \in 0..n /\ 0..n \subseteq Nat
  OBVIOUS
<1> QED BY <1>1, <1>2 DEF UInt

(* What a number writes and how it is counted.                             *)
LEMMA Emitted ==
  ASSUME NEW tag, NEW v
  PROVE  /\ Emit(tag, v) \in Seq({Field(tag, v)})
         /\ VarintSize(v) \in Nat /\ SizeIf(v # 0, VarintSize(v)) \in Nat
<1>1. VarintSize(v) \in Nat
  BY DEF VarintSize
<1>2. 1 + VarintSize(v) \in Nat /\ 0 \in Nat
  BY <1>1
<1>3. Emit(tag, v) \in Seq({Field(tag, v)})
  <2>1. PICK f : f = Field(tag, v)
    OBVIOUS
  <2>2. <<f>> \in Seq({f}) /\ <<>> \in Seq({f})
    OBVIOUS
  <2> QED BY <2>1, <2>2 DEF Emit
<1>4. SizeIf(v # 0, VarintSize(v)) \in Nat
  BY <1>2 DEF SizeIf
<1> QED BY <1>1, <1>3, <1>4

(* What a flag writes and how it is counted.                               *)
LEMMA EmittedBool ==
  ASSUME NEW tag, NEW b \in BOOLEAN
  PROVE  EmitBool(tag, b) \in Seq({Field(tag, 1)}) /\ SizeIf(b, 1) \in Nat
<1>1. PICK f : f = Field(tag, 1)
  OBVIOUS
<1>2. <<f>> \in Seq({f}) /\ <<>> \in Seq({f})
  OBVIOUS
<1>3. 1 + 1 \in Nat /\ 0 \in Nat
  OBVIOUS
<1> QED BY <1>1, <1>2, <1>3 DEF EmitBool, SizeIf

(* Before the first statement nothing was written, and the message that    *)
(* reads is new.                                                           *)
LEMMA StartWritten ==
  ASSUME NEW type, NEW M, NEW q, q \in M, q = New(type)
  PROVE  Written(type, M, <<>>, 0, Unless({}, q))
<1>1. <<>> \in Seq(Readable(type, M)) /\ <<>> \in Seq(Sized)
  OBVIOUS
<1>2. Bytes(<<>>) = 0
  BY BytesShort
<1>3. PICK ms \in SUBSET M : ms = {q}
  OBVIOUS
<1>4. ReadFrom(type, ms, <<>>) = ms
  BY ReadNone
<1>5. Unless({}, q) = ms /\ {New(type)} = ms
  BY <1>3 DEF Unless
<1> QED BY <1>1, <1>2, <1>3, <1>4, <1>5 DEF Written

(* The first statement has nothing before it.                              *)
LEMMA FirstWritten ==
  ASSUME NEW type, NEW M, NEW fields, NEW S, fields \in Seq(S), NEW size \in Nat, NEW result,
         Written(type, M, <<>> \o fields, 0 + size, result)
  PROVE  Written(type, M, fields, size, result)
<1>1. <<>> \o fields = fields
  BY ConcatEmptySeq
<1>2. 0 + size = size
  OBVIOUS
<1> QED BY <1>1, <1>2

(* The codec understands m: what SerializeWithCachedSizes writes has the   *)
(* size ByteSize gives, and MergePartialFromCodedStream reads m from it,   *)
(* whole, unless a string is not UTF-8; a field it does not know is        *)
(* skipped; an end group makes it fail.                                    *)
Understood(M, m) ==
  /\ Written(m.type, M, Serialize(m), ByteSize(m), Unless(Strings(m) \cap NotUtf8, m))
  /\ {Unknown15, Field(EndGroup, 0)} \subseteq Readable(m.type, M)
  /\ Turn(m.type, m, Unknown15) = {m}
  /\ Turn(m.type, New(m.type), Field(EndGroup, 0)) = {}
  /\ Copy(m) = m

(* MergeFrom of a flag.                                                    *)
OverFlag(old, new) == Over(old, new, FALSE)
(* MergeFrom of a string.                                                  *)
OverText(old, new) == Over(old, new, "")
(* MergeFrom of a number.                                                  *)
OverNumber(old, new) == Over(old, new, 0)

(* Reading the number v under this tag makes q of the message p.           *)
TakesNumber(type, M, tag, v, p, q) ==
  /\ tag \in Nat /\ tag # NodeInfoTag /\ tag % 8 = 0 /\ v \in UInt
  /\ Field(tag, v) \in Readable(type, M)
  /\ Turn(type, p, Field(tag, v)) = {q} /\ (v = 0 => q = p)

(* Reading the flag under this tag makes q of the message p.               *)
TakesFlag(type, M, tag, b, p, q) ==
  /\ tag \in Nat /\ tag # NodeInfoTag /\ tag % 8 = 0 /\ b \in BOOLEAN
  /\ Field(tag, 1) \in Readable(type, M)
  /\ ReadBool(Field(tag, 1)) = {b} => Turn(type, p, Field(tag, 1)) = {q}
  /\ b = FALSE => q = p

(* Reading the string s under this tag makes q of p, or fails if s is bad. *)
TakesText(type, M, tag, s, p, q, new) ==
  /\ tag \in Nat /\ tag # NodeInfoTag /\ tag % 8 # 0 /\ StringSize(s) \in Nat
  /\ Field(tag, s) \in Readable(type, M)
  /\ Turn(type, p, Field(tag, s)) = Unless(new, q) /\ (s = "" => q = p /\ new = {})

(* One number more is written, for a class that takes it.                  *)
LEMMA WriteNumber ==
  ASSUME NEW type, NEW M, NEW fields, NEW size, NEW bad, NEW p, NEW q, NEW tag, NEW v,
         Written(type, M, fields, size, Unless(bad, p)), TakesNumber(type, M, tag, v, p, q)
  PROVE  Written(type, M, fields \o Emit(tag, v), size + SizeIf(v # 0, VarintSize(v)),
                 Unless(bad, q))
BY AddUInt DEF TakesNumber

(* One flag more.                                                          *)
LEMMA WriteFlag ==
  ASSUME NEW type, NEW M, NEW fields, NEW size, NEW bad, NEW p, NEW q, NEW tag, NEW b,
         Written(type, M, fields, size, Unless(bad, p)), TakesFlag(type, M, tag, b, p, q)
  PROVE  Written(type, M, fields \o EmitBool(tag, b), size + SizeIf(b, 1), Unless(bad, q))
BY AddBool DEF TakesFlag

(* One string more.                                                        *)
LEMMA WriteText ==
  ASSUME NEW type, NEW M, NEW fields, NEW size, NEW bad, NEW p, NEW q, NEW tag, NEW s, NEW new,
         Written(type, M, fields, size, Unless(bad, p)), TakesText(type, M, tag, s, p, q, new)
  PROVE  Written(type, M, fields \o EmitString(tag, s), size + SizeIf(s # "", StringSize(s)),
                 Unless(bad \cup new, q))
BY AddText DEF TakesText
-----------------------------------------------------------------------------
(* A HeartBeat message, by its fields.                                     *)
HeartBeatOf(status) ==
  [type |-> "HeartBeat", status |-> status]

(* One turn of HeartBeat::MergePartialFromCodedStream with status: it is   *)
(* stored and nothing else changes.                                        *)
LEMMA HeartBeatTurn8 ==
  ASSUME NEW a, NEW v, ReadBool(Field(8, 1)) = {v}
  PROVE  Turn("HeartBeat", HeartBeatOf(a), Field(8, 1)) = {HeartBeatOf(v)}
<1>1. PICK q, field : q = HeartBeatOf(a) /\ field = Field(8, 1)
  OBVIOUS
<1>2. field.tag = 8 /\ field.val = 1
  BY <1>1 DEF Field
<1>3. Turn("HeartBeat", q, field) = Store(q, "status", ReadBool(field))
  BY <1>2 DEF Turn, ParseHeartBeat
<1>4. With(q, "status", v) = HeartBeatOf(v)
  BY <1>1 DEF With, HeartBeatOf
<1> QED BY <1>1, <1>2, <1>3, <1>4, StoreValue

(* A field number HeartBeat does not have is skipped; an end group makes   *)
(* reading fail.                                                           *)
LEMMA HeartBeatUnusual ==
  ASSUME NEW q
  PROVE  Turn("HeartBeat", q, Unknown15) = {q} /\ Turn("HeartBeat", q, Field(EndGroup, 0)) = {}
BY DEF Turn, ParseHeartBeat, Unusual, Unknown15, Field, EndGroup, WireType, InvalidTypes

(* A HeartBeat with such fields is one.                                    *)
LEMMA HeartBeatMade ==
  \A a \in BOOLEAN : HeartBeatOf(a) \in HeartBeatMessage
BY DEF HeartBeatMessage, HeartBeatOf

(* The fields that HeartBeat writes are fields it can read.                *)
LEMMA HeartBeatReadable ==
  LET R == Readable("HeartBeat", HeartBeatMessage)
  IN  /\ Unknown15 \in R /\ Field(EndGroup, 0) \in R
      /\ Field(8, 1) \in R
<1> DEFINE M == HeartBeatMessage
<1>1. ASSUME NEW q \in M
      PROVE  /\ Turn("HeartBeat", q, Unknown15) \subseteq M /\ Turn("HeartBeat", q,
                Field(EndGroup, 0)) \subseteq M
             /\ Turn("HeartBeat", q, Field(8, 1)) \subseteq M
  <2>1. PICK a \in BOOLEAN : q = HeartBeatOf(a)
    BY DEF HeartBeatMessage, HeartBeatOf
  <2>2. \A a1 \in BOOLEAN : HeartBeatOf(a1) \in M
    BY HeartBeatMade
  <2>3. Turn("HeartBeat", q, Field(8, 1)) \subseteq M
    <3>1. PICK v \in BOOLEAN : ReadBool(Field(8, 1)) = {v}
      BY ReadFlag
    <3>2. Turn("HeartBeat", HeartBeatOf(a), Field(8, 1)) = {HeartBeatOf(v)}
      BY <3>1, HeartBeatTurn8
    <3> QED BY <2>1, <2>2, <3>2
  <2> QED BY <2>3, HeartBeatUnusual
<1>2. \A n \in Nat : /\ \A v \in UInt : Field(n, v) \in AnyField
                     /\ \A v \in STRING : Field(n, v) \in AnyField
  BY ReadNumber DEF Field, AnyField
<1>3. /\ Unknown15 \in AnyField /\ Field(EndGroup, 0) \in AnyField
      /\ \A n \in Nat : Field(n, 1) \in AnyField
  BY DEF Field, AnyField, Unknown15, EndGroup
<1> QED BY <1>1, <1>2, <1>3 DEF Readable

(* MergeFrom takes over, field by field, what is not the default           *)
(* (lkpProto.pb.cc:2179-2187).                                             *)
LEMMA HeartBeatMerge ==
  ASSUME NEW a, NEW t
  PROVE  MergeHeartBeat(HeartBeatOf(a), HeartBeatOf(t))
           = HeartBeatOf(OverFlag(a, t))
<1> DEFINE Only(t0) == [type : {"HeartBeat"}, status : {t0}]
<1>1. PICK p, q : p = HeartBeatOf(a) /\ q = HeartBeatOf(t)
  OBVIOUS
<1>2. PICK t1 :
        /\ t1 = Over(p.status, q.status, FALSE)
  OBVIOUS
<1>3. MergeHeartBeat(p, q) = [p EXCEPT !.status = t1]
  BY <1>2 DEF MergeHeartBeat
<1>4. [p EXCEPT !.status = t1] = HeartBeatOf(t1)
  <2>1. p \in Only(a)
    BY <1>1 DEF HeartBeatOf
  <2>2. [p EXCEPT !.status = t1] \in Only(t1)
    BY <2>1
  <2>3. PICK r : r = [p EXCEPT !.status = t1]
    OBVIOUS
  <2>4. r \in Only(t1)
    BY <2>2, <2>3
  <2>5. r = HeartBeatOf(t1)
    BY <2>4 DEF HeartBeatOf
  <2> QED BY <2>3, <2>5
<1>5. /\ p.status = a
      /\ q.status = t
  BY <1>1 DEF HeartBeatOf
<1> QED BY <1>1, <1>2, <1>3, <1>4, <1>5 DEF OverFlag, OverText, OverNumber

(* Every HeartBeat is understood: serialized field by field, measured and  *)
(* read back (lkpProto.pb.cc:2124-2145, 2147-2160, 2079-2122).             *)
LEMMA HeartBeatUnderstood ==
  ASSUME NEW m \in HeartBeatMessage
  PROVE  Understood(HeartBeatMessage, m)
<1> DEFINE M == HeartBeatMessage
<1>1. PICK a :
        /\ a = m.status
        /\ a \in BOOLEAN
  BY DEF HeartBeatMessage
<1>a0. a \in BOOLEAN
  BY <1>1
<1>2. m = HeartBeatOf(a) /\ m.type = "HeartBeat"
  BY <1>1 DEF HeartBeatMessage, HeartBeatOf
<1>3. PICK no, mt, zero : no = FALSE /\ mt = "" /\ zero = 0
  OBVIOUS
<1>4. New("HeartBeat") = HeartBeatOf(no)
  BY <1>3, NewOfType DEF NewHeartBeat, HeartBeatOf
<1>defaults. no \in BOOLEAN /\ mt \in STRING /\ zero \in UInt
  BY <1>3, ZeroFits, ProtoAssumption
<1>same. \A v : (v = FALSE => v = no) /\ (v = "" => v = mt) /\ (v = 0 => v = zero)
  BY <1>3
<1>over. OverFlag(no, a) = a /\ \A v : OverText(mt, v) = v /\ OverNumber(zero, v) = v
  BY <1>3, <1>a0 DEF Over, OverFlag, OverText, OverNumber
<1>5. HeartBeatOf(no) \in M
  BY <1>defaults, HeartBeatMade
<1>6. PICK none, wrong : none = {} /\ wrong = {}
  OBVIOUS
<1>e. PICK E0, E1 :
        /\ E0 = <<>> /\ E1 = EmitBool(8, a)
  OBVIOUS
<1>s. PICK S0, S1 :
        /\ S0 = 0 /\ S1 = SizeIf(a, 1)
  OBVIOUS
<1>7. Written("HeartBeat", M, E1, S1, Unless(none, HeartBeatOf(a)))
  <2>1. TakesFlag("HeartBeat", M, 8, a, HeartBeatOf(no),
                    HeartBeatOf(a))
    <3>1. ReadBool(Field(8, 1)) = {a} => Turn("HeartBeat", HeartBeatOf(no), Field(8, 1))
                                       = {HeartBeatOf(a)}
      <4> SUFFICES ASSUME ReadBool(Field(8, 1)) = {a}
                   PROVE  Turn("HeartBeat", HeartBeatOf(no), Field(8, 1)) = {HeartBeatOf(a)}
        OBVIOUS
      <4> QED BY HeartBeatTurn8
    <3>2. a = FALSE => HeartBeatOf(a) = HeartBeatOf(no)
      BY <1>same
    <3>3. Field(8, 1) \in Readable("HeartBeat", M)
      BY <1>a0, HeartBeatReadable
    <3>5. 8 \in Nat /\ 8 # NodeInfoTag /\ 8 % 8 = 0
      BY DEF NodeInfoTag
    <3> HIDE DEF M
    <3> QED BY <1>a0, <3>1, <3>2, <3>3, <3>5 DEF TakesFlag
  <2> HIDE DEF M
  <2>2. Written("HeartBeat", M, E0, S0, Unless(none, HeartBeatOf(no)))
    BY <1>4, <1>5, <1>6, <1>e, <1>s, StartWritten
  <2>3. Written("HeartBeat", M, E0 \o EmitBool(8, a), S0 + SizeIf(a, 1),
                Unless(none, HeartBeatOf(a)))
    BY <2>1, <2>2, WriteFlag
  <2> QED BY <1>e, <1>s, <2>3, <1>a0, Emitted, EmittedBool, FirstWritten
<1>8. Serialize(m) = E1
  BY <1>1, <1>2, <1>e DEF Serialize, SerializeHeartBeat
<1>9. ByteSize(m) = S1
  BY <1>1, <1>2, <1>s DEF ByteSize, SizeHeartBeat
<1>10. Strings(m) \cap NotUtf8 = none
  BY <1>1, <1>2, <1>6 DEF Strings
<1>11. Copy(m) = m
  <2>1. PICK q : q = HeartBeatOf(no)
    OBVIOUS
  <2>2. q.type = "HeartBeat"
    BY <2>1 DEF HeartBeatOf
  <2>3. Copy(m) = MergeHeartBeat(q, m)
    BY <1>2, <1>4, <2>1, <2>2 DEF Copy, MergeFrom
  <2>4. MergeHeartBeat(HeartBeatOf(no), HeartBeatOf(a)) = HeartBeatOf(OverFlag(no, a))
    BY HeartBeatMerge
  <2> QED BY <1>2, <1>over, <2>1, <2>3, <2>4
<1> QED
  BY <1>2, <1>7, <1>8, <1>9, <1>10, <1>11, HeartBeatUnusual, HeartBeatReadable
  DEF Understood
-----------------------------------------------------------------------------
(* A PushACK message, by its fields.                                       *)
PushACKOf(status, ack_message, node_id) ==
  [type |-> "PushACK", status |-> status, ack_message |-> ack_message, node_id |-> node_id]

(* One turn of PushACK::MergePartialFromCodedStream with status: it is     *)
(* stored and nothing else changes.                                        *)
LEMMA PushACKTurn8 ==
  ASSUME NEW a, NEW b, NEW c, NEW v, ReadBool(Field(8, 1)) = {v}
  PROVE  Turn("PushACK", PushACKOf(a, b, c), Field(8, 1)) = {PushACKOf(v, b, c)}
<1>1. PICK q, field : q = PushACKOf(a, b, c) /\ field = Field(8, 1)
  OBVIOUS
<1>2. field.tag = 8 /\ field.val = 1
  BY <1>1 DEF Field
<1>3. Turn("PushACK", q, field) = Store(q, "status", ReadBool(field))
  BY <1>2 DEF Turn, ParsePushACK
<1>4. With(q, "status", v) = PushACKOf(v, b, c)
  BY <1>1 DEF With, PushACKOf
<1> QED BY <1>1, <1>2, <1>3, <1>4, StoreValue

(* One turn of PushACK::MergePartialFromCodedStream with ack_message: it   *)
(* is stored and nothing else changes.                                     *)
LEMMA PushACKTurn18 ==
  ASSUME NEW a, NEW b, NEW c, NEW v
  PROVE  Turn("PushACK", PushACKOf(a, b, c), Field(18, v)) = Unless({v} \cap NotUtf8,
            PushACKOf(a, v, c))
<1>1. PICK q, field : q = PushACKOf(a, b, c) /\ field = Field(18, v)
  OBVIOUS
<1>2. field.tag = 18 /\ field.val = v
  BY <1>1 DEF Field
<1>3. Turn("PushACK", q, field) = Store(q, "ack_message", ReadString(field))
  BY <1>2 DEF Turn, ParsePushACK
<1>4. With(q, "ack_message", v) = PushACKOf(a, v, c)
  BY <1>1 DEF With, PushACKOf
<1> QED BY <1>1, <1>2, <1>3, <1>4, StoreText

(* One turn of PushACK::MergePartialFromCodedStream with node_id: it is    *)
(* stored and nothing else changes.                                        *)
LEMMA PushACKTurn24 ==
  ASSUME NEW a, NEW b, NEW c, NEW v \in UInt
  PROVE  Turn("PushACK", PushACKOf(a, b, c), Field(24, v)) = {PushACKOf(a, b, v)}
<1>1. PICK q, field : q = PushACKOf(a, b, c) /\ field = Field(24, v)
  OBVIOUS
<1>2. field.tag = 24 /\ field.val = v
  BY <1>1 DEF Field
<1>3. Turn("PushACK", q, field) = Store(q, "node_id", ReadUInt32(field))
  BY <1>2 DEF Turn, ParsePushACK
<1>4. With(q, "node_id", v) = PushACKOf(a, b, v)
  BY <1>1 DEF With, PushACKOf
<1> QED BY <1>1, <1>2, <1>3, <1>4, StoreNumber

(* A field number PushACK does not have is skipped; an end group makes     *)
(* reading fail.                                                           *)
LEMMA PushACKUnusual ==
  ASSUME NEW q
  PROVE  Turn("PushACK", q, Unknown15) = {q} /\ Turn("PushACK", q, Field(EndGroup, 0)) = {}
BY DEF Turn, ParsePushACK, Unusual, Unknown15, Field, EndGroup, WireType, InvalidTypes

(* A PushACK with such fields is one.                                      *)
LEMMA PushACKMade ==
  \A a \in BOOLEAN, b \in STRING, c \in UInt : PushACKOf(a, b, c) \in PushACKMessage
BY DEF PushACKMessage, PushACKOf

(* The fields that PushACK writes are fields it can read.                  *)
LEMMA PushACKReadable ==
  LET R == Readable("PushACK", PushACKMessage)
  IN  /\ Unknown15 \in R /\ Field(EndGroup, 0) \in R
      /\ Field(8, 1) \in R
      /\ \A v \in STRING : Field(18, v) \in R
      /\ \A v \in UInt : Field(24, v) \in R
<1> DEFINE M == PushACKMessage
<1>1. ASSUME NEW q \in M
      PROVE  /\ Turn("PushACK", q, Unknown15) \subseteq M
             /\ Turn("PushACK", q, Field(EndGroup, 0)) \subseteq M
             /\ Turn("PushACK", q, Field(8, 1)) \subseteq M
             /\ \A v \in STRING : Turn("PushACK", q, Field(18, v)) \subseteq M
             /\ \A v \in UInt : Turn("PushACK", q, Field(24, v)) \subseteq M
  <2>1. PICK a \in BOOLEAN, b \in STRING, c \in UInt : q = PushACKOf(a, b, c)
    BY DEF PushACKMessage, PushACKOf
  <2>2. \A a1 \in BOOLEAN, b1 \in STRING, c1 \in UInt : PushACKOf(a1, b1, c1) \in M
    BY PushACKMade
  <2>3. Turn("PushACK", q, Field(8, 1)) \subseteq M
    <3>1. PICK v \in BOOLEAN : ReadBool(Field(8, 1)) = {v}
      BY ReadFlag
    <3>2. Turn("PushACK", PushACKOf(a, b, c), Field(8, 1)) = {PushACKOf(v, b, c)}
      BY <3>1, PushACKTurn8
    <3> QED BY <2>1, <2>2, <3>2
  <2>4. ASSUME NEW v \in STRING PROVE Turn("PushACK", q, Field(18, v)) \subseteq M
    <3>1. Turn("PushACK", PushACKOf(a, b, c), Field(18, v)) = Unless({v} \cap NotUtf8,
            PushACKOf(a, v, c))
      BY PushACKTurn18
    <3> QED BY <2>1, <2>2, <3>1 DEF Unless
  <2>5. ASSUME NEW v \in UInt PROVE Turn("PushACK", q, Field(24, v)) \subseteq M
    <3>1. Turn("PushACK", PushACKOf(a, b, c), Field(24, v)) = {PushACKOf(a, b, v)}
      BY PushACKTurn24
    <3> QED BY <2>1, <2>2, <3>1
  <2> QED BY <2>3, <2>4, <2>5, PushACKUnusual
<1>2. \A n \in Nat : /\ \A v \in UInt : Field(n, v) \in AnyField
                     /\ \A v \in STRING : Field(n, v) \in AnyField
  BY ReadNumber DEF Field, AnyField
<1>3. /\ Unknown15 \in AnyField /\ Field(EndGroup, 0) \in AnyField
      /\ \A n \in Nat : Field(n, 1) \in AnyField
  BY DEF Field, AnyField, Unknown15, EndGroup
<1> QED BY <1>1, <1>2, <1>3 DEF Readable

(* MergeFrom takes over, field by field, what is not the default           *)
(* (lkpProto.pb.cc:2519-2534).                                             *)
LEMMA PushACKMerge ==
  ASSUME NEW a, NEW b, NEW c, NEW t, NEW u, NEW v
  PROVE  MergePushACK(PushACKOf(a, b, c), PushACKOf(t, u, v))
           = PushACKOf(OverFlag(a, t), OverText(b, u), OverNumber(c, v))
<1> DEFINE Only(t0, u0, v0) == [type : {"PushACK"}, status : {t0}, ack_message : {u0},
        node_id : {v0}]
<1>1. PICK p, q : p = PushACKOf(a, b, c) /\ q = PushACKOf(t, u, v)
  OBVIOUS
<1>2. PICK t1, u1, v1 :
        /\ t1 = Over(p.status, q.status, FALSE)
        /\ u1 = Over(p.ack_message, q.ack_message, "")
        /\ v1 = Over(p.node_id, q.node_id, 0)
  OBVIOUS
<1>3. MergePushACK(p, q) = [p EXCEPT !.status = t1, !.ack_message = u1, !.node_id = v1]
  BY <1>2 DEF MergePushACK
<1>4. [p EXCEPT !.status = t1, !.ack_message = u1, !.node_id = v1] = PushACKOf(t1, u1, v1)
  <2>1. p \in Only(a, b, c)
    BY <1>1 DEF PushACKOf
  <2>2. [p EXCEPT !.status = t1, !.ack_message = u1, !.node_id = v1] \in Only(t1, u1, v1)
    BY <2>1
  <2>3. PICK r : r = [p EXCEPT !.status = t1, !.ack_message = u1, !.node_id = v1]
    OBVIOUS
  <2>4. r \in Only(t1, u1, v1)
    BY <2>2, <2>3
  <2>5. r = PushACKOf(t1, u1, v1)
    BY <2>4 DEF PushACKOf
  <2> QED BY <2>3, <2>5
<1>5. /\ p.status = a /\ p.ack_message = b /\ p.node_id = c
      /\ q.status = t /\ q.ack_message = u /\ q.node_id = v
  BY <1>1 DEF PushACKOf
<1> QED BY <1>1, <1>2, <1>3, <1>4, <1>5 DEF OverFlag, OverText, OverNumber

(* Every PushACK is understood: serialized field by field, measured and    *)
(* read back (lkpProto.pb.cc:2419-2471, 2473-2500, 2342-2417).             *)
LEMMA PushACKUnderstood ==
  ASSUME NEW m \in PushACKMessage, StringSize(m.ack_message) \in Nat
  PROVE  Understood(PushACKMessage, m)
<1> DEFINE M == PushACKMessage
<1>1. PICK a, b, c :
        /\ a = m.status /\ b = m.ack_message /\ c = m.node_id
        /\ a \in BOOLEAN /\ b \in STRING /\ c \in UInt
  BY DEF PushACKMessage
<1>a0. a \in BOOLEAN
  BY <1>1
<1>b0. b \in STRING
  BY <1>1
<1>c0. c \in UInt
  BY <1>1
<1>2. m = PushACKOf(a, b, c) /\ m.type = "PushACK"
  BY <1>1 DEF PushACKMessage, PushACKOf
<1>3. PICK no, mt, zero : no = FALSE /\ mt = "" /\ zero = 0
  OBVIOUS
<1>4. New("PushACK") = PushACKOf(no, mt, zero)
  BY <1>3, NewOfType DEF NewPushACK, PushACKOf
<1>defaults. no \in BOOLEAN /\ mt \in STRING /\ zero \in UInt
  BY <1>3, ZeroFits, ProtoAssumption
<1>same. \A v : (v = FALSE => v = no) /\ (v = "" => v = mt) /\ (v = 0 => v = zero)
  BY <1>3
<1>over. OverFlag(no, a) = a /\ \A v : OverText(mt, v) = v /\ OverNumber(zero, v) = v
  BY <1>3, <1>a0 DEF Over, OverFlag, OverText, OverNumber
<1>5. PushACKOf(no, mt, zero) \in M
  BY <1>defaults, PushACKMade
<1>6. PICK none, wrong : none = {} /\ wrong = {b} \cap NotUtf8
  OBVIOUS
<1>e. PICK E0, E1, E2, E3 :
        /\ E0 = <<>> /\ E1 = EmitBool(8, a)
        /\ E2 = E1 \o EmitString(18, b)
        /\ E3 = E2 \o Emit(24, c)
  OBVIOUS
<1>s. PICK S0, S1, S2, S3 :
        /\ S0 = 0 /\ S1 = SizeIf(a, 1)
        /\ S2 = S1 + SizeIf(b # "", StringSize(b))
        /\ S3 = S2 + SizeIf(c # 0, VarintSize(c))
  OBVIOUS
<1>7. Written("PushACK", M, E1, S1, Unless(none, PushACKOf(a, mt, zero)))
  <2>1. TakesFlag("PushACK", M, 8, a, PushACKOf(no, mt, zero),
                    PushACKOf(a, mt, zero))
    <3>1. ReadBool(Field(8, 1)) = {a} => Turn("PushACK", PushACKOf(no, mt, zero), Field(8, 1))
                                       = {PushACKOf(a, mt, zero)}
      <4> SUFFICES ASSUME ReadBool(Field(8, 1)) = {a}
                   PROVE  Turn("PushACK", PushACKOf(no, mt, zero), Field(8, 1)) = {PushACKOf(a,
                             mt, zero)}
        OBVIOUS
      <4> QED BY PushACKTurn8
    <3>2. a = FALSE => PushACKOf(a, mt, zero) = PushACKOf(no, mt, zero)
      BY <1>same
    <3>3. Field(8, 1) \in Readable("PushACK", M)
      BY <1>a0, PushACKReadable
    <3>5. 8 \in Nat /\ 8 # NodeInfoTag /\ 8 % 8 = 0
      BY DEF NodeInfoTag
    <3> HIDE DEF M
    <3> QED BY <1>a0, <3>1, <3>2, <3>3, <3>5 DEF TakesFlag
  <2> HIDE DEF M
  <2>2. Written("PushACK", M, E0, S0, Unless(none, PushACKOf(no, mt, zero)))
    BY <1>4, <1>5, <1>6, <1>e, <1>s, StartWritten
  <2>3. Written("PushACK", M, E0 \o EmitBool(8, a), S0 + SizeIf(a, 1),
                Unless(none, PushACKOf(a, mt, zero)))
    BY <2>1, <2>2, WriteFlag
  <2> QED BY <1>e, <1>s, <2>3, <1>a0, Emitted, EmittedBool, FirstWritten
<1>8. Written("PushACK", M, E2, S2, Unless(wrong, PushACKOf(a, b, zero)))
  <2>1. TakesText("PushACK", M, 18, b, PushACKOf(a, mt, zero),
                    PushACKOf(a, b, zero), wrong)
    <3>1. Turn("PushACK", PushACKOf(a, mt, zero), Field(18, b))
            = Unless(wrong, PushACKOf(a, b, zero))
      <4>1. Turn("PushACK", PushACKOf(a, mt, zero), Field(18, b)) = Unless({b} \cap NotUtf8,
              PushACKOf(a, b, zero))
        BY PushACKTurn18
      <4> QED BY <1>6, <4>1
    <3>2. b = "" => PushACKOf(a, b, zero) = PushACKOf(a, mt, zero) /\ wrong = {}
      BY <1>same, <1>6, ProtoAssumption
    <3>3. Field(18, b) \in Readable("PushACK", M)
      BY <1>b0, PushACKReadable
    <3>4. StringSize(b) \in Nat
      BY <1>1
    <3>5. 18 \in Nat /\ 18 # NodeInfoTag /\ 18 % 8 # 0
      BY DEF NodeInfoTag
    <3> HIDE DEF M
    <3> QED BY <3>4, <3>1, <3>2, <3>3, <3>5 DEF TakesText
  <2> HIDE DEF M
  <2>2. Written("PushACK", M, E1, S1, Unless(none, PushACKOf(a, mt, zero)))
    BY <1>7
  <2>3. Written("PushACK", M, E1 \o EmitString(18, b), S1 + SizeIf(b # "", StringSize(b)),
                Unless(none \cup wrong, PushACKOf(a, b, zero)))
    BY <2>1, <2>2, WriteText
  <2>4. none \cup wrong = wrong
    BY <1>6
  <2> QED BY <1>e, <1>s, <2>3, <2>4
<1>9. Written("PushACK", M, E3, S3, Unless(wrong, PushACKOf(a, b, c)))
  <2>1. TakesNumber("PushACK", M, 24, c, PushACKOf(a, b, zero),
                    PushACKOf(a, b, c))
    <3>1. Turn("PushACK", PushACKOf(a, b, zero), Field(24, c)) = {PushACKOf(a, b, c)}
      BY <1>c0, PushACKTurn24
    <3>2. c = 0 => PushACKOf(a, b, c) = PushACKOf(a, b, zero)
      BY <1>same
    <3>3. Field(24, c) \in Readable("PushACK", M)
      BY <1>c0, PushACKReadable
    <3>5. 24 \in Nat /\ 24 # NodeInfoTag /\ 24 % 8 = 0
      BY DEF NodeInfoTag
    <3> HIDE DEF M
    <3> QED BY <1>c0, <3>1, <3>2, <3>3, <3>5 DEF TakesNumber
  <2> HIDE DEF M
  <2>2. Written("PushACK", M, E2, S2, Unless(wrong, PushACKOf(a, b, zero)))
    BY <1>8
  <2>3. Written("PushACK", M, E2 \o Emit(24, c), S2 + SizeIf(c # 0, VarintSize(c)),
                Unless(wrong, PushACKOf(a, b, c)))
    BY <2>1, <2>2, WriteNumber
  <2> QED BY <1>e, <1>s, <2>3
<1>10. Serialize(m) = E3
  BY <1>1, <1>2, <1>e DEF Serialize, SerializePushACK
<1>11. ByteSize(m) = S3
  BY <1>1, <1>2, <1>s DEF ByteSize, SizePushACK
<1>12. Strings(m) \cap NotUtf8 = wrong
  BY <1>1, <1>2, <1>6 DEF Strings
<1>13. Copy(m) = m
  <2>1. PICK q : q = PushACKOf(no, mt, zero)
    OBVIOUS
  <2>2. q.type = "PushACK"
    BY <2>1 DEF PushACKOf
  <2>3. Copy(m) = MergePushACK(q, m)
    BY <1>2, <1>4, <2>1, <2>2 DEF Copy, MergeFrom
  <2>4. MergePushACK(PushACKOf(no, mt, zero), PushACKOf(a, b, c)) = PushACKOf(OverFlag(no, a),
          OverText(mt, b), OverNumber(zero, c))
    BY PushACKMerge
  <2> QED BY <1>2, <1>over, <2>1, <2>3, <2>4
<1> QED
  BY <1>2, <1>9, <1>10, <1>11, <1>12, <1>13, PushACKUnusual, PushACKReadable
  DEF Understood
-----------------------------------------------------------------------------
(* A CommandACK message, by its fields.                                    *)
CommandACKOf(status, command, ack_message, node_id) ==
  [type |-> "CommandACK", status |-> status, command |-> command, ack_message |-> ack_message,
          node_id |-> node_id]

(* One turn of CommandACK::MergePartialFromCodedStream with status: it is  *)
(* stored and nothing else changes.                                        *)
LEMMA CommandACKTurn8 ==
  ASSUME NEW a, NEW b, NEW c, NEW d, NEW v, ReadBool(Field(8, 1)) = {v}
  PROVE  Turn("CommandACK", CommandACKOf(a, b, c, d), Field(8, 1)) = {CommandACKOf(v, b, c, d)}
<1>1. PICK q, field : q = CommandACKOf(a, b, c, d) /\ field = Field(8, 1)
  OBVIOUS
<1>2. field.tag = 8 /\ field.val = 1
  BY <1>1 DEF Field
<1>3. Turn("CommandACK", q, field) = Store(q, "status", ReadBool(field))
  BY <1>2 DEF Turn, ParseCommandACK
<1>4. With(q, "status", v) = CommandACKOf(v, b, c, d)
  BY <1>1 DEF With, CommandACKOf
<1> QED BY <1>1, <1>2, <1>3, <1>4, StoreValue

(* One turn of CommandACK::MergePartialFromCodedStream with command: it is *)
(* stored and nothing else changes.                                        *)
LEMMA CommandACKTurn16 ==
  ASSUME NEW a, NEW b, NEW c, NEW d, NEW v
  PROVE  Turn("CommandACK", CommandACKOf(a, b, c, d), Field(16, v)) = {CommandACKOf(a, v, c, d)}
<1>1. PICK q, field : q = CommandACKOf(a, b, c, d) /\ field = Field(16, v)
  OBVIOUS
<1>2. field.tag = 16 /\ field.val = v
  BY <1>1 DEF Field
<1>3. Turn("CommandACK", q, field) = Store(q, "command", ReadEnum(field))
  BY <1>2 DEF Turn, ParseCommandACK
<1>4. With(q, "command", v) = CommandACKOf(a, v, c, d)
  BY <1>1 DEF With, CommandACKOf
<1> QED BY <1>1, <1>2, <1>3, <1>4, StoreBare

(* One turn of CommandACK::MergePartialFromCodedStream with ack_message:   *)
(* it is stored and nothing else changes.                                  *)
LEMMA CommandACKTurn26 ==
  ASSUME NEW a, NEW b, NEW c, NEW d, NEW v
  PROVE  Turn("CommandACK", CommandACKOf(a, b, c, d), Field(26, v)) = Unless({v} \cap NotUtf8,
            CommandACKOf(a, b, v, d))
<1>1. PICK q, field : q = CommandACKOf(a, b, c, d) /\ field = Field(26, v)
  OBVIOUS
<1>2. field.tag = 26 /\ field.val = v
  BY <1>1 DEF Field
<1>3. Turn("CommandACK", q, field) = Store(q, "ack_message", ReadString(field))
  BY <1>2 DEF Turn, ParseCommandACK
<1>4. With(q, "ack_message", v) = CommandACKOf(a, b, v, d)
  BY <1>1 DEF With, CommandACKOf
<1> QED BY <1>1, <1>2, <1>3, <1>4, StoreText

(* One turn of CommandACK::MergePartialFromCodedStream with node_id: it is *)
(* stored and nothing else changes.                                        *)
LEMMA CommandACKTurn32 ==
  ASSUME NEW a, NEW b, NEW c, NEW d, NEW v \in UInt
  PROVE  Turn("CommandACK", CommandACKOf(a, b, c, d), Field(32, v)) = {CommandACKOf(a, b, c, v)}
<1>1. PICK q, field : q = CommandACKOf(a, b, c, d) /\ field = Field(32, v)
  OBVIOUS
<1>2. field.tag = 32 /\ field.val = v
  BY <1>1 DEF Field
<1>3. Turn("CommandACK", q, field) = Store(q, "node_id", ReadUInt32(field))
  BY <1>2 DEF Turn, ParseCommandACK
<1>4. With(q, "node_id", v) = CommandACKOf(a, b, c, v)
  BY <1>1 DEF With, CommandACKOf
<1> QED BY <1>1, <1>2, <1>3, <1>4, StoreNumber

(* A field number CommandACK does not have is skipped; an end group makes  *)
(* reading fail.                                                           *)
LEMMA CommandACKUnusual ==
  ASSUME NEW q
  PROVE  Turn("CommandACK", q, Unknown15) = {q} /\ Turn("CommandACK", q, Field(EndGroup, 0))
            = {}
BY DEF Turn, ParseCommandACK, Unusual, Unknown15, Field, EndGroup, WireType, InvalidTypes

(* A CommandACK with such fields is one.                                   *)
LEMMA CommandACKMade ==
  \A a \in BOOLEAN, b \in UInt, c \in STRING, d \in UInt : CommandACKOf(a, b, c,
          d) \in CommandACKMessage
BY DEF CommandACKMessage, CommandACKOf

(* The fields that CommandACK writes are fields it can read.               *)
LEMMA CommandACKReadable ==
  LET R == Readable("CommandACK", CommandACKMessage)
  IN  /\ Unknown15 \in R /\ Field(EndGroup, 0) \in R
      /\ Field(8, 1) \in R
      /\ \A v \in UInt : Field(16, v) \in R
      /\ \A v \in STRING : Field(26, v) \in R
      /\ \A v \in UInt : Field(32, v) \in R
<1> DEFINE M == CommandACKMessage
<1>1. ASSUME NEW q \in M
      PROVE  /\ Turn("CommandACK", q, Unknown15) \subseteq M /\ Turn("CommandACK", q,
                Field(EndGroup, 0)) \subseteq M
             /\ Turn("CommandACK", q, Field(8, 1)) \subseteq M
             /\ \A v \in UInt : Turn("CommandACK", q, Field(16, v)) \subseteq M
             /\ \A v \in STRING : Turn("CommandACK", q, Field(26, v)) \subseteq M
             /\ \A v \in UInt : Turn("CommandACK", q, Field(32, v)) \subseteq M
  <2>1. PICK a \in BOOLEAN, b \in UInt, c \in STRING, d \in UInt : q = CommandACKOf(a, b, c, d)
    BY DEF CommandACKMessage, CommandACKOf
  <2>2. \A a1 \in BOOLEAN, b1 \in UInt, c1 \in STRING, d1 \in UInt : CommandACKOf(a1, b1, c1,
          d1) \in M
    BY CommandACKMade
  <2>3. Turn("CommandACK", q, Field(8, 1)) \subseteq M
    <3>1. PICK v \in BOOLEAN : ReadBool(Field(8, 1)) = {v}
      BY ReadFlag
    <3>2. Turn("CommandACK", CommandACKOf(a, b, c, d), Field(8, 1)) = {CommandACKOf(v, b, c, d)}
      BY <3>1, CommandACKTurn8
    <3> QED BY <2>1, <2>2, <3>2
  <2>4. ASSUME NEW v \in UInt PROVE Turn("CommandACK", q, Field(16, v)) \subseteq M
    <3>1. Turn("CommandACK", CommandACKOf(a, b, c, d), Field(16, v)) = {CommandACKOf(a, v, c,
            d)}
      BY CommandACKTurn16
    <3> QED BY <2>1, <2>2, <3>1
  <2>5. ASSUME NEW v \in STRING PROVE Turn("CommandACK", q, Field(26, v)) \subseteq M
    <3>1. Turn("CommandACK", CommandACKOf(a, b, c, d), Field(26, v)) = Unless({v} \cap NotUtf8,
            CommandACKOf(a, b, v, d))
      BY CommandACKTurn26
    <3> QED BY <2>1, <2>2, <3>1 DEF Unless
  <2>6. ASSUME NEW v \in UInt PROVE Turn("CommandACK", q, Field(32, v)) \subseteq M
    <3>1. Turn("CommandACK", CommandACKOf(a, b, c, d), Field(32, v)) = {CommandACKOf(a, b, c,
            v)}
      BY CommandACKTurn32
    <3> QED BY <2>1, <2>2, <3>1
  <2> QED BY <2>3, <2>4, <2>5, <2>6, CommandACKUnusual
<1>2. \A n \in Nat : /\ \A v \in UInt : Field(n, v) \in AnyField
                     /\ \A v \in STRING : Field(n, v) \in AnyField
  BY ReadNumber DEF Field, AnyField
<1>3. /\ Unknown15 \in AnyField /\ Field(EndGroup, 0) \in AnyField
      /\ \A n \in Nat : Field(n, 1) \in AnyField
  BY DEF Field, AnyField, Unknown15, EndGroup
<1> QED BY <1>1, <1>2, <1>3 DEF Readable

(* MergeFrom takes over, field by field, what is not the default           *)
(* (lkpProto.pb.cc:1858-1876).                                             *)
LEMMA CommandACKMerge ==
  ASSUME NEW a, NEW b, NEW c, NEW d, NEW t, NEW u, NEW v, NEW w
  PROVE  MergeCommandACK(CommandACKOf(a, b, c, d), CommandACKOf(t, u, v, w))
           = CommandACKOf(OverFlag(a, t), OverNumber(b, u), OverText(c, v), OverNumber(d, w))
<1> DEFINE Only(t0, u0, v0, w0) == [type : {"CommandACK"}, status : {t0}, command : {u0},
        ack_message : {v0}, node_id : {w0}]
<1>1. PICK p, q : p = CommandACKOf(a, b, c, d) /\ q = CommandACKOf(t, u, v, w)
  OBVIOUS
<1>2. PICK t1, u1, v1, w1 :
        /\ t1 = Over(p.status, q.status, FALSE)
        /\ u1 = Over(p.command, q.command, 0)
        /\ v1 = Over(p.ack_message, q.ack_message, "")
        /\ w1 = Over(p.node_id, q.node_id, 0)
  OBVIOUS
<1>3. MergeCommandACK(p, q) = [p EXCEPT !.status = t1, !.command = u1, !.ack_message = v1,
        !.node_id = w1]
  BY <1>2 DEF MergeCommandACK
<1>4. [p EXCEPT !.status = t1, !.command = u1, !.ack_message = v1, !.node_id = w1]
        = CommandACKOf(t1, u1, v1, w1)
  <2>1. p \in Only(a, b, c, d)
    BY <1>1 DEF CommandACKOf
  <2>2. [p EXCEPT !.status = t1, !.command = u1, !.ack_message = v1, !.node_id
          = w1] \in Only(t1, u1, v1, w1)
    BY <2>1
  <2>3. PICK r : r = [p EXCEPT !.status = t1, !.command = u1, !.ack_message = v1, !.node_id
          = w1]
    OBVIOUS
  <2>4. r \in Only(t1, u1, v1, w1)
    BY <2>2, <2>3
  <2>5. r = CommandACKOf(t1, u1, v1, w1)
    BY <2>4 DEF CommandACKOf
  <2> QED BY <2>3, <2>5
<1>5. /\ p.status = a /\ p.command = b /\ p.ack_message = c /\ p.node_id = d
      /\ q.status = t /\ q.command = u /\ q.ack_message = v /\ q.node_id = w
  BY <1>1 DEF CommandACKOf
<1> QED BY <1>1, <1>2, <1>3, <1>4, <1>5 DEF OverFlag, OverText, OverNumber

(* Every CommandACK is understood: serialized field by field, measured and *)
(* read back (lkpProto.pb.cc:1740-1804, 1806-1839, 1647-1738).             *)
LEMMA CommandACKUnderstood ==
  ASSUME NEW m \in CommandACKMessage, StringSize(m.ack_message) \in Nat
  PROVE  Understood(CommandACKMessage, m)
<1> DEFINE M == CommandACKMessage
<1>1. PICK a, b, c, d :
        /\ a = m.status /\ b = m.command /\ c = m.ack_message /\ d = m.node_id
        /\ a \in BOOLEAN /\ b \in UInt /\ c \in STRING /\ d \in UInt
  BY DEF CommandACKMessage
<1>a0. a \in BOOLEAN
  BY <1>1
<1>b0. b \in UInt
  BY <1>1
<1>c0. c \in STRING
  BY <1>1
<1>d0. d \in UInt
  BY <1>1
<1>2. m = CommandACKOf(a, b, c, d) /\ m.type = "CommandACK"
  BY <1>1 DEF CommandACKMessage, CommandACKOf
<1>3. PICK no, mt, zero : no = FALSE /\ mt = "" /\ zero = 0
  OBVIOUS
<1>4. New("CommandACK") = CommandACKOf(no, zero, mt, zero)
  BY <1>3, NewOfType DEF NewCommandACK, CommandACKOf
<1>defaults. no \in BOOLEAN /\ mt \in STRING /\ zero \in UInt
  BY <1>3, ZeroFits, ProtoAssumption
<1>same. \A v : (v = FALSE => v = no) /\ (v = "" => v = mt) /\ (v = 0 => v = zero)
  BY <1>3
<1>over. OverFlag(no, a) = a /\ \A v : OverText(mt, v) = v /\ OverNumber(zero, v) = v
  BY <1>3, <1>a0 DEF Over, OverFlag, OverText, OverNumber
<1>5. CommandACKOf(no, zero, mt, zero) \in M
  BY <1>defaults, CommandACKMade
<1>6. PICK none, wrong : none = {} /\ wrong = {c} \cap NotUtf8
  OBVIOUS
<1>e. PICK E0, E1, E2, E3, E4 :
        /\ E0 = <<>> /\ E1 = EmitBool(8, a)
        /\ E2 = E1 \o Emit(16, b)
        /\ E3 = E2 \o EmitString(26, c)
        /\ E4 = E3 \o Emit(32, d)
  OBVIOUS
<1>s. PICK S0, S1, S2, S3, S4 :
        /\ S0 = 0 /\ S1 = SizeIf(a, 1)
        /\ S2 = S1 + SizeIf(b # 0, VarintSize(b))
        /\ S3 = S2 + SizeIf(c # "", StringSize(c))
        /\ S4 = S3 + SizeIf(d # 0, VarintSize(d))
  OBVIOUS
<1>7. Written("CommandACK", M, E1, S1, Unless(none, CommandACKOf(a, zero, mt, zero)))
  <2>1. TakesFlag("CommandACK", M, 8, a, CommandACKOf(no, zero, mt, zero),
                    CommandACKOf(a, zero, mt, zero))
    <3>1. ReadBool(Field(8, 1)) = {a} => Turn("CommandACK", CommandACKOf(no, zero, mt, zero),
            Field(8, 1))
                                       = {CommandACKOf(a, zero, mt, zero)}
      <4> SUFFICES ASSUME ReadBool(Field(8, 1)) = {a}
                   PROVE  Turn("CommandACK", CommandACKOf(no, zero, mt, zero), Field(8, 1))
                             = {CommandACKOf(a, zero, mt, zero)}
        OBVIOUS
      <4> QED BY CommandACKTurn8
    <3>2. a = FALSE => CommandACKOf(a, zero, mt, zero) = CommandACKOf(no, zero, mt, zero)
      BY <1>same
    <3>3. Field(8, 1) \in Readable("CommandACK", M)
      BY <1>a0, CommandACKReadable
    <3>5. 8 \in Nat /\ 8 # NodeInfoTag /\ 8 % 8 = 0
      BY DEF NodeInfoTag
    <3> HIDE DEF M
    <3> QED BY <1>a0, <3>1, <3>2, <3>3, <3>5 DEF TakesFlag
  <2> HIDE DEF M
  <2>2. Written("CommandACK", M, E0, S0, Unless(none, CommandACKOf(no, zero, mt, zero)))
    BY <1>4, <1>5, <1>6, <1>e, <1>s, StartWritten
  <2>3. Written("CommandACK", M, E0 \o EmitBool(8, a), S0 + SizeIf(a, 1),
                Unless(none, CommandACKOf(a, zero, mt, zero)))
    BY <2>1, <2>2, WriteFlag
  <2> QED BY <1>e, <1>s, <2>3, <1>a0, Emitted, EmittedBool, FirstWritten
<1>8. Written("CommandACK", M, E2, S2, Unless(none, CommandACKOf(a, b, mt, zero)))
  <2>1. TakesNumber("CommandACK", M, 16, b, CommandACKOf(a, zero, mt, zero),
                    CommandACKOf(a, b, mt, zero))
    <3>1. Turn("CommandACK", CommandACKOf(a, zero, mt, zero), Field(16, b)) = {CommandACKOf(a,
            b, mt, zero)}
      BY <1>b0, CommandACKTurn16
    <3>2. b = 0 => CommandACKOf(a, b, mt, zero) = CommandACKOf(a, zero, mt, zero)
      BY <1>same
    <3>3. Field(16, b) \in Readable("CommandACK", M)
      BY <1>b0, CommandACKReadable
    <3>5. 16 \in Nat /\ 16 # NodeInfoTag /\ 16 % 8 = 0
      BY DEF NodeInfoTag
    <3> HIDE DEF M
    <3> QED BY <1>b0, <3>1, <3>2, <3>3, <3>5 DEF TakesNumber
  <2> HIDE DEF M
  <2>2. Written("CommandACK", M, E1, S1, Unless(none, CommandACKOf(a, zero, mt, zero)))
    BY <1>7
  <2>3. Written("CommandACK", M, E1 \o Emit(16, b), S1 + SizeIf(b # 0, VarintSize(b)),
                Unless(none, CommandACKOf(a, b, mt, zero)))
    BY <2>1, <2>2, WriteNumber
  <2> QED BY <1>e, <1>s, <2>3
<1>9. Written("CommandACK", M, E3, S3, Unless(wrong, CommandACKOf(a, b, c, zero)))
  <2>1. TakesText("CommandACK", M, 26, c, CommandACKOf(a, b, mt, zero),
                    CommandACKOf(a, b, c, zero), wrong)
    <3>1. Turn("CommandACK", CommandACKOf(a, b, mt, zero), Field(26, c))
            = Unless(wrong, CommandACKOf(a, b, c, zero))
      <4>1. Turn("CommandACK", CommandACKOf(a, b, mt, zero), Field(26, c))
              = Unless({c} \cap NotUtf8, CommandACKOf(a, b, c, zero))
        BY CommandACKTurn26
      <4> QED BY <1>6, <4>1
    <3>2. c = "" => CommandACKOf(a, b, c, zero) = CommandACKOf(a, b, mt, zero) /\ wrong = {}
      BY <1>same, <1>6, ProtoAssumption
    <3>3. Field(26, c) \in Readable("CommandACK", M)
      BY <1>c0, CommandACKReadable
    <3>4. StringSize(c) \in Nat
      BY <1>1
    <3>5. 26 \in Nat /\ 26 # NodeInfoTag /\ 26 % 8 # 0
      BY DEF NodeInfoTag
    <3> HIDE DEF M
    <3> QED BY <3>4, <3>1, <3>2, <3>3, <3>5 DEF TakesText
  <2> HIDE DEF M
  <2>2. Written("CommandACK", M, E2, S2, Unless(none, CommandACKOf(a, b, mt, zero)))
    BY <1>8
  <2>3. Written("CommandACK", M, E2 \o EmitString(26, c), S2 + SizeIf(c # "", StringSize(c)),
                Unless(none \cup wrong, CommandACKOf(a, b, c, zero)))
    BY <2>1, <2>2, WriteText
  <2>4. none \cup wrong = wrong
    BY <1>6
  <2> QED BY <1>e, <1>s, <2>3, <2>4
<1>10. Written("CommandACK", M, E4, S4, Unless(wrong, CommandACKOf(a, b, c, d)))
  <2>1. TakesNumber("CommandACK", M, 32, d, CommandACKOf(a, b, c, zero),
                    CommandACKOf(a, b, c, d))
    <3>1. Turn("CommandACK", CommandACKOf(a, b, c, zero), Field(32, d)) = {CommandACKOf(a, b,
            c, d)}
      BY <1>d0, CommandACKTurn32
    <3>2. d = 0 => CommandACKOf(a, b, c, d) = CommandACKOf(a, b, c, zero)
      BY <1>same
    <3>3. Field(32, d) \in Readable("CommandACK", M)
      BY <1>d0, CommandACKReadable
    <3>5. 32 \in Nat /\ 32 # NodeInfoTag /\ 32 % 8 = 0
      BY DEF NodeInfoTag
    <3> HIDE DEF M
    <3> QED BY <1>d0, <3>1, <3>2, <3>3, <3>5 DEF TakesNumber
  <2> HIDE DEF M
  <2>2. Written("CommandACK", M, E3, S3, Unless(wrong, CommandACKOf(a, b, c, zero)))
    BY <1>9
  <2>3. Written("CommandACK", M, E3 \o Emit(32, d), S3 + SizeIf(d # 0, VarintSize(d)),
                Unless(wrong, CommandACKOf(a, b, c, d)))
    BY <2>1, <2>2, WriteNumber
  <2> QED BY <1>e, <1>s, <2>3
<1>11. Serialize(m) = E4
  BY <1>1, <1>2, <1>e DEF Serialize, SerializeCommandACK
<1>12. ByteSize(m) = S4
  BY <1>1, <1>2, <1>s DEF ByteSize, SizeCommandACK
<1>13. Strings(m) \cap NotUtf8 = wrong
  BY <1>1, <1>2, <1>6 DEF Strings
<1>14. Copy(m) = m
  <2>1. PICK q : q = CommandACKOf(no, zero, mt, zero)
    OBVIOUS
  <2>2. q.type = "CommandACK"
    BY <2>1 DEF CommandACKOf
  <2>3. Copy(m) = MergeCommandACK(q, m)
    BY <1>2, <1>4, <2>1, <2>2 DEF Copy, MergeFrom
  <2>4. MergeCommandACK(CommandACKOf(no, zero, mt, zero), CommandACKOf(a, b, c, d))
          = CommandACKOf(OverFlag(no, a), OverNumber(zero, b), OverText(mt, c),
                  OverNumber(zero, d))
    BY CommandACKMerge
  <2> QED BY <1>2, <1>over, <2>1, <2>3, <2>4
<1> QED
  BY <1>2, <1>10, <1>11, <1>12, <1>13, <1>14, CommandACKUnusual, CommandACKReadable
  DEF Understood
-----------------------------------------------------------------------------
(* A Command message, by its fields.                                       *)
CommandOf(command, send_to_all, testcase, docker_num, tesetcase_len, node_id) ==
  [type |-> "Command", command |-> command, send_to_all |-> send_to_all, testcase |-> testcase,
          docker_num |-> docker_num, tesetcase_len |-> tesetcase_len, node_id |-> node_id]

(* One turn of Command::MergePartialFromCodedStream with command: it is    *)
(* stored and nothing else changes.                                        *)
LEMMA CommandTurn8 ==
  ASSUME NEW a, NEW b, NEW c, NEW d, NEW e, NEW f, NEW v
  PROVE  Turn("Command", CommandOf(a, b, c, d, e, f), Field(8, v)) = {CommandOf(v, b, c, d, e,
            f)}
<1>1. PICK q, field : q = CommandOf(a, b, c, d, e, f) /\ field = Field(8, v)
  OBVIOUS
<1>2. field.tag = 8 /\ field.val = v
  BY <1>1 DEF Field
<1>3. Turn("Command", q, field) = Store(q, "command", ReadEnum(field))
  BY <1>2 DEF Turn, ParseCommand
<1>4. With(q, "command", v) = CommandOf(v, b, c, d, e, f)
  BY <1>1 DEF With, CommandOf
<1> QED BY <1>1, <1>2, <1>3, <1>4, StoreBare

(* One turn of Command::MergePartialFromCodedStream with send_to_all: it   *)
(* is stored and nothing else changes.                                     *)
LEMMA CommandTurn16 ==
  ASSUME NEW a, NEW b, NEW c, NEW d, NEW e, NEW f, NEW v, ReadBool(Field(16, 1)) = {v}
  PROVE  Turn("Command", CommandOf(a, b, c, d, e, f), Field(16, 1)) = {CommandOf(a, v, c, d, e,
            f)}
<1>1. PICK q, field : q = CommandOf(a, b, c, d, e, f) /\ field = Field(16, 1)
  OBVIOUS
<1>2. field.tag = 16 /\ field.val = 1
  BY <1>1 DEF Field
<1>3. Turn("Command", q, field) = Store(q, "send_to_all", ReadBool(field))
  BY <1>2 DEF Turn, ParseCommand
<1>4. With(q, "send_to_all", v) = CommandOf(a, v, c, d, e, f)
  BY <1>1 DEF With, CommandOf
<1> QED BY <1>1, <1>2, <1>3, <1>4, StoreValue

(* One turn of Command::MergePartialFromCodedStream with testcase: it is   *)
(* stored and nothing else changes.                                        *)
LEMMA CommandTurn26 ==
  ASSUME NEW a, NEW b, NEW c, NEW d, NEW e, NEW f, NEW v
  PROVE  Turn("Command", CommandOf(a, b, c, d, e, f), Field(26, v)) = Unless({v} \cap NotUtf8,
            CommandOf(a, b, v, d, e, f))
<1>1. PICK q, field : q = CommandOf(a, b, c, d, e, f) /\ field = Field(26, v)
  OBVIOUS
<1>2. field.tag = 26 /\ field.val = v
  BY <1>1 DEF Field
<1>3. Turn("Command", q, field) = Store(q, "testcase", ReadString(field))
  BY <1>2 DEF Turn, ParseCommand
<1>4. With(q, "testcase", v) = CommandOf(a, b, v, d, e, f)
  BY <1>1 DEF With, CommandOf
<1> QED BY <1>1, <1>2, <1>3, <1>4, StoreText

(* One turn of Command::MergePartialFromCodedStream with docker_num: it is *)
(* stored and nothing else changes.                                        *)
LEMMA CommandTurn32 ==
  ASSUME NEW a, NEW b, NEW c, NEW d, NEW e, NEW f, NEW v \in UInt
  PROVE  Turn("Command", CommandOf(a, b, c, d, e, f), Field(32, v)) = {CommandOf(a, b, c, v, e,
            f)}
<1>1. PICK q, field : q = CommandOf(a, b, c, d, e, f) /\ field = Field(32, v)
  OBVIOUS
<1>2. field.tag = 32 /\ field.val = v
  BY <1>1 DEF Field
<1>3. Turn("Command", q, field) = Store(q, "docker_num", ReadUInt32(field))
  BY <1>2 DEF Turn, ParseCommand
<1>4. With(q, "docker_num", v) = CommandOf(a, b, c, v, e, f)
  BY <1>1 DEF With, CommandOf
<1> QED BY <1>1, <1>2, <1>3, <1>4, StoreNumber

(* One turn of Command::MergePartialFromCodedStream with tesetcase_len: it *)
(* is stored and nothing else changes.                                     *)
LEMMA CommandTurn40 ==
  ASSUME NEW a, NEW b, NEW c, NEW d, NEW e, NEW f, NEW v \in UInt
  PROVE  Turn("Command", CommandOf(a, b, c, d, e, f), Field(40, v)) = {CommandOf(a, b, c, d, v,
            f)}
<1>1. PICK q, field : q = CommandOf(a, b, c, d, e, f) /\ field = Field(40, v)
  OBVIOUS
<1>2. field.tag = 40 /\ field.val = v
  BY <1>1 DEF Field
<1>3. Turn("Command", q, field) = Store(q, "tesetcase_len", ReadUInt32(field))
  BY <1>2 DEF Turn, ParseCommand
<1>4. With(q, "tesetcase_len", v) = CommandOf(a, b, c, d, v, f)
  BY <1>1 DEF With, CommandOf
<1> QED BY <1>1, <1>2, <1>3, <1>4, StoreNumber

(* One turn of Command::MergePartialFromCodedStream with node_id: it is    *)
(* stored and nothing else changes.                                        *)
LEMMA CommandTurn48 ==
  ASSUME NEW a, NEW b, NEW c, NEW d, NEW e, NEW f, NEW v \in UInt
  PROVE  Turn("Command", CommandOf(a, b, c, d, e, f), Field(48, v)) = {CommandOf(a, b, c, d, e,
            v)}
<1>1. PICK q, field : q = CommandOf(a, b, c, d, e, f) /\ field = Field(48, v)
  OBVIOUS
<1>2. field.tag = 48 /\ field.val = v
  BY <1>1 DEF Field
<1>3. Turn("Command", q, field) = Store(q, "node_id", ReadUInt32(field))
  BY <1>2 DEF Turn, ParseCommand
<1>4. With(q, "node_id", v) = CommandOf(a, b, c, d, e, v)
  BY <1>1 DEF With, CommandOf
<1> QED BY <1>1, <1>2, <1>3, <1>4, StoreNumber

(* A field number Command does not have is skipped; an end group makes     *)
(* reading fail.                                                           *)
LEMMA CommandUnusual ==
  ASSUME NEW q
  PROVE  Turn("Command", q, Unknown15) = {q} /\ Turn("Command", q, Field(EndGroup, 0)) = {}
BY DEF Turn, ParseCommand, Unusual, Unknown15, Field, EndGroup, WireType, InvalidTypes

(* A Command with such fields is one.                                      *)
LEMMA CommandMade ==
  \A a \in UInt, b \in BOOLEAN, c \in STRING, d \in UInt, e \in UInt, f \in UInt : CommandOf(a,
          b, c, d, e, f) \in CommandMessage
BY DEF CommandMessage, CommandOf

(* The fields that Command writes are fields it can read.                  *)
LEMMA CommandReadable ==
  LET R == Readable("Command", CommandMessage)
  IN  /\ Unknown15 \in R /\ Field(EndGroup, 0) \in R
      /\ \A v \in UInt : Field(8, v) \in R
      /\ Field(16, 1) \in R
      /\ \A v \in STRING : Field(26, v) \in R
      /\ \A v \in UInt : Field(32, v) \in R
      /\ \A v \in UInt : Field(40, v) \in R
      /\ \A v \in UInt : Field(48, v) \in R
<1> DEFINE M == CommandMessage
<1>1. ASSUME NEW q \in M
      PROVE  /\ Turn("Command", q, Unknown15) \subseteq M
             /\ Turn("Command", q, Field(EndGroup, 0)) \subseteq M
             /\ \A v \in UInt : Turn("Command", q, Field(8, v)) \subseteq M
             /\ Turn("Command", q, Field(16, 1)) \subseteq M
             /\ \A v \in STRING : Turn("Command", q, Field(26, v)) \subseteq M
             /\ \A v \in UInt : Turn("Command", q, Field(32, v)) \subseteq M
             /\ \A v \in UInt : Turn("Command", q, Field(40, v)) \subseteq M
             /\ \A v \in UInt : Turn("Command", q, Field(48, v)) \subseteq M
  <2>1. PICK a \in UInt, b \in BOOLEAN, c \in STRING, d \in UInt, e \in UInt, f \in UInt : q
          = CommandOf(a, b, c, d, e, f)
    BY DEF CommandMessage, CommandOf
  <2>2. \A a1 \in UInt, b1 \in BOOLEAN, c1 \in STRING, d1 \in UInt, e1 \in UInt, f1 \in UInt :
          CommandOf(a1, b1, c1, d1, e1, f1) \in M
    BY CommandMade
  <2>3. ASSUME NEW v \in UInt PROVE Turn("Command", q, Field(8, v)) \subseteq M
    <3>1. Turn("Command", CommandOf(a, b, c, d, e, f), Field(8, v)) = {CommandOf(v, b, c, d, e,
            f)}
      BY CommandTurn8
    <3> QED BY <2>1, <2>2, <3>1
  <2>4. Turn("Command", q, Field(16, 1)) \subseteq M
    <3>1. PICK v \in BOOLEAN : ReadBool(Field(16, 1)) = {v}
      BY ReadFlag
    <3>2. Turn("Command", CommandOf(a, b, c, d, e, f), Field(16, 1)) = {CommandOf(a, v, c, d,
            e, f)}
      BY <3>1, CommandTurn16
    <3> QED BY <2>1, <2>2, <3>2
  <2>5. ASSUME NEW v \in STRING PROVE Turn("Command", q, Field(26, v)) \subseteq M
    <3>1. Turn("Command", CommandOf(a, b, c, d, e, f), Field(26, v)) = Unless({v} \cap NotUtf8,
            CommandOf(a, b, v, d, e, f))
      BY CommandTurn26
    <3> QED BY <2>1, <2>2, <3>1 DEF Unless
  <2>6. ASSUME NEW v \in UInt PROVE Turn("Command", q, Field(32, v)) \subseteq M
    <3>1. Turn("Command", CommandOf(a, b, c, d, e, f), Field(32, v)) = {CommandOf(a, b, c, v,
            e, f)}
      BY CommandTurn32
    <3> QED BY <2>1, <2>2, <3>1
  <2>7. ASSUME NEW v \in UInt PROVE Turn("Command", q, Field(40, v)) \subseteq M
    <3>1. Turn("Command", CommandOf(a, b, c, d, e, f), Field(40, v)) = {CommandOf(a, b, c, d,
            v, f)}
      BY CommandTurn40
    <3> QED BY <2>1, <2>2, <3>1
  <2>8. ASSUME NEW v \in UInt PROVE Turn("Command", q, Field(48, v)) \subseteq M
    <3>1. Turn("Command", CommandOf(a, b, c, d, e, f), Field(48, v)) = {CommandOf(a, b, c, d,
            e, v)}
      BY CommandTurn48
    <3> QED BY <2>1, <2>2, <3>1
  <2> QED BY <2>3, <2>4, <2>5, <2>6, <2>7, <2>8, CommandUnusual
<1>2. \A n \in Nat : /\ \A v \in UInt : Field(n, v) \in AnyField
                     /\ \A v \in STRING : Field(n, v) \in AnyField
  BY ReadNumber DEF Field, AnyField
<1>3. /\ Unknown15 \in AnyField /\ Field(EndGroup, 0) \in AnyField
      /\ \A n \in Nat : Field(n, 1) \in AnyField
  BY DEF Field, AnyField, Unknown15, EndGroup
<1> QED BY <1>1, <1>2, <1>3 DEF Readable

(* MergeFrom takes over, field by field, what is not the default           *)
(* (lkpProto.pb.cc:685-709).                                               *)
LEMMA CommandMerge ==
  ASSUME NEW a, NEW b, NEW c, NEW d, NEW e, NEW f, NEW t, NEW u, NEW v, NEW w, NEW x, NEW y
  PROVE  MergeCommand(CommandOf(a, b, c, d, e, f), CommandOf(t, u, v, w, x, y))
           = CommandOf(OverNumber(a, t), OverFlag(b, u), OverText(c, v), OverNumber(d, w),
                   OverNumber(e, x), OverNumber(f, y))
<1> DEFINE Only(t0, u0, v0, w0, x0, y0) == [type : {"Command"}, command : {t0}, send_to_all :
        {u0}, testcase : {v0}, docker_num : {w0}, tesetcase_len : {x0}, node_id : {y0}]
<1>1. PICK p, q : p = CommandOf(a, b, c, d, e, f) /\ q = CommandOf(t, u, v, w, x, y)
  OBVIOUS
<1>2. PICK t1, u1, v1, w1, x1, y1 :
        /\ t1 = Over(p.command, q.command, 0)
        /\ u1 = Over(p.send_to_all, q.send_to_all, FALSE)
        /\ v1 = Over(p.testcase, q.testcase, "")
        /\ w1 = Over(p.docker_num, q.docker_num, 0)
        /\ x1 = Over(p.tesetcase_len, q.tesetcase_len, 0)
        /\ y1 = Over(p.node_id, q.node_id, 0)
  OBVIOUS
<1>3. MergeCommand(p, q) = [p EXCEPT !.command = t1, !.send_to_all = u1, !.testcase = v1,
        !.docker_num = w1, !.tesetcase_len = x1, !.node_id = y1]
  BY <1>2 DEF MergeCommand
<1>4. [p EXCEPT !.command = t1, !.send_to_all = u1, !.testcase = v1, !.docker_num = w1,
        !.tesetcase_len = x1, !.node_id = y1] = CommandOf(t1, u1, v1, w1, x1, y1)
  <2>1. p \in Only(a, b, c, d, e, f)
    BY <1>1 DEF CommandOf
  <2>2. [p EXCEPT !.command = t1, !.send_to_all = u1, !.testcase = v1, !.docker_num = w1,
          !.tesetcase_len = x1, !.node_id = y1] \in Only(t1, u1, v1, w1, x1, y1)
    BY <2>1
  <2>3. PICK r : r = [p EXCEPT !.command = t1, !.send_to_all = u1, !.testcase = v1,
          !.docker_num = w1, !.tesetcase_len = x1, !.node_id = y1]
    OBVIOUS
  <2>4. r \in Only(t1, u1, v1, w1, x1, y1)
    BY <2>2, <2>3
  <2>5. r = CommandOf(t1, u1, v1, w1, x1, y1)
    BY <2>4 DEF CommandOf
  <2> QED BY <2>3, <2>5
<1>5. /\ p.command = a /\ p.send_to_all = b /\ p.testcase = c /\ p.docker_num = d
        /\ p.tesetcase_len = e /\ p.node_id = f
      /\ q.command = t /\ q.send_to_all = u /\ q.testcase = v /\ q.docker_num = w
                /\ q.tesetcase_len = x /\ q.node_id = y
  BY <1>1 DEF CommandOf
<1> QED BY <1>1, <1>2, <1>3, <1>4, <1>5 DEF OverFlag, OverText, OverNumber

(* Every Command is understood: serialized field by field, measured and    *)
(* read back (lkpProto.pb.cc:533-617, 619-666, 410-531).                   *)
LEMMA CommandUnderstood ==
  ASSUME NEW m \in CommandMessage, StringSize(m.testcase) \in Nat
  PROVE  Understood(CommandMessage, m)
<1> DEFINE M == CommandMessage
<1>1. PICK a, b, c, d, e, f :
        /\ a = m.command /\ b = m.send_to_all /\ c = m.testcase /\ d = m.docker_num /\ e
                  = m.tesetcase_len /\ f = m.node_id
        /\ a \in UInt /\ b \in BOOLEAN /\ c \in STRING /\ d \in UInt /\ e \in UInt /\ f \in UInt
  BY DEF CommandMessage
<1>a0. a \in UInt
  BY <1>1
<1>b0. b \in BOOLEAN
  BY <1>1
<1>c0. c \in STRING
  BY <1>1
<1>d0. d \in UInt
  BY <1>1
<1>e0. e \in UInt
  BY <1>1
<1>f0. f \in UInt
  BY <1>1
<1>2. m = CommandOf(a, b, c, d, e, f) /\ m.type = "Command"
  BY <1>1 DEF CommandMessage, CommandOf
<1>3. PICK no, mt, zero : no = FALSE /\ mt = "" /\ zero = 0
  OBVIOUS
<1>4. New("Command") = CommandOf(zero, no, mt, zero, zero, zero)
  BY <1>3, NewOfType DEF NewCommand, CommandOf
<1>defaults. no \in BOOLEAN /\ mt \in STRING /\ zero \in UInt
  BY <1>3, ZeroFits, ProtoAssumption
<1>same. \A v : (v = FALSE => v = no) /\ (v = "" => v = mt) /\ (v = 0 => v = zero)
  BY <1>3
<1>over. OverFlag(no, b) = b /\ \A v : OverText(mt, v) = v /\ OverNumber(zero, v) = v
  BY <1>3, <1>b0 DEF Over, OverFlag, OverText, OverNumber
<1>5. CommandOf(zero, no, mt, zero, zero, zero) \in M
  BY <1>defaults, CommandMade
<1>6. PICK none, wrong : none = {} /\ wrong = {c} \cap NotUtf8
  OBVIOUS
<1>e. PICK E0, E1, E2, E3, E4, E5, E6 :
        /\ E0 = <<>> /\ E1 = Emit(8, a)
        /\ E2 = E1 \o EmitBool(16, b)
        /\ E3 = E2 \o EmitString(26, c)
        /\ E4 = E3 \o Emit(32, d)
        /\ E5 = E4 \o Emit(40, e)
        /\ E6 = E5 \o Emit(48, f)
  OBVIOUS
<1>t. PICK S0, S1, S2, S3, S4 :
        /\ S0 = 0 /\ S1 = SizeIf(a # 0, VarintSize(a))
        /\ S2 = S1 + SizeIf(b, 1)
        /\ S3 = S2 + SizeIf(c # "", StringSize(c))
        /\ S4 = S3 + SizeIf(d # 0, VarintSize(d))
  OBVIOUS
<1>s. PICK S5, S6 :
        /\ S0 = 0 /\ S1 = SizeIf(a # 0, VarintSize(a))
        /\ S2 = S1 + SizeIf(b, 1)
        /\ S3 = S2 + SizeIf(c # "", StringSize(c))
        /\ S4 = S3 + SizeIf(d # 0, VarintSize(d))
        /\ S5 = S4 + SizeIf(e # 0, VarintSize(e))
        /\ S6 = S5 + SizeIf(f # 0, VarintSize(f))
  BY <1>t
<1>7. Written("Command", M, E1, S1, Unless(none, CommandOf(a, no, mt, zero, zero, zero)))
  <2>1. TakesNumber("Command", M, 8, a, CommandOf(zero, no, mt, zero, zero, zero),
                    CommandOf(a, no, mt, zero, zero, zero))
    <3>1. Turn("Command", CommandOf(zero, no, mt, zero, zero, zero), Field(8, a))
            = {CommandOf(a, no, mt, zero, zero, zero)}
      BY <1>a0, CommandTurn8
    <3>2. a = 0 => CommandOf(a, no, mt, zero, zero, zero) = CommandOf(zero, no, mt, zero, zero,
            zero)
      BY <1>same
    <3>3. Field(8, a) \in Readable("Command", M)
      BY <1>a0, CommandReadable
    <3>5. 8 \in Nat /\ 8 # NodeInfoTag /\ 8 % 8 = 0
      BY DEF NodeInfoTag
    <3> HIDE DEF M
    <3> QED BY <1>a0, <3>1, <3>2, <3>3, <3>5 DEF TakesNumber
  <2> HIDE DEF M
  <2>2. Written("Command", M, E0, S0, Unless(none, CommandOf(zero, no, mt, zero, zero, zero)))
    BY <1>4, <1>5, <1>6, <1>e, <1>s, StartWritten
  <2>3. Written("Command", M, E0 \o Emit(8, a), S0 + SizeIf(a # 0, VarintSize(a)),
                Unless(none, CommandOf(a, no, mt, zero, zero, zero)))
    BY <2>1, <2>2, WriteNumber
  <2> QED BY <1>e, <1>s, <2>3, <1>a0, Emitted, EmittedBool, FirstWritten
<1>8. Written("Command", M, E2, S2, Unless(none, CommandOf(a, b, mt, zero, zero, zero)))
  <2>1. TakesFlag("Command", M, 16, b, CommandOf(a, no, mt, zero, zero, zero),
                    CommandOf(a, b, mt, zero, zero, zero))
    <3>1. ReadBool(Field(16, 1)) = {b} => Turn("Command", CommandOf(a, no, mt, zero, zero,
            zero), Field(16, 1))
                                       = {CommandOf(a, b, mt, zero, zero, zero)}
      <4> SUFFICES ASSUME ReadBool(Field(16, 1)) = {b}
                   PROVE  Turn("Command", CommandOf(a, no, mt, zero, zero, zero), Field(16, 1))
                             = {CommandOf(a, b, mt, zero, zero, zero)}
        OBVIOUS
      <4> QED BY CommandTurn16
    <3>2. b = FALSE => CommandOf(a, b, mt, zero, zero, zero) = CommandOf(a, no, mt, zero, zero,
            zero)
      BY <1>same
    <3>3. Field(16, 1) \in Readable("Command", M)
      BY <1>b0, CommandReadable
    <3>5. 16 \in Nat /\ 16 # NodeInfoTag /\ 16 % 8 = 0
      BY DEF NodeInfoTag
    <3> HIDE DEF M
    <3> QED BY <1>b0, <3>1, <3>2, <3>3, <3>5 DEF TakesFlag
  <2> HIDE DEF M
  <2>2. Written("Command", M, E1, S1, Unless(none, CommandOf(a, no, mt, zero, zero, zero)))
    BY <1>7
  <2>3. Written("Command", M, E1 \o EmitBool(16, b), S1 + SizeIf(b, 1),
                Unless(none, CommandOf(a, b, mt, zero, zero, zero)))
    BY <2>1, <2>2, WriteFlag
  <2> QED BY <1>e, <1>s, <2>3
<1>9. Written("Command", M, E3, S3, Unless(wrong, CommandOf(a, b, c, zero, zero, zero)))
  <2>1. TakesText("Command", M, 26, c, CommandOf(a, b, mt, zero, zero, zero),
                    CommandOf(a, b, c, zero, zero, zero), wrong)
    <3>1. Turn("Command", CommandOf(a, b, mt, zero, zero, zero), Field(26, c))
            = Unless(wrong, CommandOf(a, b, c, zero, zero, zero))
      <4>1. Turn("Command", CommandOf(a, b, mt, zero, zero, zero), Field(26, c))
              = Unless({c} \cap NotUtf8, CommandOf(a, b, c, zero, zero, zero))
        BY CommandTurn26
      <4> QED BY <1>6, <4>1
    <3>2. c = "" => CommandOf(a, b, c, zero, zero, zero) = CommandOf(a, b, mt, zero, zero,
            zero) /\ wrong = {}
      BY <1>same, <1>6, ProtoAssumption
    <3>3. Field(26, c) \in Readable("Command", M)
      BY <1>c0, CommandReadable
    <3>4. StringSize(c) \in Nat
      BY <1>1
    <3>5. 26 \in Nat /\ 26 # NodeInfoTag /\ 26 % 8 # 0
      BY DEF NodeInfoTag
    <3> HIDE DEF M
    <3> QED BY <3>4, <3>1, <3>2, <3>3, <3>5 DEF TakesText
  <2> HIDE DEF M
  <2>2. Written("Command", M, E2, S2, Unless(none, CommandOf(a, b, mt, zero, zero, zero)))
    BY <1>8
  <2>3. Written("Command", M, E2 \o EmitString(26, c), S2 + SizeIf(c # "", StringSize(c)),
                Unless(none \cup wrong, CommandOf(a, b, c, zero, zero, zero)))
    BY <2>1, <2>2, WriteText
  <2>4. none \cup wrong = wrong
    BY <1>6
  <2> QED BY <1>e, <1>s, <2>3, <2>4
<1>10. Written("Command", M, E4, S4, Unless(wrong, CommandOf(a, b, c, d, zero, zero)))
  <2>1. TakesNumber("Command", M, 32, d, CommandOf(a, b, c, zero, zero, zero),
                    CommandOf(a, b, c, d, zero, zero))
    <3>1. Turn("Command", CommandOf(a, b, c, zero, zero, zero), Field(32, d)) = {CommandOf(a,
            b, c, d, zero, zero)}
      BY <1>d0, CommandTurn32
    <3>2. d = 0 => CommandOf(a, b, c, d, zero, zero) = CommandOf(a, b, c, zero, zero, zero)
      BY <1>same
    <3>3. Field(32, d) \in Readable("Command", M)
      BY <1>d0, CommandReadable
    <3>5. 32 \in Nat /\ 32 # NodeInfoTag /\ 32 % 8 = 0
      BY DEF NodeInfoTag
    <3> HIDE DEF M
    <3> QED BY <1>d0, <3>1, <3>2, <3>3, <3>5 DEF TakesNumber
  <2> HIDE DEF M
  <2>2. Written("Command", M, E3, S3, Unless(wrong, CommandOf(a, b, c, zero, zero, zero)))
    BY <1>9
  <2>3. Written("Command", M, E3 \o Emit(32, d), S3 + SizeIf(d # 0, VarintSize(d)),
                Unless(wrong, CommandOf(a, b, c, d, zero, zero)))
    BY <2>1, <2>2, WriteNumber
  <2> QED BY <1>e, <1>s, <2>3
<1>11. Written("Command", M, E5, S5, Unless(wrong, CommandOf(a, b, c, d, e, zero)))
  <2>1. TakesNumber("Command", M, 40, e, CommandOf(a, b, c, d, zero, zero),
                    CommandOf(a, b, c, d, e, zero))
    <3>1. Turn("Command", CommandOf(a, b, c, d, zero, zero), Field(40, e)) = {CommandOf(a, b,
            c, d, e, zero)}
      BY <1>e0, CommandTurn40
    <3>2. e = 0 => CommandOf(a, b, c, d, e, zero) = CommandOf(a, b, c, d, zero, zero)
      BY <1>same
    <3>3. Field(40, e) \in Readable("Command", M)
      BY <1>e0, CommandReadable
    <3>5. 40 \in Nat /\ 40 # NodeInfoTag /\ 40 % 8 = 0
      BY DEF NodeInfoTag
    <3> HIDE DEF M
    <3> QED BY <1>e0, <3>1, <3>2, <3>3, <3>5 DEF TakesNumber
  <2> HIDE DEF M
  <2>2. Written("Command", M, E4, S4, Unless(wrong, CommandOf(a, b, c, d, zero, zero)))
    BY <1>10
  <2>3. Written("Command", M, E4 \o Emit(40, e), S4 + SizeIf(e # 0, VarintSize(e)),
                Unless(wrong, CommandOf(a, b, c, d, e, zero)))
    BY <2>1, <2>2, WriteNumber
  <2> QED BY <1>e, <1>s, <2>3
<1>12. Written("Command", M, E6, S6, Unless(wrong, CommandOf(a, b, c, d, e, f)))
  <2>1. TakesNumber("Command", M, 48, f, CommandOf(a, b, c, d, e, zero),
                    CommandOf(a, b, c, d, e, f))
    <3>1. Turn("Command", CommandOf(a, b, c, d, e, zero), Field(48, f)) = {CommandOf(a, b, c,
            d, e, f)}
      BY <1>f0, CommandTurn48
    <3>2. f = 0 => CommandOf(a, b, c, d, e, f) = CommandOf(a, b, c, d, e, zero)
      BY <1>same
    <3>3. Field(48, f) \in Readable("Command", M)
      BY <1>f0, CommandReadable
    <3>5. 48 \in Nat /\ 48 # NodeInfoTag /\ 48 % 8 = 0
      BY DEF NodeInfoTag
    <3> HIDE DEF M
    <3> QED BY <1>f0, <3>1, <3>2, <3>3, <3>5 DEF TakesNumber
  <2> HIDE DEF M
  <2>2. Written("Command", M, E5, S5, Unless(wrong, CommandOf(a, b, c, d, e, zero)))
    BY <1>11
  <2>3. Written("Command", M, E5 \o Emit(48, f), S5 + SizeIf(f # 0, VarintSize(f)),
                Unless(wrong, CommandOf(a, b, c, d, e, f)))
    BY <2>1, <2>2, WriteNumber
  <2> QED BY <1>e, <1>s, <2>3
<1>13. Serialize(m) = E6
  BY <1>1, <1>2, <1>e DEF Serialize, SerializeCommand
<1>14. ByteSize(m) = S6
  BY <1>1, <1>2, <1>s DEF ByteSize, SizeCommand
<1>15. Strings(m) \cap NotUtf8 = wrong
  BY <1>1, <1>2, <1>6 DEF Strings
<1>16. Copy(m) = m
  <2>1. PICK q : q = CommandOf(zero, no, mt, zero, zero, zero)
    OBVIOUS
  <2>2. q.type = "Command"
    BY <2>1 DEF CommandOf
  <2>3. Copy(m) = MergeCommand(q, m)
    BY <1>2, <1>4, <2>1, <2>2 DEF Copy, MergeFrom
  <2>4. MergeCommand(CommandOf(zero, no, mt, zero, zero, zero), CommandOf(a, b, c, d, e, f))
          = CommandOf(OverNumber(zero, a), OverFlag(no, b), OverText(mt, c), OverNumber(zero,
                  d), OverNumber(zero, e), OverNumber(zero, f))
    BY CommandMerge
  <2> QED BY <1>2, <1>over, <2>1, <2>3, <2>4
<1> QED
  BY <1>2, <1>12, <1>13, <1>14, <1>15, <1>16, CommandUnusual, CommandReadable
  DEF Understood
-----------------------------------------------------------------------------
(* A File message, by its fields.                                          *)
FileOf(file_type, file_name, patch_len, file_size, first_patch, content, node_id) ==
  [type |-> "File", file_type |-> file_type, file_name |-> file_name, patch_len |-> patch_len,
          file_size |-> file_size, first_patch |-> first_patch, content |-> content,
                  node_id |-> node_id]

(* One turn of File::MergePartialFromCodedStream with file_type: it is     *)
(* stored and nothing else changes.                                        *)
LEMMA FileTurn8 ==
  ASSUME NEW a, NEW b, NEW c, NEW d, NEW e, NEW f, NEW g, NEW v
  PROVE  Turn("File", FileOf(a, b, c, d, e, f, g), Field(8, v)) = {FileOf(v, b, c, d, e, f, g)}
<1>1. PICK q, field : q = FileOf(a, b, c, d, e, f, g) /\ field = Field(8, v)
  OBVIOUS
<1>2. field.tag = 8 /\ field.val = v
  BY <1>1 DEF Field
<1>3. Turn("File", q, field) = Store(q, "file_type", ReadEnum(field))
  BY <1>2 DEF Turn, ParseFile
<1>4. With(q, "file_type", v) = FileOf(v, b, c, d, e, f, g)
  BY <1>1 DEF With, FileOf
<1> QED BY <1>1, <1>2, <1>3, <1>4, StoreBare

(* One turn of File::MergePartialFromCodedStream with file_name: it is     *)
(* stored and nothing else changes.                                        *)
LEMMA FileTurn18 ==
  ASSUME NEW a, NEW b, NEW c, NEW d, NEW e, NEW f, NEW g, NEW v
  PROVE  Turn("File", FileOf(a, b, c, d, e, f, g), Field(18, v)) = Unless({v} \cap NotUtf8,
            FileOf(a, v, c, d, e, f, g))
<1>1. PICK q, field : q = FileOf(a, b, c, d, e, f, g) /\ field = Field(18, v)
  OBVIOUS
<1>2. field.tag = 18 /\ field.val = v
  BY <1>1 DEF Field
<1>3. Turn("File", q, field) = Store(q, "file_name", ReadString(field))
  BY <1>2 DEF Turn, ParseFile
<1>4. With(q, "file_name", v) = FileOf(a, v, c, d, e, f, g)
  BY <1>1 DEF With, FileOf
<1> QED BY <1>1, <1>2, <1>3, <1>4, StoreText

(* One turn of File::MergePartialFromCodedStream with patch_len: it is     *)
(* stored and nothing else changes.                                        *)
LEMMA FileTurn24 ==
  ASSUME NEW a, NEW b, NEW c, NEW d, NEW e, NEW f, NEW g, NEW v \in UInt
  PROVE  Turn("File", FileOf(a, b, c, d, e, f, g), Field(24, v)) = {FileOf(a, b, v, d, e, f, g)}
<1>1. PICK q, field : q = FileOf(a, b, c, d, e, f, g) /\ field = Field(24, v)
  OBVIOUS
<1>2. field.tag = 24 /\ field.val = v
  BY <1>1 DEF Field
<1>3. Turn("File", q, field) = Store(q, "patch_len", ReadUInt32(field))
  BY <1>2 DEF Turn, ParseFile
<1>4. With(q, "patch_len", v) = FileOf(a, b, v, d, e, f, g)
  BY <1>1 DEF With, FileOf
<1> QED BY <1>1, <1>2, <1>3, <1>4, StoreNumber

(* One turn of File::MergePartialFromCodedStream with file_size: it is     *)
(* stored and nothing else changes.                                        *)
LEMMA FileTurn32 ==
  ASSUME NEW a, NEW b, NEW c, NEW d, NEW e, NEW f, NEW g, NEW v \in UInt
  PROVE  Turn("File", FileOf(a, b, c, d, e, f, g), Field(32, v)) = {FileOf(a, b, c, v, e, f, g)}
<1>1. PICK q, field : q = FileOf(a, b, c, d, e, f, g) /\ field = Field(32, v)
  OBVIOUS
<1>2. field.tag = 32 /\ field.val = v
  BY <1>1 DEF Field
<1>3. Turn("File", q, field) = Store(q, "file_size", ReadUInt32(field))
  BY <1>2 DEF Turn, ParseFile
<1>4. With(q, "file_size", v) = FileOf(a, b, c, v, e, f, g)
  BY <1>1 DEF With, FileOf
<1> QED BY <1>1, <1>2, <1>3, <1>4, StoreNumber

(* One turn of File::MergePartialFromCodedStream with first_patch: it is   *)
(* stored and nothing else changes.                                        *)
LEMMA FileTurn40 ==
  ASSUME NEW a, NEW b, NEW c, NEW d, NEW e, NEW f, NEW g, NEW v, ReadBool(Field(40, 1)) = {v}
  PROVE  Turn("File", FileOf(a, b, c, d, e, f, g), Field(40, 1)) = {FileOf(a, b, c, d, v, f, g)}
<1>1. PICK q, field : q = FileOf(a, b, c, d, e, f, g) /\ field = Field(40, 1)
  OBVIOUS
<1>2. field.tag = 40 /\ field.val = 1
  BY <1>1 DEF Field
<1>3. Turn("File", q, field) = Store(q, "first_patch", ReadBool(field))
  BY <1>2 DEF Turn, ParseFile
<1>4. With(q, "first_patch", v) = FileOf(a, b, c, d, v, f, g)
  BY <1>1 DEF With, FileOf
<1> QED BY <1>1, <1>2, <1>3, <1>4, StoreValue

(* One turn of File::MergePartialFromCodedStream with content: it is       *)
(* stored and nothing else changes.                                        *)
LEMMA FileTurn50 ==
  ASSUME NEW a, NEW b, NEW c, NEW d, NEW e, NEW f, NEW g, NEW v
  PROVE  Turn("File", FileOf(a, b, c, d, e, f, g), Field(50, v)) = {FileOf(a, b, c, d, e, v, g)}
<1>1. PICK q, field : q = FileOf(a, b, c, d, e, f, g) /\ field = Field(50, v)
  OBVIOUS
<1>2. field.tag = 50 /\ field.val = v
  BY <1>1 DEF Field
<1>3. Turn("File", q, field) = Store(q, "content", ReadBytes(field))
  BY <1>2 DEF Turn, ParseFile
<1>4. With(q, "content", v) = FileOf(a, b, c, d, e, v, g)
  BY <1>1 DEF With, FileOf
<1> QED BY <1>1, <1>2, <1>3, <1>4, StoreBare

(* One turn of File::MergePartialFromCodedStream with node_id: it is       *)
(* stored and nothing else changes.                                        *)
LEMMA FileTurn56 ==
  ASSUME NEW a, NEW b, NEW c, NEW d, NEW e, NEW f, NEW g, NEW v \in UInt
  PROVE  Turn("File", FileOf(a, b, c, d, e, f, g), Field(56, v)) = {FileOf(a, b, c, d, e, f, v)}
<1>1. PICK q, field : q = FileOf(a, b, c, d, e, f, g) /\ field = Field(56, v)
  OBVIOUS
<1>2. field.tag = 56 /\ field.val = v
  BY <1>1 DEF Field
<1>3. Turn("File", q, field) = Store(q, "node_id", ReadUInt32(field))
  BY <1>2 DEF Turn, ParseFile
<1>4. With(q, "node_id", v) = FileOf(a, b, c, d, e, f, v)
  BY <1>1 DEF With, FileOf
<1> QED BY <1>1, <1>2, <1>3, <1>4, StoreNumber

(* A field number File does not have is skipped; an end group makes        *)
(* reading fail.                                                           *)
LEMMA FileUnusual ==
  ASSUME NEW q
  PROVE  Turn("File", q, Unknown15) = {q} /\ Turn("File", q, Field(EndGroup, 0)) = {}
BY DEF Turn, ParseFile, Unusual, Unknown15, Field, EndGroup, WireType, InvalidTypes

(* A File with such fields is one.                                         *)
LEMMA FileMade ==
  \A a \in UInt, b \in STRING, c \in UInt, d \in UInt, e \in BOOLEAN, f \in STRING,
          g \in UInt : FileOf(a, b, c, d, e, f, g) \in FileMessage
BY DEF FileMessage, FileOf

(* The fields that File writes are fields it can read.                     *)
LEMMA FileReadable ==
  LET R == Readable("File", FileMessage)
  IN  /\ Unknown15 \in R /\ Field(EndGroup, 0) \in R
      /\ \A v \in UInt : Field(8, v) \in R
      /\ \A v \in STRING : Field(18, v) \in R
      /\ \A v \in UInt : Field(24, v) \in R
      /\ \A v \in UInt : Field(32, v) \in R
      /\ Field(40, 1) \in R
      /\ \A v \in STRING : Field(50, v) \in R
      /\ \A v \in UInt : Field(56, v) \in R
<1> DEFINE M == FileMessage
<1>1. ASSUME NEW q \in M
      PROVE  /\ Turn("File", q, Unknown15) \subseteq M
             /\ Turn("File", q, Field(EndGroup, 0)) \subseteq M
             /\ \A v \in UInt : Turn("File", q, Field(8, v)) \subseteq M
             /\ \A v \in STRING : Turn("File", q, Field(18, v)) \subseteq M
             /\ \A v \in UInt : Turn("File", q, Field(24, v)) \subseteq M
             /\ \A v \in UInt : Turn("File", q, Field(32, v)) \subseteq M
             /\ Turn("File", q, Field(40, 1)) \subseteq M
             /\ \A v \in STRING : Turn("File", q, Field(50, v)) \subseteq M
             /\ \A v \in UInt : Turn("File", q, Field(56, v)) \subseteq M
  <2>1. PICK a \in UInt, b \in STRING, c \in UInt, d \in UInt, e \in BOOLEAN, f \in STRING,
          g \in UInt : q = FileOf(a, b, c, d, e, f, g)
    BY DEF FileMessage, FileOf
  <2>2. \A a1 \in UInt, b1 \in STRING, c1 \in UInt, d1 \in UInt, e1 \in BOOLEAN, f1 \in STRING,
          g1 \in UInt : FileOf(a1, b1, c1, d1, e1, f1, g1) \in M
    BY FileMade
  <2>3. ASSUME NEW v \in UInt PROVE Turn("File", q, Field(8, v)) \subseteq M
    <3>1. Turn("File", FileOf(a, b, c, d, e, f, g), Field(8, v)) = {FileOf(v, b, c, d, e, f, g)}
      BY FileTurn8
    <3> QED BY <2>1, <2>2, <3>1
  <2>4. ASSUME NEW v \in STRING PROVE Turn("File", q, Field(18, v)) \subseteq M
    <3>1. Turn("File", FileOf(a, b, c, d, e, f, g), Field(18, v)) = Unless({v} \cap NotUtf8,
            FileOf(a, v, c, d, e, f, g))
      BY FileTurn18
    <3> QED BY <2>1, <2>2, <3>1 DEF Unless
  <2>5. ASSUME NEW v \in UInt PROVE Turn("File", q, Field(24, v)) \subseteq M
    <3>1. Turn("File", FileOf(a, b, c, d, e, f, g), Field(24, v)) = {FileOf(a, b, v, d, e, f,
            g)}
      BY FileTurn24
    <3> QED BY <2>1, <2>2, <3>1
  <2>6. ASSUME NEW v \in UInt PROVE Turn("File", q, Field(32, v)) \subseteq M
    <3>1. Turn("File", FileOf(a, b, c, d, e, f, g), Field(32, v)) = {FileOf(a, b, c, v, e, f,
            g)}
      BY FileTurn32
    <3> QED BY <2>1, <2>2, <3>1
  <2>7. Turn("File", q, Field(40, 1)) \subseteq M
    <3>1. PICK v \in BOOLEAN : ReadBool(Field(40, 1)) = {v}
      BY ReadFlag
    <3>2. Turn("File", FileOf(a, b, c, d, e, f, g), Field(40, 1)) = {FileOf(a, b, c, d, v, f,
            g)}
      BY <3>1, FileTurn40
    <3> QED BY <2>1, <2>2, <3>2
  <2>8. ASSUME NEW v \in STRING PROVE Turn("File", q, Field(50, v)) \subseteq M
    <3>1. Turn("File", FileOf(a, b, c, d, e, f, g), Field(50, v)) = {FileOf(a, b, c, d, e, v,
            g)}
      BY FileTurn50
    <3> QED BY <2>1, <2>2, <3>1
  <2>9. ASSUME NEW v \in UInt PROVE Turn("File", q, Field(56, v)) \subseteq M
    <3>1. Turn("File", FileOf(a, b, c, d, e, f, g), Field(56, v)) = {FileOf(a, b, c, d, e, f,
            v)}
      BY FileTurn56
    <3> QED BY <2>1, <2>2, <3>1
  <2> QED BY <2>3, <2>4, <2>5, <2>6, <2>7, <2>8, <2>9, FileUnusual
<1>2. \A n \in Nat : /\ \A v \in UInt : Field(n, v) \in AnyField
                     /\ \A v \in STRING : Field(n, v) \in AnyField
  BY ReadNumber DEF Field, AnyField
<1>3. /\ Unknown15 \in AnyField /\ Field(EndGroup, 0) \in AnyField
      /\ \A n \in Nat : Field(n, 1) \in AnyField
  BY DEF Field, AnyField, Unknown15, EndGroup
<1> QED BY <1>1, <1>2, <1>3 DEF Readable

(* MergeFrom takes over, field by field, what is not the default           *)
(* (lkpProto.pb.cc:1311-1339).                                             *)
LEMMA FileMerge ==
  ASSUME NEW a, NEW b, NEW c, NEW d, NEW e, NEW f, NEW g, NEW t, NEW u, NEW v, NEW w, NEW x,
          NEW y, NEW z
  PROVE  MergeFile(FileOf(a, b, c, d, e, f, g), FileOf(t, u, v, w, x, y, z))
           = FileOf(OverNumber(a, t), OverText(b, u), OverNumber(c, v), OverNumber(d, w),
                   OverFlag(e, x), OverText(f, y), OverNumber(g, z))
<1> DEFINE Only(t0, u0, v0, w0, x0, y0, z0) == [type : {"File"}, file_type : {t0}, file_name :
        {u0}, patch_len : {v0}, file_size : {w0}, first_patch : {x0}, content : {y0}, node_id :
                {z0}]
<1>1. PICK p, q : p = FileOf(a, b, c, d, e, f, g) /\ q = FileOf(t, u, v, w, x, y, z)
  OBVIOUS
<1>2. PICK t1, u1, v1, w1, x1, y1, z1 :
        /\ t1 = Over(p.file_type, q.file_type, 0)
        /\ u1 = Over(p.file_name, q.file_name, "")
        /\ v1 = Over(p.patch_len, q.patch_len, 0)
        /\ w1 = Over(p.file_size, q.file_size, 0)
        /\ x1 = Over(p.first_patch, q.first_patch, FALSE)
        /\ y1 = Over(p.content, q.content, "")
        /\ z1 = Over(p.node_id, q.node_id, 0)
  OBVIOUS
<1>3. MergeFile(p, q) = [p EXCEPT !.file_type = t1, !.file_name = u1, !.patch_len = v1,
        !.file_size = w1, !.first_patch = x1, !.content = y1, !.node_id = z1]
  BY <1>2 DEF MergeFile
<1>4. [p EXCEPT !.file_type = t1, !.file_name = u1, !.patch_len = v1, !.file_size = w1,
        !.first_patch = x1, !.content = y1, !.node_id = z1] = FileOf(t1, u1, v1, w1, x1, y1, z1)
  <2>1. p \in Only(a, b, c, d, e, f, g)
    BY <1>1 DEF FileOf
  <2>2. [p EXCEPT !.file_type = t1, !.file_name = u1, !.patch_len = v1, !.file_size = w1,
          !.first_patch = x1, !.content = y1, !.node_id = z1] \in Only(t1, u1, v1, w1, x1, y1,
                  z1)
    BY <2>1
  <2>3. PICK r : r = [p EXCEPT !.file_type = t1, !.file_name = u1, !.patch_len = v1,
          !.file_size = w1, !.first_patch = x1, !.content = y1, !.node_id = z1]
    OBVIOUS
  <2>4. r \in Only(t1, u1, v1, w1, x1, y1, z1)
    BY <2>2, <2>3
  <2>5. r = FileOf(t1, u1, v1, w1, x1, y1, z1)
    BY <2>4 DEF FileOf
  <2> QED BY <2>3, <2>5
<1>5. /\ p.file_type = a /\ p.file_name = b /\ p.patch_len = c /\ p.file_size = d
        /\ p.first_patch = e /\ p.content = f /\ p.node_id = g
      /\ q.file_type = t /\ q.file_name = u /\ q.patch_len = v /\ q.file_size = w
                /\ q.first_patch = x /\ q.content = y /\ q.node_id = z
  BY <1>1 DEF FileOf
<1> QED BY <1>1, <1>2, <1>3, <1>4, <1>5 DEF OverFlag, OverText, OverNumber

(* Every File is understood: serialized field by field, measured and read  *)
(* back (lkpProto.pb.cc:1139-1236, 1238-1292, 1003-1137).                  *)
LEMMA FileUnderstood ==
  ASSUME NEW m \in FileMessage, StringSize(m.file_name) \in Nat, StringSize(m.content) \in Nat
  PROVE  Understood(FileMessage, m)
<1> DEFINE M == FileMessage
<1>1. PICK a, b, c, d, e, f, g :
        /\ a = m.file_type /\ b = m.file_name /\ c = m.patch_len /\ d = m.file_size /\ e
                  = m.first_patch /\ f = m.content /\ g = m.node_id
        /\ a \in UInt /\ b \in STRING /\ c \in UInt /\ d \in UInt /\ e \in BOOLEAN
                  /\ f \in STRING /\ g \in UInt
  BY DEF FileMessage
<1>a0. a \in UInt
  BY <1>1
<1>b0. b \in STRING
  BY <1>1
<1>c0. c \in UInt
  BY <1>1
<1>d0. d \in UInt
  BY <1>1
<1>e0. e \in BOOLEAN
  BY <1>1
<1>f0. f \in STRING
  BY <1>1
<1>g0. g \in UInt
  BY <1>1
<1>2. m = FileOf(a, b, c, d, e, f, g) /\ m.type = "File"
  BY <1>1 DEF FileMessage, FileOf
<1>3. PICK no, mt, zero : no = FALSE /\ mt = "" /\ zero = 0
  OBVIOUS
<1>4. New("File") = FileOf(zero, mt, zero, zero, no, mt, zero)
  BY <1>3, NewOfType DEF NewFile, FileOf
<1>defaults. no \in BOOLEAN /\ mt \in STRING /\ zero \in UInt
  BY <1>3, ZeroFits, ProtoAssumption
<1>same. \A v : (v = FALSE => v = no) /\ (v = "" => v = mt) /\ (v = 0 => v = zero)
  BY <1>3
<1>over. OverFlag(no, e) = e /\ \A v : OverText(mt, v) = v /\ OverNumber(zero, v) = v
  BY <1>3, <1>e0 DEF Over, OverFlag, OverText, OverNumber
<1>5. FileOf(zero, mt, zero, zero, no, mt, zero) \in M
  BY <1>defaults, FileMade
<1>6. PICK none, wrong : none = {} /\ wrong = {b} \cap NotUtf8
  OBVIOUS
<1>e. PICK E0, E1, E2, E3, E4, E5, E6, E7 :
        /\ E0 = <<>> /\ E1 = Emit(8, a)
        /\ E2 = E1 \o EmitString(18, b)
        /\ E3 = E2 \o Emit(24, c)
        /\ E4 = E3 \o Emit(32, d)
        /\ E5 = E4 \o EmitBool(40, e)
        /\ E6 = E5 \o EmitString(50, f)
        /\ E7 = E6 \o Emit(56, g)
  OBVIOUS
<1>t. PICK S0, S1, S2, S3, S4 :
        /\ S0 = 0 /\ S1 = SizeIf(a # 0, VarintSize(a))
        /\ S2 = S1 + SizeIf(b # "", StringSize(b))
        /\ S3 = S2 + SizeIf(c # 0, VarintSize(c))
        /\ S4 = S3 + SizeIf(d # 0, VarintSize(d))
  OBVIOUS
<1>s. PICK S5, S6, S7 :
        /\ S0 = 0 /\ S1 = SizeIf(a # 0, VarintSize(a))
        /\ S2 = S1 + SizeIf(b # "", StringSize(b))
        /\ S3 = S2 + SizeIf(c # 0, VarintSize(c))
        /\ S4 = S3 + SizeIf(d # 0, VarintSize(d))
        /\ S5 = S4 + SizeIf(e, 1)
        /\ S6 = S5 + SizeIf(f # "", StringSize(f))
        /\ S7 = S6 + SizeIf(g # 0, VarintSize(g))
  BY <1>t
<1>7. Written("File", M, E1, S1, Unless(none, FileOf(a, mt, zero, zero, no, mt, zero)))
  <2>1. TakesNumber("File", M, 8, a, FileOf(zero, mt, zero, zero, no, mt, zero),
                    FileOf(a, mt, zero, zero, no, mt, zero))
    <3>1. Turn("File", FileOf(zero, mt, zero, zero, no, mt, zero), Field(8, a)) = {FileOf(a,
            mt, zero, zero, no, mt, zero)}
      BY <1>a0, FileTurn8
    <3>2. a = 0 => FileOf(a, mt, zero, zero, no, mt, zero) = FileOf(zero, mt, zero, zero, no,
            mt, zero)
      BY <1>same
    <3>3. Field(8, a) \in Readable("File", M)
      BY <1>a0, FileReadable
    <3>5. 8 \in Nat /\ 8 # NodeInfoTag /\ 8 % 8 = 0
      BY DEF NodeInfoTag
    <3> HIDE DEF M
    <3> QED BY <1>a0, <3>1, <3>2, <3>3, <3>5 DEF TakesNumber
  <2> HIDE DEF M
  <2>2. Written("File", M, E0, S0, Unless(none, FileOf(zero, mt, zero, zero, no, mt, zero)))
    BY <1>4, <1>5, <1>6, <1>e, <1>s, StartWritten
  <2>3. Written("File", M, E0 \o Emit(8, a), S0 + SizeIf(a # 0, VarintSize(a)),
                Unless(none, FileOf(a, mt, zero, zero, no, mt, zero)))
    BY <2>1, <2>2, WriteNumber
  <2> QED BY <1>e, <1>s, <2>3, <1>a0, Emitted, EmittedBool, FirstWritten
<1>8. Written("File", M, E2, S2, Unless(wrong, FileOf(a, b, zero, zero, no, mt, zero)))
  <2>1. TakesText("File", M, 18, b, FileOf(a, mt, zero, zero, no, mt, zero),
                    FileOf(a, b, zero, zero, no, mt, zero), wrong)
    <3>1. Turn("File", FileOf(a, mt, zero, zero, no, mt, zero), Field(18, b))
            = Unless(wrong, FileOf(a, b, zero, zero, no, mt, zero))
      <4>1. Turn("File", FileOf(a, mt, zero, zero, no, mt, zero), Field(18, b))
              = Unless({b} \cap NotUtf8, FileOf(a, b, zero, zero, no, mt, zero))
        BY FileTurn18
      <4> QED BY <1>6, <4>1
    <3>2. b = "" => FileOf(a, b, zero, zero, no, mt, zero) = FileOf(a, mt, zero, zero, no, mt,
            zero) /\ wrong = {}
      BY <1>same, <1>6, ProtoAssumption
    <3>3. Field(18, b) \in Readable("File", M)
      BY <1>b0, FileReadable
    <3>4. StringSize(b) \in Nat
      BY <1>1
    <3>5. 18 \in Nat /\ 18 # NodeInfoTag /\ 18 % 8 # 0
      BY DEF NodeInfoTag
    <3> HIDE DEF M
    <3> QED BY <3>4, <3>1, <3>2, <3>3, <3>5 DEF TakesText
  <2> HIDE DEF M
  <2>2. Written("File", M, E1, S1, Unless(none, FileOf(a, mt, zero, zero, no, mt, zero)))
    BY <1>7
  <2>3. Written("File", M, E1 \o EmitString(18, b), S1 + SizeIf(b # "", StringSize(b)),
                Unless(none \cup wrong, FileOf(a, b, zero, zero, no, mt, zero)))
    BY <2>1, <2>2, WriteText
  <2>4. none \cup wrong = wrong
    BY <1>6
  <2> QED BY <1>e, <1>s, <2>3, <2>4
<1>9. Written("File", M, E3, S3, Unless(wrong, FileOf(a, b, c, zero, no, mt, zero)))
  <2>1. TakesNumber("File", M, 24, c, FileOf(a, b, zero, zero, no, mt, zero),
                    FileOf(a, b, c, zero, no, mt, zero))
    <3>1. Turn("File", FileOf(a, b, zero, zero, no, mt, zero), Field(24, c)) = {FileOf(a, b, c,
            zero, no, mt, zero)}
      BY <1>c0, FileTurn24
    <3>2. c = 0 => FileOf(a, b, c, zero, no, mt, zero) = FileOf(a, b, zero, zero, no, mt, zero)
      BY <1>same
    <3>3. Field(24, c) \in Readable("File", M)
      BY <1>c0, FileReadable
    <3>5. 24 \in Nat /\ 24 # NodeInfoTag /\ 24 % 8 = 0
      BY DEF NodeInfoTag
    <3> HIDE DEF M
    <3> QED BY <1>c0, <3>1, <3>2, <3>3, <3>5 DEF TakesNumber
  <2> HIDE DEF M
  <2>2. Written("File", M, E2, S2, Unless(wrong, FileOf(a, b, zero, zero, no, mt, zero)))
    BY <1>8
  <2>3. Written("File", M, E2 \o Emit(24, c), S2 + SizeIf(c # 0, VarintSize(c)),
                Unless(wrong, FileOf(a, b, c, zero, no, mt, zero)))
    BY <2>1, <2>2, WriteNumber
  <2> QED BY <1>e, <1>s, <2>3
<1>10. Written("File", M, E4, S4, Unless(wrong, FileOf(a, b, c, d, no, mt, zero)))
  <2>1. TakesNumber("File", M, 32, d, FileOf(a, b, c, zero, no, mt, zero),
                    FileOf(a, b, c, d, no, mt, zero))
    <3>1. Turn("File", FileOf(a, b, c, zero, no, mt, zero), Field(32, d)) = {FileOf(a, b, c, d,
            no, mt, zero)}
      BY <1>d0, FileTurn32
    <3>2. d = 0 => FileOf(a, b, c, d, no, mt, zero) = FileOf(a, b, c, zero, no, mt, zero)
      BY <1>same
    <3>3. Field(32, d) \in Readable("File", M)
      BY <1>d0, FileReadable
    <3>5. 32 \in Nat /\ 32 # NodeInfoTag /\ 32 % 8 = 0
      BY DEF NodeInfoTag
    <3> HIDE DEF M
    <3> QED BY <1>d0, <3>1, <3>2, <3>3, <3>5 DEF TakesNumber
  <2> HIDE DEF M
  <2>2. Written("File", M, E3, S3, Unless(wrong, FileOf(a, b, c, zero, no, mt, zero)))
    BY <1>9
  <2>3. Written("File", M, E3 \o Emit(32, d), S3 + SizeIf(d # 0, VarintSize(d)),
                Unless(wrong, FileOf(a, b, c, d, no, mt, zero)))
    BY <2>1, <2>2, WriteNumber
  <2> QED BY <1>e, <1>s, <2>3
<1>11. Written("File", M, E5, S5, Unless(wrong, FileOf(a, b, c, d, e, mt, zero)))
  <2>1. TakesFlag("File", M, 40, e, FileOf(a, b, c, d, no, mt, zero),
                    FileOf(a, b, c, d, e, mt, zero))
    <3>1. ReadBool(Field(40, 1)) = {e} => Turn("File", FileOf(a, b, c, d, no, mt, zero),
            Field(40, 1))
                                       = {FileOf(a, b, c, d, e, mt, zero)}
      <4> SUFFICES ASSUME ReadBool(Field(40, 1)) = {e}
                   PROVE  Turn("File", FileOf(a, b, c, d, no, mt, zero), Field(40, 1))
                             = {FileOf(a, b, c, d, e, mt, zero)}
        OBVIOUS
      <4> QED BY FileTurn40
    <3>2. e = FALSE => FileOf(a, b, c, d, e, mt, zero) = FileOf(a, b, c, d, no, mt, zero)
      BY <1>same
    <3>3. Field(40, 1) \in Readable("File", M)
      BY <1>e0, FileReadable
    <3>5. 40 \in Nat /\ 40 # NodeInfoTag /\ 40 % 8 = 0
      BY DEF NodeInfoTag
    <3> HIDE DEF M
    <3> QED BY <1>e0, <3>1, <3>2, <3>3, <3>5 DEF TakesFlag
  <2> HIDE DEF M
  <2>2. Written("File", M, E4, S4, Unless(wrong, FileOf(a, b, c, d, no, mt, zero)))
    BY <1>10
  <2>3. Written("File", M, E4 \o EmitBool(40, e), S4 + SizeIf(e, 1),
                Unless(wrong, FileOf(a, b, c, d, e, mt, zero)))
    BY <2>1, <2>2, WriteFlag
  <2> QED BY <1>e, <1>s, <2>3
<1>12. Written("File", M, E6, S6, Unless(wrong, FileOf(a, b, c, d, e, f, zero)))
  <2>1. TakesText("File", M, 50, f, FileOf(a, b, c, d, e, mt, zero),
                    FileOf(a, b, c, d, e, f, zero), none)
    <3>1. Turn("File", FileOf(a, b, c, d, e, mt, zero), Field(50, f)) = Unless(none, FileOf(a,
            b, c, d, e, f, zero))
      BY <1>6, FileTurn50 DEF Unless
    <3>2. f = "" => FileOf(a, b, c, d, e, f, zero) = FileOf(a, b, c, d, e, mt, zero) /\ none
            = {}
      BY <1>same, <1>6
    <3>3. Field(50, f) \in Readable("File", M)
      BY <1>f0, FileReadable
    <3>4. StringSize(f) \in Nat
      BY <1>1
    <3>5. 50 \in Nat /\ 50 # NodeInfoTag /\ 50 % 8 # 0
      BY DEF NodeInfoTag
    <3> HIDE DEF M
    <3> QED BY <3>4, <3>1, <3>2, <3>3, <3>5 DEF TakesText
  <2> HIDE DEF M
  <2>2. Written("File", M, E5, S5, Unless(wrong, FileOf(a, b, c, d, e, mt, zero)))
    BY <1>11
  <2>3. Written("File", M, E5 \o EmitString(50, f), S5 + SizeIf(f # "", StringSize(f)),
                Unless(wrong \cup none, FileOf(a, b, c, d, e, f, zero)))
    BY <2>1, <2>2, WriteText
  <2>4. wrong \cup none = wrong
    BY <1>6
  <2> QED BY <1>e, <1>s, <2>3, <2>4, ZenonT(30)
<1>13. Written("File", M, E7, S7, Unless(wrong, FileOf(a, b, c, d, e, f, g)))
  <2>1. TakesNumber("File", M, 56, g, FileOf(a, b, c, d, e, f, zero),
                    FileOf(a, b, c, d, e, f, g))
    <3>1. Turn("File", FileOf(a, b, c, d, e, f, zero), Field(56, g)) = {FileOf(a, b, c, d, e,
            f, g)}
      BY <1>g0, FileTurn56
    <3>2. g = 0 => FileOf(a, b, c, d, e, f, g) = FileOf(a, b, c, d, e, f, zero)
      BY <1>same
    <3>3. Field(56, g) \in Readable("File", M)
      BY <1>g0, FileReadable
    <3>5. 56 \in Nat /\ 56 # NodeInfoTag /\ 56 % 8 = 0
      BY DEF NodeInfoTag
    <3> HIDE DEF M
    <3> QED BY <1>g0, <3>1, <3>2, <3>3, <3>5 DEF TakesNumber
  <2> HIDE DEF M
  <2>2. Written("File", M, E6, S6, Unless(wrong, FileOf(a, b, c, d, e, f, zero)))
    BY <1>12
  <2>3. Written("File", M, E6 \o Emit(56, g), S6 + SizeIf(g # 0, VarintSize(g)),
                Unless(wrong, FileOf(a, b, c, d, e, f, g)))
    BY <2>1, <2>2, WriteNumber
  <2> QED BY <1>e, <1>s, <2>3
<1>14. Serialize(m) = E7
  BY <1>1, <1>2, <1>e DEF Serialize, SerializeFile
<1>15. ByteSize(m) = S7
  BY <1>1, <1>2, <1>s DEF ByteSize, SizeFile
<1>16. Strings(m) \cap NotUtf8 = wrong
  BY <1>1, <1>2, <1>6 DEF Strings
<1>17. Copy(m) = m
  <2>1. PICK q : q = FileOf(zero, mt, zero, zero, no, mt, zero)
    OBVIOUS
  <2>2. q.type = "File"
    BY <2>1 DEF FileOf
  <2>3. Copy(m) = MergeFile(q, m)
    BY <1>2, <1>4, <2>1, <2>2 DEF Copy, MergeFrom
  <2>4. MergeFile(FileOf(zero, mt, zero, zero, no, mt, zero), FileOf(a, b, c, d, e, f, g))
          = FileOf(OverNumber(zero, a), OverText(mt, b), OverNumber(zero, c), OverNumber(zero,
                  d), OverFlag(no, e), OverText(mt, f), OverNumber(zero, g))
    BY FileMerge
  <2> QED BY <1>2, <1>over, <2>1, <2>3, <2>4
<1> QED
  BY <1>2, <1>13, <1>14, <1>15, <1>16, <1>17, FileUnusual, FileReadable
  DEF Understood
-----------------------------------------------------------------------------
(* A NodeInfo message, by its fields.                                      *)
NodeInfoOf(node_id, node_msg) ==
  [type |-> "NodeInfo", node_id |-> node_id, node_msg |-> node_msg]

(* One turn of NodeInfo::MergePartialFromCodedStream with node_id: it is   *)
(* stored and nothing else changes.                                        *)
LEMMA NodeInfoTurn8 ==
  ASSUME NEW a, NEW b, NEW v \in UInt
  PROVE  Turn("NodeInfo", NodeInfoOf(a, b), Field(8, v)) = {NodeInfoOf(v, b)}
<1>1. PICK q, field : q = NodeInfoOf(a, b) /\ field = Field(8, v)
  OBVIOUS
<1>2. field.tag = 8 /\ field.val = v
  BY <1>1 DEF Field
<1>3. Turn("NodeInfo", q, field) = Store(q, "node_id", ReadUInt32(field))
  BY <1>2 DEF Turn, ParseNodeInfo
<1>4. With(q, "node_id", v) = NodeInfoOf(v, b)
  BY <1>1 DEF With, NodeInfoOf
<1> QED BY <1>1, <1>2, <1>3, <1>4, StoreNumber

(* One turn of NodeInfo::MergePartialFromCodedStream with node_msg: it is  *)
(* stored and nothing else changes.                                        *)
LEMMA NodeInfoTurn18 ==
  ASSUME NEW a, NEW b, NEW v
  PROVE  Turn("NodeInfo", NodeInfoOf(a, b), Field(18, v)) = Unless({v} \cap NotUtf8,
            NodeInfoOf(a, v))
<1>1. PICK q, field : q = NodeInfoOf(a, b) /\ field = Field(18, v)
  OBVIOUS
<1>2. field.tag = 18 /\ field.val = v
  BY <1>1 DEF Field
<1>3. Turn("NodeInfo", q, field) = Store(q, "node_msg", ReadString(field))
  BY <1>2 DEF Turn, ParseNodeInfo
<1>4. With(q, "node_msg", v) = NodeInfoOf(a, v)
  BY <1>1 DEF With, NodeInfoOf
<1> QED BY <1>1, <1>2, <1>3, <1>4, StoreText

(* A field number NodeInfo does not have is skipped; an end group makes    *)
(* reading fail.                                                           *)
LEMMA NodeInfoUnusual ==
  ASSUME NEW q
  PROVE  Turn("NodeInfo", q, Unknown15) = {q} /\ Turn("NodeInfo", q, Field(EndGroup, 0)) = {}
BY DEF Turn, ParseNodeInfo, Unusual, Unknown15, Field, EndGroup, WireType, InvalidTypes

(* A NodeInfo with such fields is one.                                     *)
LEMMA NodeInfoMade ==
  \A a \in UInt, b \in STRING : NodeInfoOf(a, b) \in NodeInfoMessage
BY DEF NodeInfoMessage, NodeInfoOf

(* The fields that NodeInfo writes are fields it can read.                 *)
LEMMA NodeInfoReadable ==
  LET R == Readable("NodeInfo", NodeInfoMessage)
  IN  /\ Unknown15 \in R /\ Field(EndGroup, 0) \in R
      /\ \A v \in UInt : Field(8, v) \in R
      /\ \A v \in STRING : Field(18, v) \in R
<1> DEFINE M == NodeInfoMessage
<1>1. ASSUME NEW q \in M
      PROVE  /\ Turn("NodeInfo", q, Unknown15) \subseteq M /\ Turn("NodeInfo", q,
                Field(EndGroup, 0)) \subseteq M
             /\ \A v \in UInt : Turn("NodeInfo", q, Field(8, v)) \subseteq M
             /\ \A v \in STRING : Turn("NodeInfo", q, Field(18, v)) \subseteq M
  <2>1. PICK a \in UInt, b \in STRING : q = NodeInfoOf(a, b)
    BY DEF NodeInfoMessage, NodeInfoOf
  <2>2. \A a1 \in UInt, b1 \in STRING : NodeInfoOf(a1, b1) \in M
    BY NodeInfoMade
  <2>3. ASSUME NEW v \in UInt PROVE Turn("NodeInfo", q, Field(8, v)) \subseteq M
    <3>1. Turn("NodeInfo", NodeInfoOf(a, b), Field(8, v)) = {NodeInfoOf(v, b)}
      BY NodeInfoTurn8
    <3> QED BY <2>1, <2>2, <3>1
  <2>4. ASSUME NEW v \in STRING PROVE Turn("NodeInfo", q, Field(18, v)) \subseteq M
    <3>1. Turn("NodeInfo", NodeInfoOf(a, b), Field(18, v)) = Unless({v} \cap NotUtf8,
            NodeInfoOf(a, v))
      BY NodeInfoTurn18
    <3> QED BY <2>1, <2>2, <3>1 DEF Unless
  <2> QED BY <2>3, <2>4, NodeInfoUnusual
<1>2. \A n \in Nat : /\ \A v \in UInt : Field(n, v) \in AnyField
                     /\ \A v \in STRING : Field(n, v) \in AnyField
  BY ReadNumber DEF Field, AnyField
<1>3. /\ Unknown15 \in AnyField /\ Field(EndGroup, 0) \in AnyField
      /\ \A n \in Nat : Field(n, 1) \in AnyField
  BY DEF Field, AnyField, Unknown15, EndGroup
<1> QED BY <1>1, <1>2, <1>3 DEF Readable

(* MergeFrom takes over, field by field, what is not the default           *)
(* (lkpProto.pb.cc:2874-2886).                                             *)
LEMMA NodeInfoMerge ==
  ASSUME NEW a, NEW b, NEW t, NEW u
  PROVE  MergeNodeInfo(NodeInfoOf(a, b), NodeInfoOf(t, u))
           = NodeInfoOf(OverNumber(a, t), OverText(b, u))
<1> DEFINE Only(t0, u0) == [type : {"NodeInfo"}, node_id : {t0}, node_msg : {u0}]
<1>1. PICK p, q : p = NodeInfoOf(a, b) /\ q = NodeInfoOf(t, u)
  OBVIOUS
<1>2. PICK t1, u1 :
        /\ t1 = Over(p.node_id, q.node_id, 0)
        /\ u1 = Over(p.node_msg, q.node_msg, "")
  OBVIOUS
<1>3. MergeNodeInfo(p, q) = [p EXCEPT !.node_id = t1, !.node_msg = u1]
  BY <1>2 DEF MergeNodeInfo
<1>4. [p EXCEPT !.node_id = t1, !.node_msg = u1] = NodeInfoOf(t1, u1)
  <2>1. p \in Only(a, b)
    BY <1>1 DEF NodeInfoOf
  <2>2. [p EXCEPT !.node_id = t1, !.node_msg = u1] \in Only(t1, u1)
    BY <2>1
  <2>3. PICK r : r = [p EXCEPT !.node_id = t1, !.node_msg = u1]
    OBVIOUS
  <2>4. r \in Only(t1, u1)
    BY <2>2, <2>3
  <2>5. r = NodeInfoOf(t1, u1)
    BY <2>4 DEF NodeInfoOf
  <2> QED BY <2>3, <2>5
<1>5. /\ p.node_id = a /\ p.node_msg = b
      /\ q.node_id = t /\ q.node_msg = u
  BY <1>1 DEF NodeInfoOf
<1> QED BY <1>1, <1>2, <1>3, <1>4, <1>5 DEF OverFlag, OverText, OverNumber

(* Every NodeInfo is understood: serialized field by field, measured and   *)
(* read back (lkpProto.pb.cc:2789-2831, 2833-2855, 2727-2787).             *)
LEMMA NodeInfoWritten ==
  ASSUME NEW m \in NodeInfoMessage, StringSize(m.node_msg) \in Nat
  PROVE  Written("NodeInfo", NodeInfoMessage, SerializeNodeInfo(m), SizeNodeInfo(m),
                 Unless({m.node_msg} \cap NotUtf8, m))
<1> DEFINE M == NodeInfoMessage
<1>1. PICK a, b :
        /\ a = m.node_id /\ b = m.node_msg
        /\ a \in UInt /\ b \in STRING
  BY DEF NodeInfoMessage
<1>a0. a \in UInt
  BY <1>1
<1>b0. b \in STRING
  BY <1>1
<1>2. m = NodeInfoOf(a, b) /\ m.type = "NodeInfo"
  BY <1>1 DEF NodeInfoMessage, NodeInfoOf
<1>3. PICK no, mt, zero : no = FALSE /\ mt = "" /\ zero = 0
  OBVIOUS
<1>4. New("NodeInfo") = NodeInfoOf(zero, mt)
  BY <1>3, NewOfType DEF NewNodeInfo, NodeInfoOf
<1>defaults. no \in BOOLEAN /\ mt \in STRING /\ zero \in UInt
  BY <1>3, ZeroFits, ProtoAssumption
<1>same. \A v : (v = FALSE => v = no) /\ (v = "" => v = mt) /\ (v = 0 => v = zero)
  BY <1>3
<1>over. \A v : OverText(mt, v) = v /\ OverNumber(zero, v) = v
  BY <1>3 DEF Over, OverFlag, OverText, OverNumber
<1>5. NodeInfoOf(zero, mt) \in M
  BY <1>defaults, NodeInfoMade
<1>6. PICK none, wrong : none = {} /\ wrong = {b} \cap NotUtf8
  OBVIOUS
<1>e. PICK E0, E1, E2 :
        /\ E0 = <<>> /\ E1 = Emit(8, a)
        /\ E2 = E1 \o EmitString(18, b)
  OBVIOUS
<1>s. PICK S0, S1, S2 :
        /\ S0 = 0 /\ S1 = SizeIf(a # 0, VarintSize(a))
        /\ S2 = S1 + SizeIf(b # "", StringSize(b))
  OBVIOUS
<1>7. Written("NodeInfo", M, E1, S1, Unless(none, NodeInfoOf(a, mt)))
  <2>1. TakesNumber("NodeInfo", M, 8, a, NodeInfoOf(zero, mt),
                    NodeInfoOf(a, mt))
    <3>1. Turn("NodeInfo", NodeInfoOf(zero, mt), Field(8, a)) = {NodeInfoOf(a, mt)}
      BY <1>a0, NodeInfoTurn8
    <3>2. a = 0 => NodeInfoOf(a, mt) = NodeInfoOf(zero, mt)
      BY <1>same
    <3>3. Field(8, a) \in Readable("NodeInfo", M)
      BY <1>a0, NodeInfoReadable
    <3>5. 8 \in Nat /\ 8 # NodeInfoTag /\ 8 % 8 = 0
      BY DEF NodeInfoTag
    <3> HIDE DEF M
    <3> QED BY <1>a0, <3>1, <3>2, <3>3, <3>5 DEF TakesNumber
  <2> HIDE DEF M
  <2>2. Written("NodeInfo", M, E0, S0, Unless(none, NodeInfoOf(zero, mt)))
    BY <1>4, <1>5, <1>6, <1>e, <1>s, StartWritten
  <2>3. Written("NodeInfo", M, E0 \o Emit(8, a), S0 + SizeIf(a # 0, VarintSize(a)),
                Unless(none, NodeInfoOf(a, mt)))
    BY <2>1, <2>2, WriteNumber
  <2> QED BY <1>e, <1>s, <2>3, <1>a0, Emitted, EmittedBool, FirstWritten
<1>8. Written("NodeInfo", M, E2, S2, Unless(wrong, NodeInfoOf(a, b)))
  <2>1. TakesText("NodeInfo", M, 18, b, NodeInfoOf(a, mt),
                    NodeInfoOf(a, b), wrong)
    <3>1. Turn("NodeInfo", NodeInfoOf(a, mt), Field(18, b))
            = Unless(wrong, NodeInfoOf(a, b))
      <4>1. Turn("NodeInfo", NodeInfoOf(a, mt), Field(18, b)) = Unless({b} \cap NotUtf8,
              NodeInfoOf(a, b))
        BY NodeInfoTurn18
      <4> QED BY <1>6, <4>1
    <3>2. b = "" => NodeInfoOf(a, b) = NodeInfoOf(a, mt) /\ wrong = {}
      BY <1>same, <1>6, ProtoAssumption
    <3>3. Field(18, b) \in Readable("NodeInfo", M)
      BY <1>b0, NodeInfoReadable
    <3>4. StringSize(b) \in Nat
      BY <1>1
    <3>5. 18 \in Nat /\ 18 # NodeInfoTag /\ 18 % 8 # 0
      BY DEF NodeInfoTag
    <3> HIDE DEF M
    <3> QED BY <3>4, <3>1, <3>2, <3>3, <3>5 DEF TakesText
  <2> HIDE DEF M
  <2>2. Written("NodeInfo", M, E1, S1, Unless(none, NodeInfoOf(a, mt)))
    BY <1>7
  <2>3. Written("NodeInfo", M, E1 \o EmitString(18, b), S1 + SizeIf(b # "", StringSize(b)),
                Unless(none \cup wrong, NodeInfoOf(a, b)))
    BY <2>1, <2>2, WriteText
  <2>4. none \cup wrong = wrong
    BY <1>6
  <2> QED BY <1>e, <1>s, <2>3, <2>4
<1>8a. SerializeNodeInfo(m) = E2 /\ SizeNodeInfo(m) = S2
  BY <1>1, <1>e, <1>s DEF SerializeNodeInfo, SizeNodeInfo
<1> QED BY <1>1, <1>2, <1>6, <1>8, <1>8a
-----------------------------------------------------------------------------
(* A nested NodeInfo is read as a message of its own, from a new one.      *)
LEMMA NodeInfoIsRead ==
  ASSUME NEW fields
  PROVE  ReadNodeInfo(fields) = ReadFrom("NodeInfo", {NewNodeInfo}, fields)
<1> DEFINE Mine(g) == g = [T \in SUBSET DOMAIN fields |->
                             IF T = {} THEN {NewNodeInfo}
                             ELSE UNION {Turn("NodeInfo", q, fields[Max(T)]) :
                                           q \in g[T \ {Max(T)}]}]
           Its(g) == g = [T \in SUBSET DOMAIN fields |->
                            IF T = {} THEN {NewNodeInfo}
                            ELSE UNION {ParseNodeInfo(q, fields[Max(T)]) : q \in g[T \ {Max(T)}]}]
           mine == CHOOSE g : Mine(g)
           its == CHOOSE g : Its(g)
<1>1. ReadFrom("NodeInfo", {NewNodeInfo}, fields) = mine[DOMAIN fields]
  BY DEF ReadFrom, FoldLeft, MapThenFoldSet
<1>2. ReadNodeInfo(fields) = its[DOMAIN fields]
  BY DEF ReadNodeInfo, FoldLeft, MapThenFoldSet
<1>3. \A q, f : Turn("NodeInfo", q, f) = ParseNodeInfo(q, f)
  BY DEF Turn
<1>4. \A g : Mine(g) <=> Its(g)
  <2> SUFFICES ASSUME NEW g PROVE Mine(g) <=> Its(g)
    OBVIOUS
  <2>1. \A T \in SUBSET DOMAIN fields :
          UNION {Turn("NodeInfo", q, fields[Max(T)]) : q \in g[T \ {Max(T)}]}
            = UNION {ParseNodeInfo(q, fields[Max(T)]) : q \in g[T \ {Max(T)}]}
    BY <1>3
  <2> QED BY <2>1
<1>5. mine = its
  <2> HIDE DEF Mine, Its
  <2> QED BY <1>4
<1> QED BY <1>1, <1>2, <1>5

(* A sequence over a set is one over any larger set.                       *)
LEMMA SeqWider ==
  ASSUME NEW S, NEW T, S \subseteq T, NEW s \in Seq(S)
  PROVE  s \in Seq(T)
OBVIOUS

(* A NodeInfo is nested in a Return as one field with its length before it *)
(* (lkpProto.pb.cc:3129-3137, 3199-3207), and read from it.                *)
LEMMA NestedNodeInfo ==
  ASSUME NEW info \in NodeInfoMessage, StringSize(info.node_msg) \in Nat,
         NEW f, f = Field(NodeInfoTag, SerializeNodeInfo(info)),
         NEW n, n = SizeNodeInfo(info)
  PROVE  /\ f \in AnyField /\ f.tag = NodeInfoTag
         /\ FieldBytes(f) = 1 + VarintSize(n) + n /\ FieldBytes(f) \in Nat
         /\ ReadNodeInfo(f.val) = Unless({info.node_msg} \cap NotUtf8, info)
<1>1. PICK s : s = SerializeNodeInfo(info)
  OBVIOUS
<1>2. Written("NodeInfo", NodeInfoMessage, s, n, Unless({info.node_msg} \cap NotUtf8, info))
  BY <1>1, NodeInfoWritten
<1>3. /\ s \in Seq(Sized) /\ n \in Nat /\ Bytes(s) = n
      /\ ReadFrom("NodeInfo", {New("NodeInfo")}, s) = Unless({info.node_msg} \cap NotUtf8, info)
  BY <1>2 DEF Written
<1>4. f.tag = NodeInfoTag /\ f.val = s
  BY <1>1 DEF Field
<1>5. PICK Scalar : Scalar = [tag : {8, 18}, val : Nat \cup STRING]
  OBVIOUS
<1>6. s \in Seq(Scalar)
  <2>1. info.node_id \in Nat /\ info.node_msg \in STRING
    BY ZeroFits DEF NodeInfoMessage
  <2>2. PICK a, b : a = Field(8, info.node_id) /\ b = Field(18, info.node_msg)
    OBVIOUS
  <2>3. a \in Scalar /\ b \in Scalar
    BY <1>5, <2>1, <2>2 DEF Field
  <2>4. Emit(8, info.node_id) \in Seq(Scalar)
    <3>1. Emit(8, info.node_id) = <<>> \/ Emit(8, info.node_id) = <<a>>
      BY <2>2 DEF Emit
    <3>2. <<>> \in Seq(Scalar) /\ <<a>> \in Seq(Scalar)
      BY <2>3
    <3> QED BY <3>1, <3>2
  <2>5. EmitString(18, info.node_msg) \in Seq(Scalar)
    <3>1. EmitString(18, info.node_msg) = <<>> \/ EmitString(18, info.node_msg) = <<b>>
      BY <2>2 DEF EmitString
    <3>2. <<>> \in Seq(Scalar) /\ <<b>> \in Seq(Scalar)
      BY <2>3
    <3> QED BY <3>1, <3>2
  <2> QED BY <1>1, <2>4, <2>5, ConcatProperties DEF SerializeNodeInfo
<1>7. f \in AnyField
  <2>1. Scalar \subseteq [tag : Nat, val : Nat \cup STRING]
    BY <1>5
  <2>2. s \in Seq([tag : Nat, val : Nat \cup STRING])
    BY <1>6, <2>1, SeqWider
  <2>3. NodeInfoTag \in Nat
    BY DEF NodeInfoTag
  <2> QED BY <1>1, <2>2, <2>3 DEF Field, AnyField
<1>8. Total([i \in DOMAIN s |-> ScalarBytes(s[i])]) = n
  <2>1. \A i \in DOMAIN s : FieldBytes(s[i]) = ScalarBytes(s[i])
    <3>1. ASSUME NEW i \in DOMAIN s PROVE FieldBytes(s[i]) = ScalarBytes(s[i])
      <4>1. s[i] \in Scalar
        BY <1>6, ElementOfSeq
      <4>2. s[i].tag # NodeInfoTag
        BY <1>5, <4>1 DEF NodeInfoTag
      <4> QED BY <4>2 DEF FieldBytes
    <3> QED BY <3>1
  <2>2. [i \in DOMAIN s |-> ScalarBytes(s[i])] = [i \in DOMAIN s |-> FieldBytes(s[i])]
    BY <2>1
  <2> QED BY <1>3, <2>2 DEF Bytes
<1>9. FieldBytes(f) = 1 + VarintSize(n) + n
  BY <1>4, <1>8 DEF FieldBytes
<1>10. VarintSize(n) \in Nat
  BY DEF VarintSize
<1>11. FieldBytes(f) \in Nat
  BY <1>3, <1>9, <1>10
<1>12. ReadNodeInfo(f.val) = Unless({info.node_msg} \cap NotUtf8, info)
  BY <1>3, <1>4, NodeInfoIsRead, NewOfType
<1> QED BY <1>4, <1>7, <1>9, <1>11, <1>12
-----------------------------------------------------------------------------
(* The first i elements of s.                                              *)
Prefix(s, i) == SubSeq(s, 1, i)

(* The prefixes of a sequence, from none to all of it, each one longer.    *)
LEMMA PrefixStep ==
  ASSUME NEW S, NEW s \in Seq(S), NEW n \in Nat, n = Len(s)
  PROVE  /\ Prefix(s, 0) = <<>> /\ Prefix(s, n) = s
         /\ \A i \in 0..n : Prefix(s, i) \in Seq(S)
         /\ \A i \in 1..n : Prefix(s, i) = Prefix(s, i - 1) \o <<s[i]>>
<1>1. \A i \in 1..n : s[i] \in S
  BY ElementOfSeq
<1>2. Prefix(s, 0) = <<>>
  BY SubSeqEmpty DEF Prefix
<1>3. Prefix(s, n) = s
  BY SubSeqFull DEF Prefix
<1>4. ASSUME NEW i \in 0..n PROVE Prefix(s, i) \in Seq(S)
  <2>1. i \in Int /\ 1 \in Int /\ \A j \in 1..i : s[j] \in S
    BY <1>1
  <2> QED BY <2>1, SubSeqProperties DEF Prefix
<1>5. ASSUME NEW i \in 1..n PROVE Prefix(s, i) = Prefix(s, i - 1) \o <<s[i]>>
  <2>1. 1 \in 1..Len(s) /\ i \in 1..Len(s)
    OBVIOUS
  <2>2. SubSeq(s, 1, i) = SubSeq(s, 1, i - 1) \o <<s[i]>>
    BY <2>1, SubSeqRecursiveSecond
  <2> QED BY <2>2 DEF Prefix
<1> QED BY <1>2, <1>3, <1>4, <1>5

(* A Return message, by its fields.                                        *)
ReturnOf(client_num, client_ok_num, command, node_info) ==
  [type |-> "Return", client_num |-> client_num, client_ok_num |-> client_ok_num,
   command |-> command, node_info |-> node_info]

(* One turn of Return::MergePartialFromCodedStream with client_num: it is  *)
(* stored and nothing else changes.                                        *)
LEMMA ReturnTurn8 ==
  ASSUME NEW a, NEW b, NEW c, NEW d, NEW v \in UInt
  PROVE  Turn("Return", ReturnOf(a, b, c, d), Field(8, v)) = {ReturnOf(v, b, c, d)}
<1>1. PICK q, field : q = ReturnOf(a, b, c, d) /\ field = Field(8, v)
  OBVIOUS
<1>2. field.tag = 8 /\ field.val = v
  BY <1>1 DEF Field
<1>3. Turn("Return", q, field) = Store(q, "client_num", ReadUInt32(field))
  BY <1>2 DEF Turn, ParseReturn, NodeInfoTag
<1>4. With(q, "client_num", v) = ReturnOf(v, b, c, d)
  BY <1>1 DEF With, ReturnOf
<1> QED BY <1>1, <1>2, <1>3, <1>4, StoreNumber

(* One turn of Return::MergePartialFromCodedStream with client_ok_num: it  *)
(* is stored and nothing else changes.                                     *)
LEMMA ReturnTurn16 ==
  ASSUME NEW a, NEW b, NEW c, NEW d, NEW v \in UInt
  PROVE  Turn("Return", ReturnOf(a, b, c, d), Field(16, v)) = {ReturnOf(a, v, c, d)}
<1>1. PICK q, field : q = ReturnOf(a, b, c, d) /\ field = Field(16, v)
  OBVIOUS
<1>2. field.tag = 16 /\ field.val = v
  BY <1>1 DEF Field
<1>3. Turn("Return", q, field) = Store(q, "client_ok_num", ReadUInt32(field))
  BY <1>2 DEF Turn, ParseReturn, NodeInfoTag
<1>4. With(q, "client_ok_num", v) = ReturnOf(a, v, c, d)
  BY <1>1 DEF With, ReturnOf
<1> QED BY <1>1, <1>2, <1>3, <1>4, StoreNumber

(* One turn of Return::MergePartialFromCodedStream with command: it is     *)
(* stored and nothing else changes.                                        *)
LEMMA ReturnTurn24 ==
  ASSUME NEW a, NEW b, NEW c, NEW d, NEW v
  PROVE  Turn("Return", ReturnOf(a, b, c, d), Field(24, v)) = {ReturnOf(a, b, v, d)}
<1>1. PICK q, field : q = ReturnOf(a, b, c, d) /\ field = Field(24, v)
  OBVIOUS
<1>2. field.tag = 24 /\ field.val = v
  BY <1>1 DEF Field
<1>3. Turn("Return", q, field) = Store(q, "command", ReadEnum(field))
  BY <1>2 DEF Turn, ParseReturn, NodeInfoTag
<1>4. With(q, "command", v) = ReturnOf(a, b, v, d)
  BY <1>1 DEF With, ReturnOf
<1> QED BY <1>1, <1>2, <1>3, <1>4, StoreBare

(* One turn with a nested NodeInfo: it is added at the end, unless it      *)
(* cannot be read.                                                         *)
LEMMA ReturnTurn34 ==
  ASSUME NEW a, NEW b, NEW c, NEW d, NEW bad, NEW info, NEW f,
         f.tag = NodeInfoTag, ReadNodeInfo(f.val) = Unless(bad, info)
  PROVE  Turn("Return", ReturnOf(a, b, c, d), f) = Unless(bad, ReturnOf(a, b, c, Append(d, info)))
<1>1. PICK q : q = ReturnOf(a, b, c, d)
  OBVIOUS
<1>2. f.tag = 34
  BY DEF NodeInfoTag
<1>3. Turn("Return", q, f) = ParseReturn(q, f)
  BY DEF Turn
<1>4. PICK more : more = {Append(q.node_info, i) : i \in ReadNodeInfo(f.val)}
  OBVIOUS
<1>5. ParseReturn(q, f) = Store(q, "node_info", more)
  BY <1>2, <1>4 DEF ParseReturn, NodeInfoTag
<1>6. q.node_info = d
  BY <1>1 DEF ReturnOf
<1>7. CASE bad = {}
  <2>1. ReadNodeInfo(f.val) = {info}
    BY <1>7 DEF Unless
  <2>2. more = {Append(d, info)}
    BY <1>4, <1>6, <2>1
  <2>3. PICK v : v = Append(d, info)
    OBVIOUS
  <2>4. With(q, "node_info", v) = ReturnOf(a, b, c, v)
    BY <1>1 DEF With, ReturnOf
  <2>5. Store(q, "node_info", more) = {ReturnOf(a, b, c, v)}
    <3>1. more = {v}
      BY <2>2, <2>3
    <3>2. Store(q, "node_info", more) = {With(q, "node_info", v)}
      BY <3>1, StoreValue
    <3> QED BY <2>4, <3>2
  <2>6. Unless(bad, ReturnOf(a, b, c, v)) = {ReturnOf(a, b, c, v)}
    BY <1>7 DEF Unless
  <2> QED BY <1>1, <1>3, <1>5, <2>3, <2>5, <2>6
<1>8. CASE bad # {}
  <2>1. ReadNodeInfo(f.val) = {}
    BY <1>8 DEF Unless
  <2>2. more = {}
    BY <1>4, <2>1
  <2>3. Store(q, "node_info", more) = {}
    BY <2>2, StoreNothing
  <2>4. Unless(bad, ReturnOf(a, b, c, Append(d, info))) = {}
    BY <1>8 DEF Unless
  <2> QED BY <1>1, <1>3, <1>5, <2>3, <2>4
<1> QED BY <1>7, <1>8

(* A field number Return does not have is skipped; an end group makes      *)
(* reading fail.                                                           *)
LEMMA ReturnUnusual ==
  ASSUME NEW q
  PROVE  Turn("Return", q, Unknown15) = {q} /\ Turn("Return", q, Field(EndGroup, 0)) = {}
BY DEF Turn, ParseReturn, Unusual, Unknown15, Field, EndGroup, WireType, InvalidTypes, NodeInfoTag

(* A Return with such fields is one.                                       *)
LEMMA ReturnMade ==
  \A a \in UInt, b \in UInt, c \in UInt, d \in Seq(NodeInfoMessage) :
    ReturnOf(a, b, c, d) \in ReturnMessage
BY DEF ReturnMessage, ReturnOf

(* The fields that Return writes are fields it can read.                   *)
LEMMA ReturnReadable ==
  LET R == Readable("Return", ReturnMessage)
  IN  /\ Unknown15 \in R /\ Field(EndGroup, 0) \in R
      /\ \A v \in UInt : Field(8, v) \in R
      /\ \A v \in UInt : Field(16, v) \in R
      /\ \A v \in UInt : Field(24, v) \in R
      /\ \A info \in NodeInfoMessage :
           StringSize(info.node_msg) \in Nat => Field(NodeInfoTag, SerializeNodeInfo(info)) \in R
<1> DEFINE M == ReturnMessage
           Nested(info) == Field(NodeInfoTag, SerializeNodeInfo(info))
<1>1. ASSUME NEW q \in M
      PROVE  /\ Turn("Return", q, Unknown15) \subseteq M
             /\ Turn("Return", q, Field(EndGroup, 0)) \subseteq M
             /\ \A v \in UInt : Turn("Return", q, Field(8, v)) \subseteq M
             /\ \A v \in UInt : Turn("Return", q, Field(16, v)) \subseteq M
             /\ \A v \in UInt : Turn("Return", q, Field(24, v)) \subseteq M
             /\ \A info \in NodeInfoMessage :
                  StringSize(info.node_msg) \in Nat => Turn("Return", q, Nested(info)) \subseteq M
  <2>1. PICK a \in UInt, b \in UInt, c \in UInt, d \in Seq(NodeInfoMessage) :
               q = ReturnOf(a, b, c, d)
    BY DEF ReturnMessage, ReturnOf
  <2>2. \A a1 \in UInt, b1 \in UInt, c1 \in UInt, d1 \in Seq(NodeInfoMessage) :
          ReturnOf(a1, b1, c1, d1) \in M
    BY ReturnMade

  <2>3. ASSUME NEW v \in UInt PROVE Turn("Return", q, Field(8, v)) \subseteq M
    <3>1. Turn("Return", ReturnOf(a, b, c, d), Field(8, v)) = {ReturnOf(v, b, c, d)}
      BY ReturnTurn8
    <3> QED BY <2>1, <2>2, <3>1
  <2>4. ASSUME NEW v \in UInt PROVE Turn("Return", q, Field(16, v)) \subseteq M
    <3>1. Turn("Return", ReturnOf(a, b, c, d), Field(16, v)) = {ReturnOf(a, v, c, d)}
      BY ReturnTurn16
    <3> QED BY <2>1, <2>2, <3>1
  <2>5. ASSUME NEW v \in UInt PROVE Turn("Return", q, Field(24, v)) \subseteq M
    <3>1. Turn("Return", ReturnOf(a, b, c, d), Field(24, v)) = {ReturnOf(a, b, v, d)}
      BY ReturnTurn24
    <3> QED BY <2>1, <2>2, <3>1
  <2>6. ASSUME NEW info \in NodeInfoMessage, StringSize(info.node_msg) \in Nat
        PROVE  Turn("Return", q, Nested(info)) \subseteq M
    <3>1. PICK f, n, bad : f = Nested(info) /\ n = SizeNodeInfo(info)
                           /\ bad = {info.node_msg} \cap NotUtf8
      OBVIOUS
    <3>2. f.tag = NodeInfoTag /\ ReadNodeInfo(f.val) = Unless(bad, info)
      BY <2>6, <3>1, NestedNodeInfo
    <3>3. Turn("Return", ReturnOf(a, b, c, d), f) = Unless(bad, ReturnOf(a, b, c, Append(d, info)))
      BY <3>2, ReturnTurn34
    <3>4. Append(d, info) \in Seq(NodeInfoMessage)
      BY AppendProperties
    <3>5. ReturnOf(a, b, c, Append(d, info)) \in M
      BY <2>2, <3>4
    <3> QED BY <2>1, <3>1, <3>3, <3>5 DEF Unless
  <2> QED BY <2>3, <2>4, <2>5, <2>6, ReturnUnusual
<1>2. \A n \in Nat : \A v \in UInt : Field(n, v) \in AnyField
  BY ReadNumber DEF Field, AnyField
<1>3. Unknown15 \in AnyField /\ Field(EndGroup, 0) \in AnyField
  BY DEF Field, AnyField, Unknown15, EndGroup
<1>4. \A info \in NodeInfoMessage : StringSize(info.node_msg) \in Nat => Nested(info) \in AnyField
  BY NestedNodeInfo
<1> QED BY <1>1, <1>2, <1>3, <1>4 DEF Readable

(* MergeFrom takes over, field by field, what is not the default           *)
(* (lkpProto.pb.cc:3230-3245).                                             *)
LEMMA ReturnMerge ==
  ASSUME NEW a, NEW b, NEW c, NEW d, NEW t, NEW u, NEW v, NEW x
  PROVE  MergeReturn(ReturnOf(a, b, c, d), ReturnOf(t, u, v, x))
           = ReturnOf(OverNumber(a, t), OverNumber(b, u), OverNumber(c, v), d \o x)
<1> DEFINE Only(t0, u0, v0, x0) == [type : {"Return"}, client_num : {t0}, client_ok_num : {u0},
                                    command : {v0}, node_info : {x0}]
<1>1. PICK p, q : p = ReturnOf(a, b, c, d) /\ q = ReturnOf(t, u, v, x)
  OBVIOUS
<1>2. PICK t1, u1, v1, x1 :
        /\ t1 = Over(p.client_num, q.client_num, 0)
        /\ u1 = Over(p.client_ok_num, q.client_ok_num, 0)
        /\ v1 = Over(p.command, q.command, 0)
        /\ x1 = p.node_info \o q.node_info
  OBVIOUS
<1>3. MergeReturn(p, q) = [p EXCEPT !.node_info = x1, !.client_num = t1, !.client_ok_num = u1,
                                    !.command = v1]
  BY <1>2 DEF MergeReturn
<1>4. PICK r : r = [p EXCEPT !.node_info = x1, !.client_num = t1, !.client_ok_num = u1,
                             !.command = v1]
  OBVIOUS
<1>5. p \in Only(a, b, c, d)
  BY <1>1 DEF ReturnOf
<1>6. r \in Only(t1, u1, v1, x1)
  BY <1>4, <1>5
<1>7. r = ReturnOf(t1, u1, v1, x1)
  BY <1>6 DEF ReturnOf
<1>8. /\ p.client_num = a /\ p.client_ok_num = b /\ p.command = c /\ p.node_info = d
      /\ q.client_num = t /\ q.client_ok_num = u /\ q.command = v /\ q.node_info = x
  BY <1>1 DEF ReturnOf
<1> QED BY <1>1, <1>2, <1>3, <1>4, <1>7, <1>8 DEF OverNumber
-----------------------------------------------------------------------------
(* What one NodeInfo adds to ByteSize of a Return.                         *)
NestedSize(info) == LET size == SizeNodeInfo(info) IN 1 + VarintSize(size) + size

(* One NodeInfo more is one nested field more.                             *)
LEMMA AddNodeInfo ==
  ASSUME NEW fields, NEW size, NEW bad, NEW a, NEW b, NEW c, NEW d \in Seq(NodeInfoMessage),
         NEW info \in NodeInfoMessage, StringSize(info.node_msg) \in Nat,
         Written("Return", ReturnMessage, fields, size, Unless(bad, ReturnOf(a, b, c, d)))
  PROVE  Written("Return", ReturnMessage,
                 fields \o <<Field(NodeInfoTag, SerializeNodeInfo(info))>>,
                 size + NestedSize(info),
                 Unless(bad \cup ({info.node_msg} \cap NotUtf8),
                        ReturnOf(a, b, c, d \o <<info>>)))
<1> DEFINE M == ReturnMessage
<1>1. PICK f, n, new, p, q :
        /\ f = Field(NodeInfoTag, SerializeNodeInfo(info)) /\ n = SizeNodeInfo(info)
        /\ new = {info.node_msg} \cap NotUtf8
        /\ p = ReturnOf(a, b, c, d) /\ q = ReturnOf(a, b, c, d \o <<info>>)
  OBVIOUS
<1>2. /\ f.tag = NodeInfoTag
      /\ FieldBytes(f) = 1 + VarintSize(n) + n /\ FieldBytes(f) \in Nat
      /\ ReadNodeInfo(f.val) = Unless(new, info)
  BY <1>1, NestedNodeInfo
<1>3. f \in Readable("Return", M)
  BY <1>1, ReturnReadable
<1>4. Append(d, info) = d \o <<info>>
  BY AppendIsConcat
<1>5. Turn("Return", p, f) = Unless(new, q)
  <2>1. Turn("Return", ReturnOf(a, b, c, d), f) = Unless(new, ReturnOf(a, b, c, Append(d, info)))
    BY <1>2, ReturnTurn34
  <2> QED BY <1>1, <1>4, <2>1
<1>6. Written("Return", M, fields \o <<f>>, size + FieldBytes(f), Unless(bad \cup new, q))
  <2>1. Written("Return", M, fields, size, Unless(bad, p))
    BY <1>1
  <2> HIDE DEF M
  <2> QED BY <1>2, <1>3, <1>5, <2>1, AddOne
<1>7. FieldBytes(f) = NestedSize(info)
  BY <1>1, <1>2 DEF NestedSize
<1> QED BY <1>1, <1>6, <1>7

(* The three numbers of a Return.                                          *)
LEMMA ReturnWritten ==
  ASSUME NEW a \in UInt, NEW b \in UInt, NEW c \in UInt, NEW mt, mt = <<>>, NEW none, none = {}
  PROVE  Written("Return", ReturnMessage, Emit(8, a) \o Emit(16, b) \o Emit(24, c),
                 SizeIf(a # 0, VarintSize(a)) + SizeIf(b # 0, VarintSize(b))
                   + SizeIf(c # 0, VarintSize(c)),
                 Unless(none, ReturnOf(a, b, c, mt)))
<1> DEFINE M == ReturnMessage
<1>3. PICK zero : zero = 0
  OBVIOUS
<1>4. New("Return") = ReturnOf(zero, zero, zero, mt)
  BY <1>3, NewOfType DEF NewReturn, ReturnOf
<1>defaults. zero \in UInt /\ mt \in Seq(NodeInfoMessage)
  BY <1>3, ZeroFits
<1>same. \A v : v = 0 => v = zero
  BY <1>3
<1>5. ReturnOf(zero, zero, zero, mt) \in M
  BY <1>defaults, ReturnMade
<1>e. PICK E0, E1, E2, E3 :
        /\ E0 = <<>> /\ E1 = Emit(8, a)
        /\ E2 = E1 \o Emit(16, b)
        /\ E3 = E2 \o Emit(24, c)
  OBVIOUS
<1>s. PICK S0, S1, S2, S3 :
        /\ S0 = 0 /\ S1 = SizeIf(a # 0, VarintSize(a))
        /\ S2 = S1 + SizeIf(b # 0, VarintSize(b))
        /\ S3 = S2 + SizeIf(c # 0, VarintSize(c))
  OBVIOUS
<1>7. Written("Return", M, E1, S1, Unless(none, ReturnOf(a, zero, zero, mt)))
  <2>1. TakesNumber("Return", M, 8, a, ReturnOf(zero, zero, zero, mt), ReturnOf(a, zero, zero, mt))
    <3>1. Turn("Return", ReturnOf(zero, zero, zero, mt), Field(8, a))
            = {ReturnOf(a, zero, zero, mt)}
      BY ReturnTurn8
    <3>2. a = 0 => ReturnOf(a, zero, zero, mt) = ReturnOf(zero, zero, zero, mt)
      BY <1>same
    <3>3. Field(8, a) \in Readable("Return", M)
      BY ReturnReadable
    <3>4. 8 \in Nat /\ 8 # NodeInfoTag /\ 8 % 8 = 0
      BY DEF NodeInfoTag
    <3> HIDE DEF M
    <3> QED BY <3>1, <3>2, <3>3, <3>4 DEF TakesNumber
  <2> HIDE DEF M
  <2>2. Written("Return", M, E0, S0, Unless(none, ReturnOf(zero, zero, zero, mt)))
    BY <1>4, <1>5, <1>e, <1>s, StartWritten
  <2>3. Written("Return", M, E0 \o Emit(8, a), S0 + SizeIf(a # 0, VarintSize(a)),
                Unless(none, ReturnOf(a, zero, zero, mt)))
    BY <2>1, <2>2, WriteNumber
  <2> QED BY <1>e, <1>s, <2>3, Emitted, FirstWritten
<1>8. Written("Return", M, E2, S2, Unless(none, ReturnOf(a, b, zero, mt)))
  <2>1. TakesNumber("Return", M, 16, b, ReturnOf(a, zero, zero, mt), ReturnOf(a, b, zero, mt))
    <3>1. Turn("Return", ReturnOf(a, zero, zero, mt), Field(16, b)) = {ReturnOf(a, b, zero, mt)}
      BY ReturnTurn16
    <3>2. b = 0 => ReturnOf(a, b, zero, mt) = ReturnOf(a, zero, zero, mt)
      BY <1>same
    <3>3. Field(16, b) \in Readable("Return", M)
      BY ReturnReadable
    <3>4. 16 \in Nat /\ 16 # NodeInfoTag /\ 16 % 8 = 0
      BY DEF NodeInfoTag
    <3> HIDE DEF M
    <3> QED BY <3>1, <3>2, <3>3, <3>4 DEF TakesNumber
  <2> HIDE DEF M
  <2>2. Written("Return", M, E1, S1, Unless(none, ReturnOf(a, zero, zero, mt)))
    BY <1>7
  <2>3. Written("Return", M, E1 \o Emit(16, b), S1 + SizeIf(b # 0, VarintSize(b)),
                Unless(none, ReturnOf(a, b, zero, mt)))
    BY <2>1, <2>2, WriteNumber
  <2> QED BY <1>e, <1>s, <2>3
<1>9. Written("Return", M, E3, S3, Unless(none, ReturnOf(a, b, c, mt)))
  <2>1. TakesNumber("Return", M, 24, c, ReturnOf(a, b, zero, mt), ReturnOf(a, b, c, mt))
    <3>1. Turn("Return", ReturnOf(a, b, zero, mt), Field(24, c)) = {ReturnOf(a, b, c, mt)}
      BY ReturnTurn24
    <3>2. c = 0 => ReturnOf(a, b, c, mt) = ReturnOf(a, b, zero, mt)
      BY <1>same
    <3>3. Field(24, c) \in Readable("Return", M)
      BY ReturnReadable
    <3>4. 24 \in Nat /\ 24 # NodeInfoTag /\ 24 % 8 = 0
      BY DEF NodeInfoTag
    <3> HIDE DEF M
    <3> QED BY <3>1, <3>2, <3>3, <3>4 DEF TakesNumber
  <2> HIDE DEF M
  <2>2. Written("Return", M, E2, S2, Unless(none, ReturnOf(a, b, zero, mt)))
    BY <1>8
  <2>3. Written("Return", M, E2 \o Emit(24, c), S2 + SizeIf(c # 0, VarintSize(c)),
                Unless(none, ReturnOf(a, b, c, mt)))
    BY <2>1, <2>2, WriteNumber
  <2> QED BY <1>e, <1>s, <2>3
<1> QED BY <1>9, <1>e, <1>s

(* The node_infos of a Return as fields.                                   *)
Nested(N) == [i \in 1..Len(N) |-> Field(NodeInfoTag, SerializeNodeInfo(N[i]))]
(* The sizes that ByteSize of a Return adds up.                            *)
NestedSizes(N) == [i \in DOMAIN N |-> NestedSize(N[i])]
(* The texts of the first k NodeInfos.                                     *)
Messages(N, k) == {N[j].node_msg : j \in 1..k}

(* Nested NodeInfos can be read and measured.                              *)
LEMMA NestedTyped ==
  ASSUME NEW N \in Seq(NodeInfoMessage), \A i \in 1..Len(N) : StringSize(N[i].node_msg) \in Nat
  PROVE  Nested(N) \in Seq(Readable("Return", ReturnMessage)) /\ NestedSizes(N) \in Seq(Nat)
<1>1. Len(N) \in Nat /\ DOMAIN N = 1..Len(N) /\ \A i \in 1..Len(N) : N[i] \in NodeInfoMessage
  BY ElementOfSeq
<1>2. ASSUME NEW i \in 1..Len(N)
      PROVE  /\ Field(NodeInfoTag, SerializeNodeInfo(N[i])) \in Readable("Return", ReturnMessage)
             /\ NestedSize(N[i]) \in Nat
  <2>1. PICK info \in NodeInfoMessage : info = N[i]
    BY <1>1
  <2>2. StringSize(info.node_msg) \in Nat
    BY <2>1
  <2>3. NestedSize(info) \in Nat
    <3>1. PICK f, n : f = Field(NodeInfoTag, SerializeNodeInfo(info)) /\ n = SizeNodeInfo(info)
      OBVIOUS
    <3>2. FieldBytes(f) = 1 + VarintSize(n) + n /\ FieldBytes(f) \in Nat
      BY <2>2, <3>1, NestedNodeInfo
    <3> QED BY <3>1, <3>2 DEF NestedSize
  <2> QED BY <2>1, <2>2, <2>3, ReturnReadable
<1> QED BY <1>1, <1>2 DEF Nested, NestedSizes

(* The first k of the node_infos N are nested fields after the fields E,   *)
(* for every k up to all of them.                                          *)
LEMMA NodeInfosWritten ==
  ASSUME NEW a \in UInt, NEW b \in UInt, NEW c \in UInt, NEW N \in Seq(NodeInfoMessage),
         \A i \in 1..Len(N) : StringSize(N[i].node_msg) \in Nat,
         NEW E, NEW S, NEW mt, mt = <<>>, NEW none, none = {},
         Written("Return", ReturnMessage, E, S, Unless(none, ReturnOf(a, b, c, mt)))
  PROVE  Written("Return", ReturnMessage, E \o Nested(N), S + Total(NestedSizes(N)),
                 Unless(Messages(N, Len(N)) \cap NotUtf8, ReturnOf(a, b, c, N)))
<1> DEFINE R == Readable("Return", ReturnMessage)
           F == Nested(N)
           Z == NestedSizes(N)
           Bad(k) == Messages(N, k) \cap NotUtf8
           Good(k) == Written("Return", ReturnMessage, E \o Prefix(F, k), S + Total(Prefix(Z, k)),
                              Unless(Bad(k), ReturnOf(a, b, c, Prefix(N, k))))
<1>1. PICK n \in Nat : n = Len(N)
  OBVIOUS
<1>2. F \in Seq(R) /\ Z \in Seq(Nat)
  BY NestedTyped
<1>3. Len(F) = n /\ Len(Z) = n
  <2>1. DOMAIN N = 1..n
    BY <1>1
  <2> QED BY <1>1, <2>1 DEF Nested, NestedSizes
<1>4. \A i \in 1..n : /\ F[i] = Field(NodeInfoTag, SerializeNodeInfo(N[i]))
                      /\ Z[i] = NestedSize(N[i]) /\ N[i] \in NodeInfoMessage
  <2>1. DOMAIN N = 1..n /\ \A i \in 1..n : N[i] \in NodeInfoMessage
    BY <1>1, ElementOfSeq
  <2> QED BY <1>1, <2>1 DEF Nested, NestedSizes
<1> HIDE DEF F, Z
<1>5. /\ Prefix(F, 0) = <<>> /\ Prefix(F, n) = F /\ \A i \in 0..n : Prefix(F, i) \in Seq(R)
      /\ \A i \in 1..n : Prefix(F, i) = Prefix(F, i - 1) \o <<F[i]>>
  <2> HIDE DEF R
  <2> QED BY <1>2, <1>3, PrefixStep
<1>6. /\ Prefix(Z, 0) = <<>> /\ Prefix(Z, n) = Z /\ \A i \in 0..n : Prefix(Z, i) \in Seq(Nat)
      /\ \A i \in 1..n : Prefix(Z, i) = Prefix(Z, i - 1) \o <<Z[i]>>
  BY <1>2, <1>3, PrefixStep
<1>7. /\ Prefix(N, 0) = <<>> /\ Prefix(N, n) = N
      /\ \A i \in 0..n : Prefix(N, i) \in Seq(NodeInfoMessage)
      /\ \A i \in 1..n : Prefix(N, i) = Prefix(N, i - 1) \o <<N[i]>>
  BY <1>1, PrefixStep
<1>8. E \in Seq(R) /\ S \in Nat
  BY DEF Written
<1>9. Good(0)
  <2>1. E \o Prefix(F, 0) = E
    BY <1>5, <1>8, ConcatEmptySeq
  <2>2. S + Total(Prefix(Z, 0)) = S
    BY <1>6, <1>8, TotalShort
  <2>3. Bad(0) = none
    BY DEF Messages
  <2>4. Prefix(N, 0) = mt
    BY <1>7
  <2> QED BY <2>1, <2>2, <2>3, <2>4
<1>10. ASSUME NEW i \in 1..n, Good(i - 1) PROVE Good(i)
  <2>1. PICK e, s, bad, d, f, info :
          /\ e = Prefix(F, i - 1) /\ s = Total(Prefix(Z, i - 1)) /\ bad = Bad(i - 1)
          /\ d = Prefix(N, i - 1) /\ f = F[i] /\ info = N[i]
    OBVIOUS
  <2>2. /\ d \in Seq(NodeInfoMessage) /\ info \in NodeInfoMessage
        /\ StringSize(info.node_msg) \in Nat /\ e \in Seq(R) /\ s \in Nat
    <3>1. i - 1 \in 0..n
      OBVIOUS
    <3>2. Prefix(Z, i - 1) \in Seq(Nat)
      BY <1>6, <3>1
    <3>3. s \in Nat
      <4>1. PICK z \in Seq(Nat) : z = Prefix(Z, i - 1)
        BY <3>2
      <4> QED BY <2>1, <4>1, TotalConcat
    <3> QED BY <1>1, <1>4, <1>5, <1>7, <2>1, <3>1, <3>3
  <2>3. Written("Return", ReturnMessage, E \o e, S + s, Unless(bad, ReturnOf(a, b, c, d)))
    BY <1>10, <2>1
  <2>4. PICK new : new = {info.node_msg} \cap NotUtf8
    OBVIOUS
  <2>5. Written("Return", ReturnMessage, (E \o e) \o <<f>>, (S + s) + NestedSize(info),
                Unless(bad \cup new, ReturnOf(a, b, c, d \o <<info>>)))
    <3>1. f = Field(NodeInfoTag, SerializeNodeInfo(info))
      BY <1>4, <2>1
    <3>2. PICK g, z : g = E \o e /\ z = S + s
      OBVIOUS
    <3>3. Written("Return", ReturnMessage, g \o <<Field(NodeInfoTag, SerializeNodeInfo(info))>>,
                  z + NestedSize(info),
                  Unless(bad \cup ({info.node_msg} \cap NotUtf8),
                         ReturnOf(a, b, c, d \o <<info>>)))
      BY <2>2, <2>3, <3>2, AddNodeInfo
    <3> QED BY <2>4, <3>1, <3>2, <3>3
  <2>6. (E \o e) \o <<f>> = E \o Prefix(F, i)
    <3>1. PICK one : one = <<f>>
      OBVIOUS
    <3>2. one \in Seq(R)
      BY <1>2, <1>3, <2>1, <3>1, ElementOfSeq
    <3>3. (E \o e) \o one = E \o (e \o one)
      <4>1. PICK T : T = R
        OBVIOUS
      <4>2. E \in Seq(T) /\ e \in Seq(T) /\ one \in Seq(T)
        BY <1>8, <2>2, <3>2, <4>1
      <4> QED BY <4>2, ConcatAssociative, SMTT(30)
    <3>4. Prefix(F, i) = e \o one
      BY <1>5, <2>1, <3>1
    <3> QED BY <3>1, <3>3, <3>4
  <2>7. (S + s) + NestedSize(info) = S + Total(Prefix(Z, i))
    <3>1. PICK k \in Nat : k = NestedSize(info) /\ k = Z[i]
      BY <1>2, <1>3, <1>4, <2>1, ElementOfSeq
    <3>2. PICK z \in Seq(Nat), one \in Seq(Nat) : z = Prefix(Z, i - 1) /\ one = <<k>>
      <4>1. Prefix(Z, i - 1) \in Seq(Nat) /\ <<k>> \in Seq(Nat)
        BY <1>6
      <4> QED BY <4>1
    <3>3. Total(z \o one) = Total(z) + Total(one) /\ Total(one) = k
      BY <3>2, TotalConcat, TotalShort
    <3>4. Prefix(Z, i) = z \o one
      BY <1>6, <3>1, <3>2
    <3>5. Total(Prefix(Z, i)) = s + k
      BY <2>1, <3>2, <3>3, <3>4
    <3>6. (S + s) + k = S + (s + k)
      BY <1>8, <2>2
    <3> QED BY <3>1, <3>5, <3>6
  <2>8. bad \cup new = Bad(i)
    <3>1. 1..i = (1..(i - 1)) \cup {i}
      OBVIOUS
    <3>2. Messages(N, i) = Messages(N, i - 1) \cup {N[i].node_msg}
      BY <3>1 DEF Messages
    <3> QED BY <2>1, <2>4, <3>2
  <2>9. d \o <<info>> = Prefix(N, i)
    BY <1>7, <2>1
  <2> QED BY <2>5, <2>6, <2>7, <2>8, <2>9
<1>11. Good(n)
  <2> DEFINE K == {k \in 0..n : Good(k)}
  <2> HIDE DEF Good
  <2>1. 0 \in K
    BY <1>9
  <2>2. ASSUME NEW i \in 1..n, i - 1 \in K PROVE i \in K
    BY <1>10, <2>2
  <2> HIDE DEF K
  <2>3. \A i \in 0..n : i \in K
    BY <2>1, <2>2, FiniteInduction
  <2> QED BY <2>3 DEF K
<1>12. Written("Return", ReturnMessage, E \o F, S + Total(Z), Unless(Bad(n), ReturnOf(a, b, c, N)))
  BY <1>5, <1>6, <1>7, <1>11
<1> QED BY <1>1, <1>12 DEF F, Z

(* Every Return is understood: serialized field by field, measured and     *)
(* read back (lkpProto.pb.cc:3117-3173, 3175-3211, 3024-3115).             *)
LEMMA ReturnUnderstood ==
  ASSUME NEW m \in ReturnMessage,
         \A i \in 1..Len(m.node_info) : StringSize(m.node_info[i].node_msg) \in Nat
  PROVE  Understood(ReturnMessage, m)
<1> DEFINE M == ReturnMessage
<1>1. PICK a, b, c, N :
        /\ a = m.client_num /\ b = m.client_ok_num /\ c = m.command /\ N = m.node_info
        /\ a \in UInt /\ b \in UInt /\ c \in UInt /\ N \in Seq(NodeInfoMessage)
  BY DEF ReturnMessage
<1>2. m = ReturnOf(a, b, c, N) /\ m.type = "Return"
  BY <1>1 DEF ReturnMessage, ReturnOf
<1>3. PICK mt, none, zero : mt = <<>> /\ none = {} /\ zero = 0
  OBVIOUS
<1>4. New("Return") = ReturnOf(zero, zero, zero, mt)
  BY <1>3, NewOfType DEF NewReturn, ReturnOf
<1>5. PICK E, S :
        /\ E = Emit(8, a) \o Emit(16, b) \o Emit(24, c)
        /\ S = SizeIf(a # 0, VarintSize(a)) + SizeIf(b # 0, VarintSize(b))
                 + SizeIf(c # 0, VarintSize(c))
  OBVIOUS
<1>6. Written("Return", M, E, S, Unless(none, ReturnOf(a, b, c, mt)))
  BY <1>1, <1>3, <1>5, ReturnWritten
<1>7. PICK bad : bad = Messages(N, Len(N)) \cap NotUtf8
  OBVIOUS
<1>8. Written("Return", M, E \o Nested(N), S + Total(NestedSizes(N)),
              Unless(bad, ReturnOf(a, b, c, N)))
  BY <1>1, <1>3, <1>6, <1>7, NodeInfosWritten
<1>9. Serialize(m) = E \o Nested(N)
  BY <1>1, <1>2, <1>5 DEF Serialize, SerializeReturn, Nested
<1>10. ByteSize(m) = S + Total(NestedSizes(N))
  BY <1>1, <1>2, <1>5 DEF ByteSize, SizeReturn, NestedSizes, NestedSize
<1>11. Strings(m) \cap NotUtf8 = bad
  BY <1>1, <1>2, <1>7 DEF Strings, Messages
<1>12. Copy(m) = m
  <2>1. PICK q : q = ReturnOf(zero, zero, zero, mt)
    OBVIOUS
  <2>2. q.type = "Return"
    BY <2>1 DEF ReturnOf
  <2>3. Copy(m) = MergeReturn(q, m)
    BY <1>2, <1>4, <2>1, <2>2 DEF Copy, MergeFrom
  <2>4. MergeReturn(ReturnOf(zero, zero, zero, mt), ReturnOf(a, b, c, N))
          = ReturnOf(OverNumber(zero, a), OverNumber(zero, b), OverNumber(zero, c), mt \o N)
    BY ReturnMerge
  <2>5. \A v : OverNumber(zero, v) = v
    BY <1>3 DEF OverNumber, Over
  <2>6. mt \o N = N
    BY <1>1, <1>3, ConcatEmptySeq
  <2> QED BY <1>2, <2>1, <2>3, <2>4, <2>5, <2>6
<1>13. /\ {Unknown15, Field(EndGroup, 0)} \subseteq Readable("Return", M)
       /\ Turn("Return", m, Unknown15) = {m}
       /\ Turn("Return", New("Return"), Field(EndGroup, 0)) = {}
  BY ReturnUnusual, ReturnReadable
<1> QED BY <1>2, <1>8, <1>9, <1>10, <1>11, <1>12, <1>13 DEF Understood
-----------------------------------------------------------------------------
(* For a message of any class that is understood: ByteSize is the number   *)
(* of bytes that are written, so fillEmptyBuffer does not end the program  *)
(* (lkpCodec.cc:48-55); reading gives the message back, also when a newer  *)
(* version has added a field; an end group is refused; and the copy        *)
(* constructor loses nothing.                                              *)
LEMMA UnderstoodRoundTrip ==
  ASSUME NEW M, NEW m, Understood(M, m)
  PROVE  /\ ByteSize(m) \in Nat /\ Bytes(Serialize(m)) = ByteSize(m)
         /\ Parse(m.type, Serialize(m)) = Unless(Strings(m) \cap NotUtf8, m)
         /\ Parse(m.type, Serialize(m) \o <<Unknown15>>) = Unless(Strings(m) \cap NotUtf8, m)
         /\ Parse(m.type, <<Field(EndGroup, 0)>> \o Serialize(m)) = {}
         /\ Copy(m) = m
<1>1. PICK type, s, n, r, more, end, R :
        /\ type = m.type /\ s = Serialize(m) /\ n = ByteSize(m)
        /\ r = Unless(Strings(m) \cap NotUtf8, m)
        /\ more = Unknown15 /\ end = Field(EndGroup, 0) /\ R = Readable(type, M)
  OBVIOUS
<1>2. /\ s \in Seq(R) /\ n \in Nat /\ Bytes(s) = n
      /\ {New(type)} \in SUBSET M /\ r \in SUBSET M
      /\ ReadFrom(type, {New(type)}, s) = r
  BY <1>1 DEF Understood, Written
<1>3. /\ more \in R /\ end \in R
      /\ Turn(type, m, more) = {m} /\ Turn(type, New(type), end) = {} /\ Copy(m) = m
  BY <1>1 DEF Understood
<1>4. \A fields : Parse(type, fields) = ReadFrom(type, {New(type)}, fields)
  BY DEF Parse, ReadFrom
<1>5. PICK new \in SUBSET M : new = {New(type)}
  BY <1>2
<1>6. PICK none \in SUBSET M : none = {}
  OBVIOUS
<1>7. <<more>> \in Seq(R) /\ <<end>> \in Seq(R)
  BY <1>3
<1>8. ReadFrom(type, new, s \o <<more>>) = r
  <2>1. ReadFrom(type, new, s \o <<more>>) = ReadFrom(type, ReadFrom(type, new, s), <<more>>)
    <3>1. PICK a \in Seq(Readable(type, M)), b \in Seq(Readable(type, M)) : a = s /\ b = <<more>>
      BY <1>1, <1>2, <1>7
    <3>2. ReadFrom(type, new, a \o b) = ReadFrom(type, ReadFrom(type, new, a), b)
      BY ReadConcat
    <3> QED BY <3>1, <3>2
  <2>2. PICK q \in SUBSET M : q = r
    BY <1>2
  <2>3. ReadFrom(type, q, <<more>>) = TurnAll(type, q, more)
    BY <1>1, <1>3, ReadOne
  <2>4. q = {} \/ q = {m}
    BY <1>1, <2>2 DEF Unless
  <2>5. TurnAll(type, q, more) = q
    BY <1>3, <2>4 DEF TurnAll
  <2> QED BY <1>2, <1>5, <2>1, <2>2, <2>3, <2>5
<1>9. ReadFrom(type, new, <<end>> \o s) = {}
  <2>1. ReadFrom(type, new, <<end>> \o s) = ReadFrom(type, ReadFrom(type, new, <<end>>), s)
    <3>1. PICK a \in Seq(Readable(type, M)), b \in Seq(Readable(type, M)) : a = <<end>> /\ b = s
      BY <1>1, <1>2, <1>7
    <3>2. ReadFrom(type, new, a \o b) = ReadFrom(type, ReadFrom(type, new, a), b)
      BY ReadConcat
    <3> QED BY <3>1, <3>2
  <2>2. ReadFrom(type, new, <<end>>) = TurnAll(type, new, end)
    BY <1>1, <1>3, ReadOne
  <2>3. TurnAll(type, new, end) = none
    BY <1>3, <1>5, <1>6 DEF TurnAll
  <2>4. ReadFrom(type, none, s) \subseteq {}
    <3>1. PICK M0 : M0 = {}
      OBVIOUS
    <3>2. s \in Seq(Readable(type, M0))
      <4>1. R \subseteq Readable(type, M0)
        BY <1>1, <3>1 DEF Readable
      <4> QED BY <1>2, <4>1, SeqWider
    <3>3. none \in SUBSET M0
      BY <1>6
    <3>4. ReadFrom(type, none, s) \in SUBSET M0
      BY <3>2, <3>3, ReadStays
    <3> QED BY <3>1, <3>4
  <2> QED BY <2>1, <2>2, <2>3, <2>4
<1> QED BY <1>1, <1>2, <1>3, <1>4, <1>5, <1>8, <1>9

(* The size of a text in bytes is a number.                                *)
LEMMA TextSized ==
  ASSUME NEW s, Len(s) \in Nat
  PROVE  StringSize(s) \in Nat
<1>1. PICK n \in Nat : n = Len(s)
  OBVIOUS
<1>2. VarintSize(n) \in Nat
  BY DEF VarintSize
<1> QED BY <1>1, <1>2 DEF StringSize

(* Every message of the six classes is understood, whatever its fields     *)
(* hold.                                                                   *)
LEMMA MessageUnderstood ==
  ASSUME NEW m \in Message, \A text \in Contents(m) : Len(text) \in Nat
  PROVE  m.type \in TypeNames /\ \E M : Understood(M, m)
<1>0. {"Command", "File", "CommandACK", "HeartBeat", "PushACK", "Return"} \subseteq TypeNames
  BY DEF TypeNames, Prototypes, NewCommand, NewFile, NewCommandACK, NewHeartBeat, NewPushACK,
         NewReturn
<1>1. \A text \in Contents(m) : StringSize(text) \in Nat
  BY TextSized
<1>2. CASE m \in CommandMessage
  <2>1. m.type = "Command" /\ m.testcase \in Contents(m)
    BY <1>2 DEF CommandMessage, Contents, Strings
  <2>2. Understood(CommandMessage, m)
    BY <1>1, <1>2, <2>1, CommandUnderstood
  <2> QED BY <1>0, <2>1, <2>2
<1>3. CASE m \in FileMessage
  <2>1. m.type = "File" /\ m.file_name \in Contents(m) /\ m.content \in Contents(m)
    BY <1>3 DEF FileMessage, Contents, Strings
  <2>2. Understood(FileMessage, m)
    BY <1>1, <1>3, <2>1, FileUnderstood
  <2> QED BY <1>0, <2>1, <2>2
<1>4. CASE m \in CommandACKMessage
  <2>1. m.type = "CommandACK" /\ m.ack_message \in Contents(m)
    BY <1>4 DEF CommandACKMessage, Contents, Strings
  <2>2. Understood(CommandACKMessage, m)
    BY <1>1, <1>4, <2>1, CommandACKUnderstood
  <2> QED BY <1>0, <2>1, <2>2
<1>5. CASE m \in HeartBeatMessage
  <2>1. m.type = "HeartBeat"
    BY <1>5 DEF HeartBeatMessage
  <2>2. Understood(HeartBeatMessage, m)
    BY <1>5, HeartBeatUnderstood
  <2> QED BY <1>0, <2>1, <2>2
<1>6. CASE m \in PushACKMessage
  <2>1. m.type = "PushACK" /\ m.ack_message \in Contents(m)
    BY <1>6 DEF PushACKMessage, Contents, Strings
  <2>2. Understood(PushACKMessage, m)
    BY <1>1, <1>6, <2>1, PushACKUnderstood
  <2> QED BY <1>0, <2>1, <2>2
<1>7. CASE m \in ReturnMessage
  <2>1. m.type = "Return"
    BY <1>7 DEF ReturnMessage
  <2>2. \A i \in 1..Len(m.node_info) : m.node_info[i].node_msg \in Contents(m)
    BY <2>1 DEF Contents, Strings
  <2>3. Understood(ReturnMessage, m)
    BY <1>1, <1>7, <2>2, ReturnUnderstood
  <2> QED BY <1>0, <2>1, <2>3
<1> QED BY <1>2, <1>3, <1>4, <1>5, <1>6, <1>7 DEF Message

(* Every message of every class, whatever its fields hold and however many *)
(* NodeInfos it nests: ByteSize is the number of bytes that are written,   *)
(* so fillEmptyBuffer does not end the program (lkpCodec.cc:48-55);        *)
(* reading gives the message back, or fails on a string that is not UTF-8, *)
(* also when a newer version has added a field; an end group is refused;   *)
(* and the copy constructor loses nothing (lkpProto.pb.cc).  A text of the *)
(* message has a length: the prover does not know it of a string.          *)
THEOREM RoundTrip ==
  ASSUME NEW m \in Message, \A text \in Contents(m) : Len(text) \in Nat
  PROVE  /\ ByteSize(m) \in Nat /\ Bytes(Serialize(m)) = ByteSize(m)
         /\ Parse(m.type, Serialize(m)) = Unless(Strings(m) \cap NotUtf8, m)
         /\ Parse(m.type, Serialize(m) \o <<Unknown15>>) = Unless(Strings(m) \cap NotUtf8, m)
         /\ Parse(m.type, <<Field(EndGroup, 0)>> \o Serialize(m)) = {}
         /\ Copy(m) = m
<1>1. PICK M : Understood(M, m)
  BY MessageUnderstood
<1> QED BY <1>1, UnderstoodRoundTrip

(* Frame with its definitions expanded.                                    *)
Framed(m) ==
  [len |-> kHeaderLen + NameLen + ByteSize(m) + kHeaderLen, nameLen |-> NameLen, type |-> m.type,
   fields |-> Serialize(m), checkSum |-> <<NameLen, m.type, Serialize(m)>>,
   size |-> kHeaderLen + (kHeaderLen + NameLen + ByteSize(m) + kHeaderLen)]

(* Framed is Frame.                                                        *)
LEMMA FrameIs ==
  ASSUME NEW m
  PROVE  Frame(m) = Framed(m)
BY DEF Frame, Framed, CheckSum
-----------------------------------------------------------------------------
(* What a script may send.                                                 *)
Items == [msg : Message, forwarded : BOOLEAN, defect : Defects]

(* An item of a script that fits a frame.                                  *)
GoodItems ==
  {item \in Items :
     /\ \A text \in Contents(item.msg) : Len(text) \in Nat
     /\ 2 * kHeaderLen + NameLen + ByteSize(item.msg) + 2 <= kMaxMessageLen}

(* Scripts are made of such items.                                         *)
LEMMA ScriptsAreGood == \A s \in Scripts : s \in Seq(GoodItems)
<1> SUFFICES ASSUME NEW s \in Scripts PROVE s \in Seq(GoodItems)
  OBVIOUS
<1>1. s \in Seq(Items)
  BY ScriptsAssumption DEF Items
<1>2. \A i \in 1..Len(s) : s[i] \in GoodItems
  <2>1. DOMAIN s = 1..Len(s) /\ \A i \in 1..Len(s) : s[i] \in Items
    BY <1>1, ElementOfSeq
  <2> QED BY <2>1, ScriptsAssumption DEF GoodItems
<1> QED BY <1>1, <1>2

(* onMessage takes the message m from the frame f.                         *)
Accepted(f, m) ==
  /\ f.size = kHeaderLen + f.len /\ ~LengthInvalid(f) /\ ParseError(f) = "kNoError"
  /\ Parse(f.type, f.fields) = {m}

(* onMessage calls the error callback for the frame f.                     *)
Refused(f) == LengthInvalid(f) \/ ParseError(f) # "kNoError"

(* A frame of a well-formed item is accepted, with the message that was    *)
(* sent; every other one is refused, by the length check or by one of the  *)
(* checks of parse (lkpCodec.cc:133-144, 180-229).                         *)
LEMMA FrameArrives ==
  ASSUME NEW item \in GoodItems
  PROVE  LET f == Spoil(Frame(item.msg), item.defect)
         IN  /\ f.len \in Nat /\ f.size \in Nat /\ f.type \in TypeNames \cup {"Other"}
             /\ WellFormed(item) => Accepted(f, item.msg)
             /\ ~WellFormed(item) => Refused(f)
<1>1. PICK m, defect : m = item.msg /\ defect = item.defect
  OBVIOUS
<1>2. m \in Message /\ defect \in Defects
  BY <1>1 DEF GoodItems, Items
<1>3. \A text \in Contents(m) : Len(text) \in Nat
  BY <1>1 DEF GoodItems
<1>4. PICK M : Understood(M, m)
  BY <1>2, <1>3, MessageUnderstood
<1>5. PICK n \in Nat, H \in Nat, L \in Nat :
        /\ n = ByteSize(m) /\ H = kHeaderLen /\ L = NameLen
        /\ H >= 1 /\ L >= 2 /\ 2 * H + L + n + 2 <= kMaxMessageLen
  <2>1. ByteSize(m) \in Nat
    BY <1>4, UnderstoodRoundTrip
  <2>2. 2 * kHeaderLen + NameLen + ByteSize(m) + 2 <= kMaxMessageLen
    BY <1>1 DEF GoodItems
  <2> QED BY <2>1, <2>2, CodecAssumption
<1>6. PICK type, s, r, more, end :
        /\ type = m.type /\ s = Serialize(m) /\ r = Unless(Strings(m) \cap NotUtf8, m)
        /\ more = Unknown15 /\ end = Field(EndGroup, 0)
  OBVIOUS
<1>7. /\ Parse(type, s) = r /\ Parse(type, s \o <<more>>) = r /\ Parse(type, <<end>> \o s) = {}
  BY <1>4, <1>6, UnderstoodRoundTrip
<1>8. type \in TypeNames
  BY <1>2, <1>3, <1>6, MessageUnderstood
<1>9. PICK len \in Nat : len = H + L + n + H
  OBVIOUS
<1>10. PICK fr : fr = [len |-> len, nameLen |-> L, type |-> type, fields |-> s,
                       checkSum |-> <<L, type, s>>, size |-> H + len]
  OBVIOUS
<1>11. Frame(m) = fr
  BY <1>5, <1>6, <1>9, <1>10, FrameIs DEF Framed
<1>12. kMinMessageLen = 2 * H + 2 /\ kMaxMessageLen \in Nat
  BY <1>5, CodecAssumption DEF kMinMessageLen
<1>13. WellFormed(item) <=> defect \in {"none", "newer"} /\ Strings(m) \cap NotUtf8 = {}
  BY <1>1 DEF WellFormed
<1>14. Strings(m) \cap NotUtf8 = {} => r = {m}
  BY <1>6 DEF Unless
<1>15. Strings(m) \cap NotUtf8 # {} => r = {}
  BY <1>6 DEF Unless
<1>16. PICK f : f = Spoil(fr, defect)
  OBVIOUS
<1> DEFINE Good(l, flds) ==
             f = [len |-> l, nameLen |-> L, type |-> type, fields |-> flds,
                  checkSum |-> <<L, type, flds>>, size |-> H + l]
           Goal == /\ f.len \in Nat /\ f.size \in Nat /\ f.type \in TypeNames \cup {"Other"}
                   /\ WellFormed(item) => Accepted(f, m)
                   /\ ~WellFormed(item) => Refused(f)
<1>17. ASSUME NEW l \in Nat, NEW flds, Good(l, flds), l = len \/ l = len + 2,
              Parse(type, flds) = r, defect \in {"none", "newer"}
       PROVE  Goal
  <2>1. /\ f.len = l /\ f.nameLen = L /\ f.type = type /\ f.fields = flds
        /\ f.checkSum = <<L, type, flds>> /\ f.size = H + l
    BY <1>17
  <2>2. f.checkSum = CheckSum(f)
    BY <2>1 DEF CheckSum
  <2>3. 2 <= f.nameLen /\ f.nameLen <= f.len - 2 * kHeaderLen
    BY <1>5, <1>9, <1>17, <2>1
  <2>4. ~LengthInvalid(f)
    BY <1>5, <1>9, <1>12, <1>17, <2>1 DEF LengthInvalid
  <2>5. ParseError(f) = IF r = {} THEN "kParseError" ELSE "kNoError"
    BY <1>8, <1>17, <2>1, <2>2, <2>3 DEF ParseError
  <2>6. f.len \in Nat /\ f.size \in Nat /\ f.type \in TypeNames /\ f.size = kHeaderLen + f.len
    BY <1>5, <1>8, <2>1
  <2>7. CASE WellFormed(item)
    BY <1>13, <1>14, <1>17, <2>1, <2>4, <2>5, <2>6, <2>7 DEF Accepted
  <2>8. CASE ~WellFormed(item)
    BY <1>13, <1>15, <1>17, <2>5, <2>6, <2>8 DEF Refused
  <2> QED BY <2>6, <2>7, <2>8
<1>18. ASSUME defect = "none" PROVE Goal
  <2>1. f = fr
    BY <1>16, <1>18 DEF Spoil
  <2>2. Good(len, s)
    BY <1>10, <2>1
  <2> HIDE DEF Good, Goal
  <2> QED BY <1>7, <1>17, <1>18, <2>2
<1>19. ASSUME defect = "newer" PROVE Goal
  <2>1. f = Resum([fr EXCEPT !.fields = @ \o <<Unknown15>>, !.len = @ + 2, !.size = @ + 2])
    BY <1>16, <1>19 DEF Spoil
  <2>a. PICK flds : flds = s \o <<more>>
    OBVIOUS
  <2>b. PICK l \in Nat : l = len + 2
    OBVIOUS
  <2>2. flds = s \o <<more>> /\ l = len + 2
    BY <2>a, <2>b
  <2>3. PICK g : g = [fr EXCEPT !.fields = @ \o <<Unknown15>>, !.len = @ + 2, !.size = @ + 2]
    OBVIOUS
  <2>4. g = [len |-> l, nameLen |-> L, type |-> type, fields |-> flds,
             checkSum |-> <<L, type, s>>, size |-> H + l]
    <3>1. (H + len) + 2 = H + l
      BY <2>2
    <3> QED BY <1>6, <1>10, <2>2, <2>3, <3>1
  <2>5. f = [g EXCEPT !.checkSum = <<L, type, flds>>]
    <3>1. g.nameLen = L /\ g.type = type /\ g.fields = flds
      BY <2>4
    <3>2. CheckSum(g) = <<L, type, flds>>
      BY <3>1 DEF CheckSum
    <3> QED BY <2>1, <2>3, <3>2 DEF Resum
  <2>6. Good(l, flds)
    BY <2>4, <2>5
  <2> HIDE DEF Good, Goal
  <2> QED BY <1>7, <1>17, <1>19, <2>2, <2>6
<1>20. ASSUME defect \notin {"none", "newer"}, f.len \in Nat, f.size \in Nat,
              f.type \in TypeNames \cup {"Other"}, Refused(f)
       PROVE  Goal
  BY <1>13, <1>20
<1>21. /\ fr.len = len /\ fr.nameLen = L /\ fr.type = type /\ fr.fields = s
       /\ fr.checkSum = <<L, type, s>> /\ fr.size = H + len /\ H + len \in Nat
       /\ fr = [len |-> len, nameLen |-> L, type |-> type, fields |-> s,
                checkSum |-> <<L, type, s>>, size |-> H + len]
  BY <1>10
<1>22. ASSUME defect = "length" PROVE Goal
  <2>1. f = [fr EXCEPT !.len = kMinMessageLen - 1]
    BY <1>16, <1>22 DEF Spoil
  <2>2. f.len = kMinMessageLen - 1 /\ f.size = H + len /\ f.type = type
    BY <1>21, <2>1
  <2>3. LengthInvalid(f) /\ f.len \in Nat
    BY <1>12, <2>2 DEF LengthInvalid
  <2> HIDE DEF Goal
  <2> QED BY <1>8, <1>20, <1>21, <1>22, <2>2, <2>3 DEF Refused
<1>23. ASSUME defect = "checksum" PROVE Goal
  <2>1. f = [fr EXCEPT !.checkSum = <<>>]
    BY <1>16, <1>23 DEF Spoil
  <2>2. f.len = len /\ f.size = H + len /\ f.type = type /\ f.checkSum = <<>>
    BY <1>21, <2>1
  <2>3. f.checkSum # CheckSum(f)
    <3>1. \A x, y, z : <<>> # <<x, y, z>>
      OBVIOUS
    <3> QED BY <2>2, <3>1 DEF CheckSum
  <2>4. ParseError(f) = "kCheckSumError"
    BY <2>3 DEF ParseError
  <2> HIDE DEF Goal
  <2> QED BY <1>8, <1>20, <1>21, <1>23, <2>2, <2>4 DEF Refused
<1>24. ASSUME defect = "nameLen" PROVE Goal
  <2>1. f = Resum([fr EXCEPT !.nameLen = fr.len])
    BY <1>16, <1>24 DEF Spoil
  <2>2. f.len = len /\ f.size = H + len /\ f.type = type /\ f.nameLen = len
    BY <1>21, <2>1 DEF Resum
  <2>3. ~(f.nameLen <= f.len - 2 * kHeaderLen)
    BY <1>5, <2>2
  <2>4. ParseError(f) # "kNoError"
    BY <2>3 DEF ParseError
  <2> HIDE DEF Goal
  <2> QED BY <1>8, <1>20, <1>21, <1>24, <2>2, <2>4 DEF Refused
<1>25. ASSUME defect = "type" PROVE Goal
  <2>1. f = Resum([fr EXCEPT !.type = "Other"])
    BY <1>16, <1>25 DEF Spoil
  <2>2. f.len = len /\ f.size = H + len /\ f.type = "Other"
    BY <1>21, <2>1 DEF Resum
  <2>3. "Other" \notin TypeNames
    <3>1. /\ NewCommand.type = "Command" /\ NewFile.type = "File"
          /\ NewCommandACK.type = "CommandACK" /\ NewHeartBeat.type = "HeartBeat"
          /\ NewPushACK.type = "PushACK" /\ NewReturn.type = "Return"
      BY DEF NewCommand, NewFile, NewCommandACK, NewHeartBeat, NewPushACK, NewReturn
    <3>2. \A p \in Prototypes : p.type # "Other"
      BY <3>1 DEF Prototypes
    <3> QED BY <3>2 DEF TypeNames
  <2>4. ParseError(f) # "kNoError"
    BY <2>2, <2>3 DEF ParseError
  <2> HIDE DEF Goal
  <2> QED BY <1>20, <1>21, <1>25, <2>2, <2>4 DEF Refused
<1>26. ASSUME defect = "payload" PROVE Goal
  <2>1. f = Resum([fr EXCEPT !.fields = <<end>> \o @])
    BY <1>6, <1>16, <1>26 DEF Spoil
  <2>2. f.len = len /\ f.size = H + len /\ f.type = type /\ f.fields = <<end>> \o s
    BY <1>21, <2>1 DEF Resum
  <2>3. Parse(f.type, f.fields) = {}
    BY <1>7, <2>2
  <2>4. ParseError(f) # "kNoError"
    BY <2>3 DEF ParseError
  <2> HIDE DEF Goal
  <2> QED BY <1>8, <1>20, <1>21, <1>26, <2>2, <2>4 DEF Refused
<1>27. Goal
  <2> HIDE DEF Goal
  <2> QED BY <1>2, <1>18, <1>19, <1>22, <1>23, <1>24, <1>25, <1>26 DEF Defects
<1> QED BY <1>1, <1>11, <1>16, <1>27
-----------------------------------------------------------------------------
(* The frame of an item as it arrives.                                     *)
Arrival(item) == Spoil(Frame(item.msg), item.defect)
(* The frames that may arrive.                                             *)
Arrivals == {Arrival(item) : item \in GoodItems}

(* Their sizes are numbers.                                                *)
LEMMA ArrivalSized == \A f \in Arrivals : f.size \in Nat
BY FrameArrives DEF Arrivals, Arrival

(* The sizes of the frames of a stream.                                    *)
Sizes(s) == [i \in DOMAIN s |-> s[i].size]

(* Two streams, one after the other, are as long as both.                  *)
LEMMA SizesConcat ==
  ASSUME NEW s \in Seq(Arrivals), NEW t \in Seq(Arrivals)
  PROVE  /\ Total(Sizes(s)) \in Nat
         /\ Total(Sizes(s \o t)) = Total(Sizes(s)) + Total(Sizes(t))
<1>1. PICK u \in Seq(Arrivals) : u = s \o t
  BY ConcatProperties
<1>2. ASSUME NEW r \in Seq(Arrivals)
      PROVE  Sizes(r) \in Seq(Nat)
  <2>1. Len(r) \in Nat /\ DOMAIN r = 1..Len(r) /\ \A i \in 1..Len(r) : r[i] \in Arrivals
    BY ElementOfSeq
  <2>2. \A i \in 1..Len(r) : r[i].size \in Nat
    BY <2>1, ArrivalSized
  <2> QED BY <2>1, <2>2 DEF Sizes
<1>3. PICK a \in Seq(Nat), b \in Seq(Nat), c \in Seq(Nat) :
        a = Sizes(s) /\ b = Sizes(t) /\ c = Sizes(u)
  BY <1>1, <1>2
<1>4. PICK m \in Nat, n \in Nat : m = Len(s) /\ n = Len(t)
  OBVIOUS
<1>5. /\ DOMAIN s = 1..m /\ DOMAIN t = 1..n /\ DOMAIN u = 1..(m + n)
      /\ \A i \in 1..(m + n) : u[i] = IF i <= m THEN s[i] ELSE t[i - m]
  BY <1>1, <1>4, ConcatProperties
<1>6. Len(a) = m /\ Len(b) = n /\ Len(c) = m + n
  BY <1>3, <1>4, <1>5 DEF Sizes
<1>7. c = a \o b
  <2>1. /\ a \o b \in Seq(Nat) /\ Len(a \o b) = m + n
        /\ \A i \in 1..(m + n) : (a \o b)[i] = IF i <= m THEN a[i] ELSE b[i - m]
    BY <1>6, ConcatProperties
  <2>2. \A i \in 1..(m + n) : c[i] = IF i <= m THEN a[i] ELSE b[i - m]
    BY <1>3, <1>5 DEF Sizes
  <2>3. PICK d \in Seq(Nat) : d = a \o b
    BY <2>1
  <2>4. Len(d) = Len(c) /\ \A i \in 1..Len(c) : c[i] = d[i]
    BY <1>6, <2>1, <2>2, <2>3
  <2>5. c = d
    BY <2>4, SeqEqual
  <2> QED BY <2>3, <2>5
<1> QED BY <1>1, <1>3, <1>7, TotalConcat

(* The lengths of no frame and of one.                                     *)
LEMMA SizesShort == Total(Sizes(<<>>)) = 0 /\ \A f \in Arrivals : Total(Sizes(<<f>>)) = f.size
<1>1. Sizes(<<>>) = <<>>
  BY DEF Sizes
<1>2. ASSUME NEW f \in Arrivals PROVE Total(Sizes(<<f>>)) = f.size
  <2>1. Sizes(<<f>>) = <<f.size>>
    BY DEF Sizes
  <2> QED BY <2>1, ArrivalSized, TotalShort
<1> QED BY <1>1, <1>2, TotalShort

(* Sending adds the bytes of the frame.                                    *)
LEMMA SizesAppend ==
  ASSUME NEW s \in Seq(Arrivals), NEW f \in Arrivals
  PROVE  Total(Sizes(Append(s, f))) = Total(Sizes(s)) + f.size
<1>1. PICK one \in Seq(Arrivals) : one = <<f>>
  <2>1. <<f>> \in Seq(Arrivals)
    OBVIOUS
  <2> QED BY <2>1
<1>2. Append(s, f) = s \o one
  BY <1>1, AppendIsConcat
<1> QED BY <1>1, <1>2, SizesConcat, SizesShort

(* Handling the first frame removes its bytes.                             *)
LEMMA SizesTail ==
  ASSUME NEW s \in Seq(Arrivals), s # <<>>
  PROVE  /\ Head(s) \in Arrivals /\ Tail(s) \in Seq(Arrivals)
         /\ Total(Sizes(s)) = Head(s).size + Total(Sizes(Tail(s)))
<1>1. PICK f \in Arrivals, t \in Seq(Arrivals) : f = Head(s) /\ t = Tail(s)
  BY HeadTailProperties
<1>2. PICK one \in Seq(Arrivals) : one = <<f>>
  <2>1. <<f>> \in Seq(Arrivals)
    OBVIOUS
  <2> QED BY <2>1
<1>3. s = one \o t
  BY <1>1, <1>2
<1>4. Total(Sizes(one \o t)) = Total(Sizes(one)) + Total(Sizes(t)) /\ Total(Sizes(one)) = f.size
  BY <1>2, SizesConcat, SizesShort
<1> QED BY <1>1, <1>3, <1>4

(* What the loop finds, as a function of the bytes and the first frame.    *)
Found(n, f) ==
  IF n < kMinMessageLen + kHeaderLen THEN "more"
  ELSE IF LengthInvalid(f) THEN "kInvalidLength"
  ELSE IF n < f.len + kHeaderLen THEN "more"
  ELSE ParseError(f)

(* HeadOfBuffer is Found, before and after a step.                         *)
LEMMA HeadFound ==
  HeadOfBuffer = Found(readable, Head(stream)) /\ HeadOfBuffer' = Found(readable', Head(stream'))
BY DEF HeadOfBuffer, Found

(* In an empty buffer nothing is found.                                    *)
LEMMA FoundNothing == \A f : Found(0, f) = "more"
<1>1. kHeaderLen \in Nat /\ kHeaderLen >= 1
  BY CodecAssumption
<1>2. 0 < kMinMessageLen + kHeaderLen
  BY <1>1 DEF kMinMessageLen
<1> QED BY <1>2 DEF Found

(* What was found is found again when there are more bytes.                *)
LEMMA FoundStays ==
  ASSUME NEW n \in Nat, NEW k \in Nat, NEW f, f.len \in Nat, Found(n, f) # "more"
  PROVE  Found(n + k, f) = Found(n, f)
<1>1. kHeaderLen \in Nat
  BY CodecAssumption
<1>2. PICK c \in Nat : c = kMinMessageLen + kHeaderLen
  BY <1>1 DEF kMinMessageLen
<1>3. PICK l \in Nat : l = f.len + kHeaderLen
  BY <1>1
<1>4. ~(n < c) /\ ~(n + k < c)
  BY <1>2 DEF Found
<1>5. CASE LengthInvalid(f)
  BY <1>2, <1>4, <1>5 DEF Found
<1>6. CASE ~LengthInvalid(f)
  <2>1. ~(n < l) /\ ~(n + k < l)
    BY <1>2, <1>3, <1>4, <1>6 DEF Found
  <2> QED BY <1>2, <1>3, <1>4, <1>6, <2>1 DEF Found
<1> QED BY <1>5, <1>6

(* What is found is an error code or "more".                               *)
LEMMA FoundCode ==
  ASSUME NEW n, NEW f
  PROVE  Found(n, f) \in ErrorCodes \cup {"more"} /\ ParseError(f) # "more"
BY DEF Found, ErrorCodes, ParseError

-----------------------------------------------------------------------------
(* The stream holds the frames of the items that were sent and not yet     *)
(* delivered, in the order they were sent.                                 *)
Ordered ==
  /\ script \in Seq(GoodItems) /\ sent \in Seq(GoodItems)
  /\ delivered \in Seq(Message) /\ stream \in Seq(Arrivals)
  /\ Len(delivered) + Len(stream) = Len(sent)
  /\ \A i \in 1..Len(stream) : stream[i] = Arrival(sent[Len(delivered) + i])

(* What is readable is part of the stream.                                 *)
Buffered == readable \in Nat /\ readable <= Total(Sizes(stream))

(* The types of the rest; the sender was not ended.                        *)
Typed ==
  /\ looping \in BOOLEAN /\ aborted = FALSE
  /\ conn \in {"connected", "shutdown", "closed"} /\ errorCode \in ErrorCodes

(* After an error the refused frame is still at the head of the buffer and *)
(* complete.                                                               *)
StillRefused == errorCode # "kNoError" => HeadOfBuffer \notin {"kNoError", "more"}

(* The inductive invariant: order and contents of the stream, what the     *)
(* buffer holds of it, and what an error and a call of onMessage leave     *)
(* behind.                                                                 *)
CodecInv == Ordered /\ Buffered /\ Typed /\ StillRefused /\ NothingLeftBehind

(* The item whose message is delivered next.                               *)
NextItem == sent[Len(delivered) + 1]

(* What is at the head of the buffer, once there are enough bytes to look  *)
(* at it, is the frame of the next item.                                   *)
LEMMA HeadIsNext ==
  ASSUME Ordered, Buffered, HeadOfBuffer # "more"
  PROVE  /\ stream # <<>> /\ Head(stream) = Arrival(NextItem) /\ NextItem \in GoodItems
         /\ Len(delivered) < Len(sent)
<1>1. stream # <<>>
  <2> SUFFICES ASSUME stream = <<>> PROVE FALSE
    OBVIOUS
  <2>1. readable = 0
    BY SizesShort DEF Buffered
  <2> QED BY <2>1, HeadFound, FoundNothing
<1>2. PICK d \in Nat, n \in Nat, k \in Nat : d = Len(delivered) /\ n = Len(stream) /\ k = Len(sent)
  BY DEF Ordered
<1>3. n # 0
  BY <1>1, <1>2, EmptySeq DEF Ordered
<1>4. d + n = k /\ 1 \in 1..n /\ d + 1 \in 1..k
  BY <1>2, <1>3 DEF Ordered
<1>5. stream[1] = Arrival(sent[d + 1])
  BY <1>2, <1>4 DEF Ordered
<1>6. Head(stream) = stream[1]
  BY <1>1 DEF Ordered
<1>7. sent[d + 1] \in GoodItems
  BY <1>2, <1>4, ElementOfSeq DEF Ordered
<1> QED BY <1>1, <1>2, <1>4, <1>5, <1>6, <1>7 DEF NextItem

(* When the loop finds a good frame, its item is well formed, the whole    *)
(* frame is in the buffer, and its message is the one sent; when it finds  *)
(* an error, the item is not well formed.                                  *)
LEMMA HeadDecides ==
  ASSUME Ordered, Buffered, HeadOfBuffer # "more"
  PROVE  LET f == Head(stream)
         IN  /\ f.size \in Nat /\ f.len \in Nat
             /\ HeadOfBuffer = "kNoError" =>
                  /\ WellFormed(NextItem) /\ f.size = kHeaderLen + f.len /\ f.size <= readable
                  /\ Parse(f.type, f.fields) = {NextItem.msg}
             /\ HeadOfBuffer # "kNoError" => ~WellFormed(NextItem)
<1>1. PICK f, item : f = Head(stream) /\ item = NextItem
  OBVIOUS
<1>2. f = Arrival(item) /\ item \in GoodItems
  BY <1>1, HeadIsNext
<1>3. /\ f.len \in Nat /\ f.size \in Nat
      /\ WellFormed(item) => Accepted(f, item.msg)
      /\ ~WellFormed(item) => Refused(f)
  BY <1>2, FrameArrives DEF Arrival
<1>4. PICK code : code = HeadOfBuffer /\ code = Found(readable, f) /\ code # "more"
  BY <1>1, HeadFound
<1>5. PICK l \in Nat, n \in Nat : l = f.len + kHeaderLen /\ n = readable
  <2>1. kHeaderLen \in Nat
    BY CodecAssumption
  <2> QED BY <1>3, <2>1 DEF Buffered
<1>6. CASE WellFormed(item)
  <2>1. /\ f.size = kHeaderLen + f.len /\ ~LengthInvalid(f) /\ ParseError(f) = "kNoError"
        /\ Parse(f.type, f.fields) = {item.msg}
    BY <1>3, <1>6 DEF Accepted
  <2>2. ~(n < l) /\ code = "kNoError"
    BY <1>4, <1>5, <2>1 DEF Found
  <2>3. f.size <= readable
    <3>1. f.size = l
      BY <1>3, <1>5, <2>1, CodecAssumption
    <3> QED BY <1>5, <2>2, <3>1
  <2> QED BY <1>1, <1>3, <1>4, <1>6, <2>1, <2>2, <2>3
<1>7. CASE ~WellFormed(item)
  <2>1. code # "kNoError"
    BY <1>3, <1>4, <1>7 DEF Found, Refused
  <2> QED BY <1>1, <1>3, <1>4, <1>7, <2>1
<1> QED BY <1>6, <1>7
-----------------------------------------------------------------------------
(* On a new connection nothing is sent, buffered or refused.               *)
LEMMA InitInv == Init => CodecInv
<1> SUFFICES ASSUME Init PROVE CodecInv
  OBVIOUS
<1>1. /\ script \in Scripts /\ sent = <<>> /\ stream = <<>> /\ readable = 0 /\ looping = FALSE
      /\ conn = "connected" /\ errorCode = "kNoError" /\ delivered = <<>> /\ aborted = FALSE
  BY DEF Init
<1>2. Ordered
  BY <1>1, ScriptsAreGood DEF Ordered
<1>3. Buffered
  BY <1>1, SizesShort DEF Buffered
<1>4. HeadOfBuffer = "more"
  BY <1>1, HeadFound, FoundNothing
<1> QED BY <1>1, <1>2, <1>3, <1>4 DEF CodecInv, Typed, ErrorCodes, StillRefused, NothingLeftBehind

(* fillEmptyBuffer finds the size it computed, also for a message that was *)
(* copied when it was forwarded.                                           *)
LEMMA SendConsistent ==
  ASSUME NEW item \in GoodItems
  PROVE  Copy(item.msg) = item.msg /\ ByteSizeConsistent(item.msg)
<1>1. PICK m : m = item.msg
  OBVIOUS
<1>2. m \in Message /\ \A text \in Contents(m) : Len(text) \in Nat
  BY <1>1 DEF GoodItems, Items
<1>3. PICK M : Understood(M, m)
  BY <1>2, MessageUnderstood
<1> QED BY <1>1, <1>3, UnderstoodRoundTrip DEF ByteSizeConsistent

(* Send appends one frame to the stream and cannot end the program.        *)
LEMMA SendSteps ==
  ASSUME Ordered, Send
  PROVE  /\ sent' = Append(sent, script[Len(sent) + 1]) /\ script[Len(sent) + 1] \in GoodItems
         /\ stream' = Append(stream, Arrival(script[Len(sent) + 1]))
         /\ UNCHANGED <<script, readable, looping, conn, errorCode, delivered, aborted>>
<1>1. PICK item, m : /\ item = script[Len(sent) + 1]
                     /\ m = IF item.forwarded THEN Copy(item.msg) ELSE item.msg
  OBVIOUS
<1>2. item \in GoodItems
  <2>1. PICK n \in Nat, k \in Nat : n = Len(sent) /\ k = Len(script)
    BY DEF Ordered
  <2>2. n < k
    BY <2>1 DEF Send
  <2>3. n + 1 \in 1..k
    BY <2>2
  <2> QED BY <1>1, <2>1, <2>3, ElementOfSeq DEF Ordered
<1>3. m = item.msg /\ ByteSizeConsistent(m)
  BY <1>1, <1>2, SendConsistent
<1>4. /\ sent' = Append(sent, item) /\ stream' = Append(stream, Spoil(Frame(m), item.defect))
      /\ UNCHANGED <<script, readable, looping, conn, errorCode, delivered, aborted>>
  BY <1>1, <1>3 DEF Send
<1> QED BY <1>1, <1>2, <1>3, <1>4 DEF Arrival

(* Sending keeps the invariant: what is at the head of the buffer stays    *)
(* there.                                                                  *)
LEMMA SendInv ==
  ASSUME CodecInv, Send
  PROVE  CodecInv'
<1>0. Ordered /\ Buffered /\ Typed /\ StillRefused /\ NothingLeftBehind
  BY DEF CodecInv
<1>1. PICK item, f : item = script[Len(sent) + 1] /\ f = Arrival(item)
  OBVIOUS
<1>2. /\ sent' = Append(sent, item) /\ item \in GoodItems /\ stream' = Append(stream, f)
      /\ UNCHANGED <<script, readable, looping, conn, errorCode, delivered, aborted>>
  BY <1>0, <1>1, SendSteps
<1>3. f \in Arrivals
  BY <1>1, <1>2 DEF Arrivals
<1>4. PICK d \in Nat, n \in Nat, k \in Nat : d = Len(delivered) /\ n = Len(stream) /\ k = Len(sent)
  BY <1>0 DEF Ordered
<1>5. d + n = k
  BY <1>0, <1>4 DEF Ordered
<1>6. /\ sent' \in Seq(GoodItems) /\ Len(sent') = k + 1 /\ sent'[k + 1] = item
      /\ \A i \in 1..k : sent'[i] = sent[i]
  BY <1>0, <1>2, <1>4, AppendProperties DEF Ordered
<1>7. /\ stream' \in Seq(Arrivals) /\ Len(stream') = n + 1 /\ stream'[n + 1] = f
      /\ \A i \in 1..n : stream'[i] = stream[i]
  BY <1>0, <1>2, <1>3, <1>4, AppendProperties DEF Ordered
<1>8. ASSUME NEW i \in 1..(n + 1) PROVE stream'[i] = Arrival(sent'[d + i])
  <2>1. CASE i = n + 1
    <3>1. d + i = k + 1
      BY <1>5, <2>1
    <3> QED BY <1>1, <1>6, <1>7, <2>1, <3>1
  <2>2. CASE i # n + 1
    <3>1. i \in 1..n /\ d + i \in 1..k
      BY <1>5, <2>2
    <3>2. stream[i] = Arrival(sent[d + i])
      BY <1>0, <1>4, <3>1 DEF Ordered
    <3>3. sent'[d + i] = sent[d + i] /\ stream'[i] = stream[i]
      BY <1>6, <1>7, <3>1
    <3> QED BY <3>2, <3>3
  <2> QED BY <2>1, <2>2
<1>9. Ordered'
  <2>1. d + (n + 1) = k + 1
    BY <1>5
  <2> QED BY <1>0, <1>2, <1>4, <1>6, <1>7, <1>8, <2>1 DEF Ordered
<1>10. Buffered'
  <2>1. PICK s \in Seq(Arrivals) : s = stream
    BY <1>0 DEF Ordered
  <2>2. /\ Total(Sizes(stream')) = Total(Sizes(s)) + f.size
        /\ f.size \in Nat /\ Total(Sizes(s)) \in Nat
    BY <1>2, <1>3, <2>1, SizesAppend, SizesConcat, ArrivalSized
  <2>3. readable' = readable /\ readable \in Nat /\ readable <= Total(Sizes(s))
    BY <1>0, <1>2, <2>1 DEF Buffered
  <2>4. PICK x \in Nat, y \in Nat, z \in Nat : x = Total(Sizes(s)) /\ y = f.size /\ z = readable
    BY <2>2, <2>3
  <2>5. z <= x + y
    BY <2>3, <2>4
  <2> QED BY <2>2, <2>3, <2>4, <2>5 DEF Buffered
<1>11. HeadOfBuffer' = HeadOfBuffer
  <2>1. CASE stream = <<>>
    <3>1. readable = 0 /\ readable' = 0
      BY <1>0, <1>2, <2>1, SizesShort DEF Buffered
    <3> QED BY <3>1, HeadFound, FoundNothing
  <2>2. CASE stream # <<>>
    <3>1. Head(stream') = Head(stream)
      BY <1>0, <1>2, <2>2, HeadTailAppend DEF Ordered
    <3> QED BY <1>2, <3>1, HeadFound
  <2> QED BY <2>1, <2>2
<1> QED BY <1>0, <1>2, <1>9, <1>10, <1>11 DEF CodecInv, Typed, StillRefused, NothingLeftBehind

(* What TCP has yet to bring.                                              *)
LEMMA InTransitIs ==
  InTransit = Total(Sizes(stream)) - readable
BY DEF InTransit, Sizes

(* Bytes that arrive keep the invariant.                                   *)
LEMMA ReceiveInv ==
  ASSUME CodecInv, NEW n \in 1..InTransit, Receive(n)
  PROVE  CodecInv'
<1>0. Ordered /\ Buffered /\ Typed /\ StillRefused /\ NothingLeftBehind
  BY DEF CodecInv
<1>1. /\ readable' = readable + n /\ looping' = TRUE /\ stream' = stream
      /\ UNCHANGED <<script, sent, stream, conn, errorCode, delivered, aborted>>
  BY DEF Receive
<1>2. PICK t \in Nat, r \in Nat : t = Total(Sizes(stream)) /\ r = readable /\ r <= t
  BY <1>0, SizesConcat DEF Ordered, Buffered
<1>3. n \in Nat /\ n <= t - r
  BY <1>2, InTransitIs
<1>4. Buffered'
  <2>1. r + n \in Nat /\ r + n <= t
    BY <1>3
  <2> QED BY <1>1, <1>2, <2>1 DEF Buffered
<1>5. Ordered'
  BY <1>0, <1>1 DEF Ordered
<1>6. StillRefused'
  <2> SUFFICES ASSUME errorCode # "kNoError" PROVE HeadOfBuffer' \notin {"kNoError", "more"}
    BY <1>1 DEF StillRefused
  <2>1. HeadOfBuffer \notin {"kNoError", "more"}
    BY <1>0 DEF StillRefused
  <2>2. Head(stream).len \in Nat
    BY <1>0, <2>1, HeadDecides
  <2>3. HeadOfBuffer' = HeadOfBuffer
    BY <1>1, <1>2, <1>3, <2>1, <2>2, HeadFound, FoundStays
  <2> QED BY <2>1, <2>3
<1> QED BY <1>0, <1>1, <1>4, <1>5, <1>6 DEF CodecInv, Typed, NothingLeftBehind
-----------------------------------------------------------------------------
(* One turn of the loop with a good frame delivers the next message and    *)
(* retrieves exactly its frame, kHeaderLen + len (lkpCodec.cc:139-147).    *)
LEMMA HandleSteps ==
  ASSUME Ordered, Buffered, HandleFrame
  PROVE  /\ HeadOfBuffer = "kNoError" /\ looping
         /\ stream # <<>> /\ NextItem \in GoodItems /\ Len(delivered) < Len(sent)
         /\ WellFormed(NextItem)
         /\ Head(stream).size <= readable /\ readable' = readable - Head(stream).size
         /\ delivered' = Append(delivered, NextItem.msg)
         /\ stream' = Tail(stream)
         /\ conn' \in {conn, "shutdown"}
         /\ UNCHANGED <<script, sent, looping, errorCode, aborted>>
<1>1. PICK f, item : f = Head(stream) /\ item = NextItem
  OBVIOUS
<1>2. /\ looping /\ HeadOfBuffer = "kNoError" /\ stream' = Tail(stream)
      /\ readable' = readable - (kHeaderLen + f.len)
      /\ UNCHANGED <<script, sent, looping, errorCode, aborted>>
      /\ \E m \in Parse(f.type, f.fields) : Dispatch(m)
  BY <1>1 DEF HandleFrame
<1>3. stream # <<>> /\ item \in GoodItems /\ Len(delivered) < Len(sent)
  BY <1>1, <1>2, HeadIsNext
<1>4. /\ WellFormed(item) /\ f.size = kHeaderLen + f.len /\ f.size <= readable
      /\ Parse(f.type, f.fields) = {item.msg}
  BY <1>1, <1>2, HeadDecides
<1>5. Dispatch(item.msg)
  BY <1>2, <1>4
<1>6. delivered' = Append(delivered, item.msg) /\ conn' \in {conn, "shutdown"}
  BY <1>5 DEF Dispatch
<1> QED BY <1>1, <1>2, <1>3, <1>4, <1>6

(* Handling a frame keeps the invariant.                                   *)
LEMMA HandleInv ==
  ASSUME CodecInv, HandleFrame
  PROVE  CodecInv'
<1>0. Ordered /\ Buffered /\ Typed /\ StillRefused /\ NothingLeftBehind
  BY DEF CodecInv
<1>1. PICK f, m : f = Head(stream) /\ m = NextItem.msg
  OBVIOUS
<1>2. /\ HeadOfBuffer = "kNoError" /\ looping
      /\ stream # <<>> /\ NextItem \in GoodItems
      /\ f.size <= readable /\ readable' = readable - f.size
      /\ delivered' = Append(delivered, m)
      /\ stream' = Tail(stream)
      /\ conn' \in {conn, "shutdown"}
      /\ UNCHANGED <<script, sent, looping, errorCode, aborted>>
  BY <1>0, <1>1, HandleSteps
<1>3. m \in Message
  BY <1>1, <1>2 DEF GoodItems, Items
<1>4. PICK d \in Nat, n \in Nat, k \in Nat : d = Len(delivered) /\ n = Len(stream) /\ k = Len(sent)
  BY <1>0 DEF Ordered
<1>5. d + n = k /\ n # 0
  BY <1>0, <1>2, <1>4, EmptySeq DEF Ordered
<1>6. delivered' \in Seq(Message) /\ Len(delivered') = d + 1
  BY <1>0, <1>2, <1>3, <1>4, AppendProperties DEF Ordered
<1>7. /\ stream' \in Seq(Arrivals) /\ Len(stream') = n - 1
      /\ \A i \in 1..(n - 1) : stream'[i] = stream[i + 1]
  BY <1>0, <1>2, <1>4, HeadTailProperties DEF Ordered
<1>8. ASSUME NEW i \in 1..(n - 1) PROVE stream'[i] = Arrival(sent'[(d + 1) + i])
  <2>1. i + 1 \in 1..n /\ d + (i + 1) = (d + 1) + i
    OBVIOUS
  <2>2. stream[i + 1] = Arrival(sent[d + (i + 1)])
    BY <1>0, <1>4, <2>1 DEF Ordered
  <2> QED BY <1>2, <1>7, <2>1, <2>2
<1>9. Ordered'
  <2>1. (d + 1) + (n - 1) = k
    BY <1>5
  <2> QED BY <1>0, <1>2, <1>4, <1>6, <1>7, <1>8, <2>1 DEF Ordered
<1>10. Buffered'
  <2>1. PICK s \in Seq(Arrivals) : s = stream
    BY <1>0 DEF Ordered
  <2>2. /\ f \in Arrivals /\ Tail(s) \in Seq(Arrivals)
        /\ Total(Sizes(s)) = f.size + Total(Sizes(Tail(s)))
    BY <1>1, <1>2, <2>1, SizesTail
  <2>3. PICK x \in Nat, y \in Nat, z \in Nat :
               x = f.size /\ y = Total(Sizes(Tail(s))) /\ z = readable
    BY <1>0, <2>2, ArrivalSized, SizesConcat DEF Buffered
  <2>4. z <= x + y /\ x <= z
    BY <1>0, <1>2, <2>1, <2>2, <2>3 DEF Buffered
  <2>5. z - x \in Nat /\ z - x <= y
    BY <2>4
  <2> QED BY <1>2, <2>1, <2>3, <2>5 DEF Buffered
<1>11. errorCode = "kNoError" /\ errorCode' = "kNoError"
  BY <1>0, <1>2 DEF StillRefused
<1> QED BY <1>0, <1>2, <1>9, <1>10, <1>11 DEF CodecInv, Typed, StillRefused, NothingLeftBehind

(* The error callback records the first error and leaves the buffer as it  *)
(* is.                                                                     *)
LEMMA ReportSteps ==
  ASSUME ReportError
  PROVE  /\ looping /\ HeadOfBuffer \notin {"kNoError", "more"} /\ HeadOfBuffer \in ErrorCodes
         /\ errorCode' = IF errorCode = "kNoError" THEN HeadOfBuffer ELSE errorCode
         /\ conn' \in {conn, "shutdown"} /\ looping' = FALSE
         /\ UNCHANGED <<script, sent, stream, readable, delivered, aborted>>
<1>1. HeadOfBuffer \in ErrorCodes \cup {"more"}
  BY HeadFound, FoundCode
<1> QED BY <1>1 DEF ReportError

(* An error, the end of the loop, and the end of the connection keep the   *)
(* invariant.                                                              *)
LEMMA QuietInv ==
  ASSUME CodecInv, ReportError \/ WaitForMore \/ Closed \/ Break \/ UNCHANGED vars
  PROVE  CodecInv'
<1>0. Ordered /\ Buffered /\ Typed /\ StillRefused /\ NothingLeftBehind
  BY DEF CodecInv
<1>1. UNCHANGED <<script, sent, stream, readable, delivered, aborted>>
  BY DEF ReportError, WaitForMore, Closed, Break, vars
<1>2. Ordered' /\ Buffered'
  BY <1>0, <1>1 DEF Ordered, Buffered
<1>3. HeadOfBuffer' = HeadOfBuffer
  BY <1>1, HeadFound
<1>4. CASE ReportError
  BY <1>0, <1>1, <1>2, <1>3, <1>4, ReportSteps
  DEF CodecInv, Typed, StillRefused, NothingLeftBehind, ErrorCodes
<1>5. CASE WaitForMore
  BY <1>0, <1>1, <1>2, <1>3, <1>5
  DEF WaitForMore, CodecInv, Typed, StillRefused, NothingLeftBehind
<1>6. CASE Closed \/ Break \/ UNCHANGED vars
  BY <1>0, <1>1, <1>2, <1>3, <1>6
  DEF Closed, Break, vars, CodecInv, Typed, StillRefused, NothingLeftBehind
<1> QED BY <1>4, <1>5, <1>6

(* CodecInv holds in every state, for all scripts and all ways of cutting  *)
(* the stream.                                                             *)
THEOREM CodecInvariant == Spec => []CodecInv
<1>1. Init => CodecInv
  BY InitInv
<1>2. CodecInv /\ [Next]_vars => CodecInv'
  <2> SUFFICES ASSUME CodecInv, [Next]_vars PROVE CodecInv'
    OBVIOUS
  <2>1. CASE Send
    BY <2>1, SendInv
  <2>2. CASE \E n \in 1..InTransit : Receive(n)
    BY <2>2, ReceiveInv
  <2>3. CASE HandleFrame
    BY <2>3, HandleInv
  <2>4. CASE ReportError \/ WaitForMore \/ Closed \/ Break \/ UNCHANGED vars
    BY <2>4, QuietInv
  <2> QED BY <2>1, <2>2, <2>3, <2>4 DEF Next
<1> QED BY <1>1, <1>2, PTL DEF Spec

(* A message is of a class that createMessage knows.                       *)
LEMMA TypeOfMessage == \A m \in Message : m.type \in TypeNames
<1>1. {"Command", "File", "CommandACK", "HeartBeat", "PushACK", "Return"} \subseteq TypeNames
  BY DEF TypeNames, Prototypes, NewCommand, NewFile, NewCommandACK, NewHeartBeat, NewPushACK,
         NewReturn
<1> QED BY <1>1 DEF Message, CommandMessage, FileMessage, CommandACKMessage, HeartBeatMessage,
                    PushACKMessage, ReturnMessage

(* The types of the codec's state.                                         *)
THEOREM CodecTypeOK == Spec => []TypeOK
<1>1. CodecInv => TypeOK
  <2> SUFFICES ASSUME CodecInv PROVE TypeOK
    OBVIOUS
  <2>1. Ordered /\ Buffered /\ Typed
    BY DEF CodecInv
  <2>2. \A i \in 1..Len(stream) :
          stream[i].len \in Nat /\ stream[i].type \in TypeNames \cup {"Other"}
    <3> SUFFICES ASSUME NEW i \in 1..Len(stream)
                 PROVE  stream[i].len \in Nat /\ stream[i].type \in TypeNames \cup {"Other"}
      OBVIOUS
    <3>1. stream[i] \in Arrivals
      BY <2>1, ElementOfSeq DEF Ordered
    <3> QED BY <3>1, FrameArrives DEF Arrivals, Arrival
  <2>3. \A i \in 1..Len(delivered) : delivered[i].type \in TypeNames
    BY <2>1, ElementOfSeq, TypeOfMessage DEF Ordered
  <2> QED BY <2>1, <2>2, <2>3 DEF TypeOK, Buffered, Typed
<1> QED BY <1>1, CodecInvariant, PTL

(* No message of any class, with any contents, ends the sender with        *)
(* ByteSizeConsistencyError (lkpCodec.cc:48-55).                           *)
THEOREM CodecSizesAgree == Spec => []SizesAgree
<1>1. CodecInv => SizesAgree
  BY DEF CodecInv, Typed, SizesAgree
<1> QED BY <1>1, CodecInvariant, PTL

(* When onMessage has returned, no complete acceptable frame is left in    *)
(* the buffer to wait for bytes that may never come (lkpCodec.cc:131).     *)
THEOREM CodecNothingLeftBehind == Spec => []NothingLeftBehind
<1>1. CodecInv => NothingLeftBehind
  BY DEF CodecInv
<1> QED BY <1>1, CodecInvariant, PTL

(* Once a frame was refused nothing is delivered, and the error stays.     *)
LEMMA AfterAnError ==
  ASSUME CodecInv, [Next]_vars, errorCode # "kNoError"
  PROVE  delivered' = delivered /\ errorCode' = errorCode
<1>1. HeadOfBuffer # "kNoError"
  BY DEF CodecInv, StillRefused
<1>2. ~HandleFrame
  BY <1>1 DEF HandleFrame
<1>3. CASE Send
  BY <1>3, SendSteps DEF CodecInv
<1>4. CASE \E n \in 1..InTransit : Receive(n)
  BY <1>4 DEF Receive
<1>5. CASE ReportError
  BY <1>5, ReportSteps
<1>6. CASE WaitForMore \/ Closed \/ Break \/ UNCHANGED vars
  BY <1>6 DEF WaitForMore, Closed, Break, vars
<1> QED BY <1>2, <1>3, <1>4, <1>5, <1>6 DEF Next

(* A refused frame, which stays in the buffer, is refused again whenever   *)
(* onMessage looks at it, and nothing after it is handled                  *)
(* (lkpCodec.cc:148-152).                                                  *)
THEOREM CodecErrorIsFinal == Spec => ErrorIsFinal
<1>1. CodecInv /\ [Next]_vars =>
        [errorCode # "kNoError" => delivered' = delivered /\ errorCode' = errorCode]_vars
  BY AfterAnError
<1> QED BY <1>1, CodecInvariant, PTL DEF Spec, ErrorIsFinal
-----------------------------------------------------------------------------
(* Every step of the codec is a step of the channel, or none.              *)
LEMMA ChannelStep ==
  ASSUME CodecInv, [Next]_vars
  PROVE  [Channel!Next]_<<sent, delivered, errorCode # "kNoError">>
<1>0. Ordered /\ Buffered /\ StillRefused
  BY DEF CodecInv
<1>1. CASE Send
  <2>1. PICK item : item = script[Len(sent) + 1]
    OBVIOUS
  <2>2. /\ sent' = Append(sent, item) /\ item \in GoodItems
        /\ UNCHANGED <<errorCode, delivered>>
    BY <1>0, <1>1, <2>1, SendSteps
  <2>3. Len(sent') = Len(sent) + 1 /\ SubSeq(sent', 1, Len(sent)) = sent
    BY <1>0, <2>2 DEF Ordered
  <2>4. Channel!Send
    BY <2>2, <2>3 DEF Channel!Send
  <2> QED BY <2>4 DEF Channel!Next
<1>2. CASE HandleFrame
  <2>1. /\ HeadOfBuffer = "kNoError" /\ Len(delivered) < Len(sent) /\ WellFormed(NextItem)
        /\ delivered' = Append(delivered, NextItem.msg)
        /\ UNCHANGED <<sent, errorCode>>
    BY <1>0, <1>2, HandleSteps
  <2>2. errorCode = "kNoError"
    BY <1>0, <2>1 DEF StillRefused
  <2>3. Channel!Deliver
    BY <2>1, <2>2 DEF Channel!Deliver, Channel!NextItem, NextItem
  <2> QED BY <2>3 DEF Channel!Next
<1>3. CASE ReportError
  <2>1. /\ HeadOfBuffer \notin {"kNoError", "more"}
        /\ errorCode' = IF errorCode = "kNoError" THEN HeadOfBuffer ELSE errorCode
        /\ UNCHANGED <<sent, delivered>>
    BY <1>3, ReportSteps
  <2>2. ~WellFormed(NextItem) /\ Len(delivered) < Len(sent)
    BY <1>0, <2>1, HeadDecides, HeadIsNext
  <2>3. CASE errorCode = "kNoError"
    <3>1. errorCode' # "kNoError"
      BY <2>1, <2>3
    <3>2. Channel!Refuse
      BY <2>1, <2>2, <2>3, <3>1 DEF Channel!Refuse, Channel!NextItem, NextItem
    <3> QED BY <3>2 DEF Channel!Next
  <2>4. CASE errorCode # "kNoError"
    BY <2>1, <2>4
  <2> QED BY <2>3, <2>4
<1>4. CASE (\E n \in 1..InTransit : Receive(n)) \/ WaitForMore \/ Closed \/ Break \/ UNCHANGED vars
  BY <1>4 DEF Receive, WaitForMore, Closed, Break, vars
<1> QED BY <1>1, <1>2, <1>3, <1>4 DEF Next

(* The codec implements lkpChannel: however the stream is cut, the         *)
(* messages are delivered whole, in order and once each, up to the first   *)
(* frame that is not acceptable (lkpCodec.cc:127-159).                     *)
THEOREM CodecImplementsChannel == Spec => ImplementsChannel
<1>1. Init => Channel!Init
  BY DEF Init, Channel!Init
<1> QED BY <1>1, ChannelStep, CodecInvariant, PTL DEF Spec, ImplementsChannel, Channel!Spec
=============================================================================
