---------------------------- MODULE lkpLog_proofs ----------------------------
(***************************************************************************)
(* Proofs about lkpLog, for any size of a buffer and any limit: threadFunc *)
(* always gets back the buffers it gave away, so its asserts hold; and the *)
(* two lists and the buffers, read as one line of records, are the queue   *)
(* of lkpLogQueue: append puts a record at the end of the line, the writer *)
(* takes a buffer from its head, a swap moves nothing, and what is dropped *)
(* comes after two full buffers and from a backlog of full ones.           *)
(***************************************************************************)
EXTENDS lkpLog, lkpInduction

(* AssertsHold looks at one moment of the loop each; the buffers it is     *)
(* about are decided earlier, by what append has used up.                  *)
SpareIsUsed == nextBuffer_ = NoBuffer => buffers_ # <<>>

BuffersAreDue ==
  /\ state \in {"loop", "waiting"} => ReadyToSwap
  /\ state = "swapped" => written = 0
  /\ state \in {"swapped", "writing"} =>
       /\ newBuffer1 = NoBuffer
       /\ Len(buffersToWrite) >= IF newBuffer2 = NoBuffer THEN 2 ELSE 1

LogIInv == TypeOK /\ SpareIsUsed /\ BuffersAreDue

(* A null pointer is no buffer, not even an empty one.                     *)
LEMMA NullIsNotEmpty == NoBuffer # <<>>
<1>1. <<>> \in Seq(Nat)
  OBVIOUS
<1>2. QED BY <1>1, NoBufferAssumption

(* The buffers of a log that has just started are where they belong.       *)
LEMMA LogInitial == Init => LogIInv
  BY NullIsNotEmpty, CapacityAssumption
     DEF Init, LogIInv, TypeOK, Buffer, SpareIsUsed, BuffersAreDue, ReadyToSwap

(* What the swap does in either of its two places (lkpServer.cc:608-614).  *)
LEMMA SwapLemma ==
  ASSUME LogIInv, Swap, ReadyToSwap
  PROVE  LogIInv'
<1> USE NullIsNotEmpty DEF LogIInv, SpareIsUsed, BuffersAreDue, ReadyToSwap, Swap, GiveSpare
<1>1. /\ buffersToWrite' \in Seq(Buffer) /\ Len(buffersToWrite') = Len(buffers_) + 1
      /\ buffersToWrite' # <<>>
  <2>1. /\ buffersToWrite' = Append(buffers_, currentBuffer_)
        /\ buffers_ \in Seq(Buffer)
        /\ currentBuffer_ \in Buffer
    BY DEF TypeOK
  <2>2. /\ Len(buffersToWrite') = Len(buffers_) + 1
        /\ Len(buffers_) \in Nat
        /\ buffersToWrite' \in Seq(Buffer)
    BY <2>1
  <2>3. QED BY <2>2
<1>2. written = 0
  BY DEF TypeOK
<1>3. TypeOK'
  BY <1>1, <1>2, CapacityAssumption DEF TypeOK, Buffer
<1>4. buffers_ # <<>> => Len(buffers_) >= 1
  BY DEF TypeOK
<1>5. QED BY <1>1, <1>3, <1>4 DEF TypeOK

(* Every append and every step of the writer keeps the buffers in balance. *)
LEMMA LogStep == LogIInv /\ [Next]_vars => LogIInv'
<1> SUFFICES ASSUME LogIInv, [Next]_vars PROVE LogIInv'
  OBVIOUS
<1> USE NullIsNotEmpty DEF LogIInv
<1>1. ASSUME append PROVE LogIInv'
  <2>1. CASE /\ HasRoom
             /\ currentBuffer_' = Append(currentBuffer_, logged')
             /\ UNCHANGED <<nextBuffer_, buffers_>>
    BY <1>1, <2>1, CapacityAssumption
       DEF append, HasRoom, TypeOK, Buffer, SpareIsUsed, BuffersAreDue, ReadyToSwap, spareVars
  <2>2. CASE /\ ~HasRoom /\ buffers_' = Append(buffers_, currentBuffer_)
             /\ currentBuffer_' = Append(FreshBuffer, logged') /\ nextBuffer_' = NoBuffer
    <3>1. FreshBuffer = <<>>
      BY DEF FreshBuffer, TypeOK
    <3>2. logged' \in Nat
      BY <1>1 DEF append, TypeOK
    <3>3. currentBuffer_' \in Buffer /\ Len(currentBuffer_') <= Capacity
      BY <2>2, <3>1, <3>2, CapacityAssumption DEF Buffer
    <3>4. buffers_' \in Seq(Buffer) /\ buffers_' # <<>>
      <4>1. /\ buffers_' = Append(buffers_, currentBuffer_)
            /\ buffers_ \in Seq(Buffer)
            /\ currentBuffer_ \in Buffer
        BY <2>2 DEF TypeOK
      <4>2. Len(buffers_') = Len(buffers_) + 1 /\ Len(buffers_) \in Nat /\ buffers_' \in Seq(Buffer)
        BY <4>1
      <4>3. QED BY <4>2
    <3>5. QED
      BY <1>1, <2>2, <3>2, <3>3, <3>4
         DEF append, TypeOK, SpareIsUsed, BuffersAreDue, ReadyToSwap, spareVars
  <2>3. QED BY <1>1, <2>1, <2>2 DEF append
<1>2. ASSUME SwapFull PROVE LogIInv'
  BY <1>2, SwapLemma DEF SwapFull
<1>3. ASSUME Wait PROVE LogIInv'
  BY <1>3 DEF Wait, TypeOK, SpareIsUsed, BuffersAreDue, ReadyToSwap, frontVars, spareVars
<1>4. ASSUME WakeUp PROVE LogIInv'
  BY <1>4, SwapLemma DEF WakeUp, BuffersAreDue
<1>5. ASSUME DropExcess PROVE LogIInv'
  <2>1. /\ buffersToWrite' \in Seq(Buffer)
        /\ Len(buffersToWrite') = Len(buffersToWrite) \/ Len(buffersToWrite') = 2
    BY <1>5, MaxBuffersAssumption DEF DropExcess, KeepOldest, TypeOK
  <2>2. written' = 0
    BY <1>5 DEF DropExcess, TypeOK, BuffersAreDue
  <2>3. newBuffer1 = NoBuffer /\ Len(buffersToWrite') >= IF newBuffer2 = NoBuffer THEN 2 ELSE 1
    <3>1. newBuffer1 = NoBuffer /\ Len(buffersToWrite) >= IF newBuffer2 = NoBuffer THEN 2 ELSE 1
      BY <1>5 DEF DropExcess, BuffersAreDue
    <3>2. Len(buffersToWrite') \in Nat
      BY <2>1
    <3>3. QED BY <2>1, <3>1, <3>2
  <2>4. TypeOK' /\ SpareIsUsed'
    BY <1>5, <2>1, <2>2 DEF DropExcess, TypeOK, SpareIsUsed, frontVars, spareVars
  <2>5. QED
    BY <1>5, <2>2, <2>3, <2>4 DEF DropExcess, BuffersAreDue, spareVars
<1>6. ASSUME WriteBuffer PROVE LogIInv'
  <2>1. buffersToWrite[written + 1] \in Seq(Nat) /\ written' \in 0..Len(buffersToWrite)
    BY <1>6 DEF WriteBuffer, TypeOK, Buffer
  <2>2. file' \in Seq(Nat)
    BY <1>6, <2>1 DEF WriteBuffer, TypeOK
  <2>3. QED
    BY <1>6, <2>1, <2>2
       DEF WriteBuffer, TypeOK, SpareIsUsed, BuffersAreDue, ReadyToSwap, frontVars, spareVars
<1>7. ASSUME Recycle PROVE LogIInv'
  BY <1>7 DEF Recycle, Reset, TypeOK, Buffer, SpareIsUsed, BuffersAreDue, ReadyToSwap, frontVars
<1>8. CASE UNCHANGED vars
  BY <1>8 DEF vars, frontVars, spareVars, TypeOK, SpareIsUsed, BuffersAreDue, ReadyToSwap
<1>9. QED BY <1>1, <1>2, <1>3, <1>4, <1>5, <1>6, <1>7, <1>8 DEF Next, threadFunc

(* The invariant says what the asserts of threadFunc say.                  *)
LEMMA DueImpliesAsserts == LogIInv => AssertsHold
<1> SUFFICES ASSUME LogIInv PROVE AssertsHold
  OBVIOUS
<1>1. ASSUME state = "writing" PROVE CanRefill
  <2>1. Missing \in {1, 2} /\ Missing <= Len(buffersToWrite)
    BY <1>1, NullIsNotEmpty DEF LogIInv, TypeOK, BuffersAreDue, Missing
  <2>2. Len(Reusable) = IF Len(buffersToWrite) > 2 THEN 2 ELSE Len(buffersToWrite)
    BY DEF LogIInv, TypeOK, Reusable
  <2>3. QED BY <2>1, <2>2 DEF CanRefill, LogIInv, TypeOK
<1>2. state = "swapped" => buffersToWrite # <<>>
  BY DEF LogIInv, TypeOK, BuffersAreDue
<1>3. QED BY <1>1, <1>2 DEF AssertsHold, LogIInv, BuffersAreDue

(* The invariant of the log holds always.                                  *)
LEMMA LogAlways == Spec => []LogIInv
BY LogInitial, LogStep, PTL DEF Spec

(* The state of the log has its types: no buffer overflows, for any size.  *)
THEOREM LogTypeCorrect == Spec => []TypeOK
<1>1. LogIInv => TypeOK
  BY DEF LogIInv
<1>2. QED BY LogAlways, <1>1, PTL

(* No assert of threadFunc fails, for any size of a buffer, any limit, and *)
(* any interleaving of append with the writer (lkpServer.cc:593-655).      *)
THEOREM LogAssertsHold == Spec => []AssertsHold
<1>1. LogIInv => AssertsHold
  BY DueImpliesAsserts
<1>2. QED BY LogAlways, <1>1, PTL
-----------------------------------------------------------------------------
(* The partial results of a chain f that joins the parts of s one by one.  *)
Joins(S, s, f) ==
  /\ f \in [0..Len(s) -> Seq(S)]
  /\ f[0] = <<>>
  /\ \A i \in 1..Len(s) : f[i] = f[i - 1] \o s[i]

(* Every sequence of sequences can be joined: for 1..k, one k after the    *)
(* other.                                                                  *)
LEMMA JoinsExist ==
  ASSUME NEW S, NEW s \in Seq(Seq(S))
  PROVE  \E f : Joins(S, s, f)
<1>1. PICK n \in Nat : n = Len(s)
  OBVIOUS
<1>2. \A i \in 1..n : s[i] \in Seq(S)
  BY <1>1
<1> DEFINE Good(k, f) == /\ f \in [0..k -> Seq(S)]
                         /\ f[0] = <<>>
                         /\ \A i \in 1..k : f[i] = f[i - 1] \o s[i]
           K == {k \in 0..n : \E f : Good(k, f)}
<1>3. 0 \in K
  <2>1. <<>> \in Seq(S)
    OBVIOUS
  <2>2. Good(0, [i \in 0..0 |-> <<>>])
    BY <2>1
  <2> HIDE DEF Good
  <2> QED BY <2>2
<1>4. ASSUME NEW k \in 1..n, k - 1 \in K PROVE k \in K
  <2>1. PICK f : Good(k - 1, f)
    <3> HIDE DEF Good
    <3> QED BY <1>4
  <2>2. f[k - 1] \o s[k] \in Seq(S)
    <3>1. f[k - 1] \in Seq(S)
      BY <2>1
    <3> QED BY <1>2, <3>1, ConcatProperties
  <2> DEFINE g == [i \in 0..k |-> IF i = k THEN f[k - 1] \o s[k] ELSE f[i]]
  <2>3. g \in [0..k -> Seq(S)] /\ g[0] = <<>>
    BY <2>1, <2>2
  <2>4. ASSUME NEW i \in 1..k PROVE g[i] = g[i - 1] \o s[i]
    <3>1. i - 1 \in 0..k /\ i \in 0..k /\ i - 1 # k /\ (i # k => i \in 1..(k - 1))
      OBVIOUS
    <3>2. g[i - 1] = f[i - 1] /\ g[i] = IF i = k THEN f[k - 1] \o s[k] ELSE f[i]
      BY <3>1
    <3> QED BY <2>1, <3>1, <3>2
  <2>5. Good(k, g)
    <3> HIDE DEF g
    <3> QED BY <2>3, <2>4
  <2> HIDE DEF Good, g
  <2> QED BY <2>5
<1>5. n \in K
  <2> HIDE DEF K
  <2>1. \A i \in 0..n : i \in K
    BY <1>3, <1>4, FiniteInduction
  <2> QED BY <2>1
<1> QED BY <1>1, <1>5 DEF Joins

(* FlattenSeq is the end of any such chain.                                *)
LEMMA FlattenJoins ==
  ASSUME NEW S, NEW s \in Seq(Seq(S)), NEW f, Joins(S, s, f)
  PROVE  FlattenSeq(s) = f[Len(s)] /\ FlattenSeq(s) \in Seq(S)
<1>1. PICK n \in Nat : n = Len(s)
  OBVIOUS
<1>2. /\ f \in [0..n -> Seq(S)] /\ f[0] = <<>>
      /\ \A i \in 1..n : f[i] = f[i - 1] \o s[i]
  BY <1>1 DEF Joins
<1>3. CASE n = 0
  <2>1. s = <<>>
    BY <1>1, <1>3, EmptySeq
  <2> QED BY <1>1, <1>2, <1>3, <2>1 DEF FlattenSeq
<1>4. CASE n # 0
  <2> DEFINE Eq(g) == g = [i \in 1..Len(s) |-> IF i = 1 THEN s[i] ELSE g[i - 1] \o s[i]]
             flatten == CHOOSE g : Eq(g)
  <2>1. FlattenSeq(s) = flatten[Len(s)]
    BY <1>1, <1>4 DEF FlattenSeq
  <2>2. f[1] = s[1]
    <3>1. PICK l : l = 1
      OBVIOUS
    <3>2. l \in 1..n /\ l - 1 = 0 /\ s[l] \in Seq(S)
      BY <1>1, <1>4, <3>1
    <3>3. f[l] = <<>> \o s[l]
      BY <1>2, <3>2
    <3>4. f[l] = s[l]
      BY <3>2, <3>3, ConcatEmptySeq
    <3> QED BY <3>1, <3>4
  <2>3. Eq(flatten)
    <3> DEFINE g == [i \in 1..n |-> f[i]]
    <3>1. \A i \in 1..n : g[i] = IF i = 1 THEN s[i] ELSE g[i - 1] \o s[i]
      <4>1. ASSUME NEW i \in 1..n PROVE g[i] = IF i = 1 THEN s[i] ELSE g[i - 1] \o s[i]
        <5>1. i = 1 \/ i - 1 \in 1..n
          BY <1>1
        <5> QED BY <1>2, <2>2, <5>1
      <4> QED BY <4>1
    <3>2. Eq(g)
      <4>1. DOMAIN g = 1..n /\ g = [i \in 1..n |-> g[i]]
        OBVIOUS
      <4> HIDE DEF g
      <4> QED BY <1>1, <3>1, <4>1
    <3> HIDE DEF Eq, g
    <3> QED BY <3>2
  <2>4. flatten = [i \in 1..n |-> IF i = 1 THEN s[i] ELSE flatten[i - 1] \o s[i]]
    <3> HIDE DEF flatten
    <3> QED BY <1>1, <2>3
  <2> HIDE DEF flatten
  <2> DEFINE K == {i \in 0..n : i # 0 => flatten[i] = f[i]}
  <2>5. 0 \in K
    OBVIOUS
  <2>6. ASSUME NEW i \in 1..n, i - 1 \in K PROVE i \in K
    <3>1. flatten[i] = IF i = 1 THEN s[i] ELSE flatten[i - 1] \o s[i]
      BY <2>4
    <3>2. i - 1 # 0 => flatten[i - 1] = f[i - 1]
      BY <2>6
    <3>3. f[i] = f[i - 1] \o s[i]
      BY <1>2
    <3>4. i # 1 => i - 1 # 0
      OBVIOUS
    <3>5. flatten[i] = f[i]
      BY <2>2, <3>1, <3>2, <3>3, <3>4
    <3> QED BY <3>5
  <2>7. flatten[n] = f[n]
    <3> HIDE DEF K
    <3>1. \A i \in 0..n : i \in K
      BY <2>5, <2>6, FiniteInduction
    <3> USE DEF K
    <3> QED BY <1>4, <3>1
  <2> QED BY <1>1, <1>2, <2>1, <2>7
<1> QED BY <1>3, <1>4

(* What is joined of two sequences is what is joined of each.              *)
LEMMA FlattenConcat ==
  ASSUME NEW S, NEW s \in Seq(Seq(S)), NEW t \in Seq(Seq(S))
  PROVE  /\ FlattenSeq(s) \in Seq(S) /\ FlattenSeq(t) \in Seq(S)
         /\ FlattenSeq(s \o t) = FlattenSeq(s) \o FlattenSeq(t)
<1>1. PICK u : u = s \o t
  OBVIOUS
<1>2. PICK m \in Nat, n \in Nat : m = Len(s) /\ n = Len(t)
  OBVIOUS
<1>3. /\ u \in Seq(Seq(S)) /\ Len(u) = m + n
      /\ \A i \in 1..m : u[i] = s[i] /\ i \in 1..(m + n)
      /\ \A i \in 1..n : u[m + i] = t[i] /\ m + i \in 1..(m + n)
  BY <1>1, <1>2, ConcatParts
<1>4. PICK f : Joins(S, s, f)
  BY JoinsExist
<1>5. PICK g : Joins(S, t, g)
  BY JoinsExist
<1>6. PICK h : Joins(S, u, h)
  BY <1>3, JoinsExist
<1>7. /\ FlattenSeq(s) = f[m] /\ FlattenSeq(t) = g[n] /\ FlattenSeq(u) = h[m + n]
      /\ f[m] \in Seq(S) /\ g[n] \in Seq(S)
  <2>1. FlattenSeq(s) = f[m] /\ FlattenSeq(s) \in Seq(S)
    BY <1>2, <1>4, FlattenJoins
  <2>2. FlattenSeq(t) = g[n] /\ FlattenSeq(t) \in Seq(S)
    BY <1>2, <1>5, FlattenJoins
  <2>3. FlattenSeq(u) = h[m + n]
    BY <1>3, <1>6, FlattenJoins
  <2> QED BY <2>1, <2>2, <2>3
<1>8. /\ f[0] = <<>> /\ \A i \in 1..m : f[i] = f[i - 1] \o s[i]
      /\ g \in [0..n -> Seq(S)] /\ g[0] = <<>> /\ \A i \in 1..n : g[i] = g[i - 1] \o t[i]
      /\ h[0] = <<>> /\ \A i \in 1..(m + n) : h[i] = h[i - 1] \o u[i]
  BY <1>2, <1>3, <1>4, <1>5, <1>6 DEF Joins
<1>9. h[m] = f[m]
  <2> DEFINE K == {i \in 0..m : h[i] = f[i]}
  <2>1. 0 \in K
    BY <1>8
  <2>2. ASSUME NEW i \in 1..m, i - 1 \in K PROVE i \in K
    <3>1. i \in 1..(m + n) /\ u[i] = s[i]
      BY <1>3
    <3>2. h[i] = f[i]
      BY <1>8, <2>2, <3>1
    <3> QED BY <3>2
  <2> HIDE DEF K
  <2>3. \A i \in 0..m : i \in K
    BY <2>1, <2>2, FiniteInduction
  <2>4. m \in K
    BY <2>3
  <2> QED BY <2>4 DEF K
<1>10. h[m + n] = f[m] \o g[n]
  <2> DEFINE K == {i \in 0..n : h[m + i] = f[m] \o g[i]}
  <2>1. 0 \in K
    <3>1. f[m] \o <<>> = f[m]
      BY <1>7, ConcatEmptySeq
    <3>2. m + 0 = m /\ g[0] = <<>>
      BY <1>8
    <3>3. h[m + 0] = f[m] \o g[0]
      BY <1>9, <3>1, <3>2, Zenon
    <3>4. 0 \in 0..n
      OBVIOUS
    <3> QED BY <3>3, <3>4, Zenon
  <2>2. ASSUME NEW i \in 1..n, i - 1 \in K PROVE i \in K
    <3>1. m + i \in 1..(m + n) /\ u[m + i] = t[i] /\ m + i - 1 = m + (i - 1)
      BY <1>3
    <3>2. h[m + i] = h[m + (i - 1)] \o u[m + i]
      <4>1. PICK j : j = m + i
        OBVIOUS
      <4>2. j \in 1..(m + n) /\ j - 1 = m + (i - 1)
        BY <3>1, <4>1
      <4>3. h[j] = h[j - 1] \o u[j]
        BY <1>8, <4>2
      <4> QED BY <4>1, <4>2, <4>3
    <3>3. h[m + (i - 1)] = f[m] \o g[i - 1]
      BY <2>2
    <3>4. PICK k \in 0..n : k = i - 1
      OBVIOUS
    <3>5. g[k] \in Seq(S) /\ t[i] \in Seq(S)
      <4>1. t[i] \in Seq(S)
        BY <1>2, ElementOfSeq
      <4>2. g[k] \in Seq(S)
        BY <1>8
      <4> QED BY <4>1, <4>2
    <3>6. g[i] = g[k] \o t[i]
      BY <1>8, <3>4
    <3>7. (f[m] \o g[k]) \o t[i] = f[m] \o (g[k] \o t[i])
      <4>1. PICK a \in Seq(S), b \in Seq(S), e \in Seq(S) : a = f[m] /\ b = g[k] /\ e = t[i]
        BY <1>7, <3>5
      <4>2. (a \o b) \o e = a \o (b \o e)
        BY ConcatAssociative, SMTT(30)
      <4> QED BY <4>1, <4>2
    <3>8. h[m + i] = f[m] \o g[i]
      BY <3>1, <3>2, <3>3, <3>4, <3>6, <3>7
    <3>9. i \in 0..n
      OBVIOUS
    <3> QED BY <3>8, <3>9, Zenon
  <2> HIDE DEF K
  <2>3. \A i \in 0..n : i \in K
    BY <2>1, <2>2, FiniteInduction
  <2>4. n \in K
    BY <2>3
  <2> QED BY <2>4 DEF K
<1> QED BY <1>1, <1>7, <1>10

(* Joining one sequence, or none.                                          *)
LEMMA FlattenOne ==
  ASSUME NEW S, NEW b \in Seq(S)
  PROVE  FlattenSeq(<<b>>) = b
<1>1. PICK s : s = <<b>>
  OBVIOUS
<1>2. s \in Seq(Seq(S)) /\ Len(s) = 1 /\ s[1] = b
  BY <1>1
<1>3. PICK f : Joins(S, s, f)
  BY <1>2, JoinsExist
<1>4. PICK l : l = 1
  OBVIOUS
<1>5. l \in 1..Len(s) /\ l - 1 = 0
  BY <1>2, <1>4
<1>6. f[l] = f[0] \o s[l] /\ f[0] = <<>>
  BY <1>3, <1>5 DEF Joins
<1>7. f[l] = b
  BY <1>2, <1>4, <1>6, ConcatEmptySeq
<1>8. FlattenSeq(s) = f[l]
  BY <1>2, <1>3, <1>4, FlattenJoins
<1> QED BY <1>1, <1>7, <1>8

(* Joining no sequences.                                                   *)
LEMMA FlattenNone == FlattenSeq(<<>>) = <<>>
  BY DEF FlattenSeq

(* The length of what is joined of sequences that are all as long.         *)
LEMMA FlattenLength ==
  ASSUME NEW S, NEW s \in Seq(Seq(S)), NEW c \in Nat, \A i \in 1..Len(s) : Len(s[i]) = c
  PROVE  Len(FlattenSeq(s)) = Len(s) * c
<1>1. PICK n \in Nat : n = Len(s)
  OBVIOUS
<1>2. PICK f : Joins(S, s, f)
  BY JoinsExist
<1>3. /\ f \in [0..n -> Seq(S)] /\ f[0] = <<>>
      /\ \A i \in 1..n : f[i] = f[i - 1] \o s[i]
  BY <1>1, <1>2 DEF Joins
<1> DEFINE K == {i \in 0..n : Len(f[i]) = i * c}
<1>4. 0 \in K
  <2>1. Len(f[0]) = 0
    BY <1>3
  <2> QED BY <2>1
<1>5. ASSUME NEW i \in 1..n, i - 1 \in K PROVE i \in K
  <2>0. PICK k \in 0..n : k = i - 1
    OBVIOUS
  <2>1. f[k] \in Seq(S) /\ s[i] \in Seq(S) /\ Len(s[i]) = c
    <3>1. s[i] \in Seq(S) /\ Len(s[i]) = c
      BY <1>1, ElementOfSeq
    <3>2. f[k] \in Seq(S)
      BY <1>3
    <3> QED BY <3>1, <3>2
  <2>2. Len(f[i]) = Len(f[k]) + c
    <3>1. f[i] = f[k] \o s[i]
      BY <1>3, <2>0
    <3> QED BY <2>1, <3>1, ConcatProperties, ZenonT(30)
  <2>3. Len(f[k]) = (i - 1) * c
    BY <1>5, <2>0
  <2>4. (i - 1) * c + c = i * c
    OBVIOUS
  <2> QED BY <2>2, <2>3, <2>4
<1> HIDE DEF K
<1>6. \A i \in 0..n : i \in K
  BY <1>4, <1>5, FiniteInduction
<1>7. Len(f[n]) = n * c
  BY <1>6 DEF K
<1> QED BY <1>1, <1>2, <1>7, FlattenJoins

(* Records can be joined in any grouping.                                  *)
LEMMA RecordsAssociate == \A a, b, c \in Seq(Nat) : (a \o b) \o c = a \o (b \o c)
  BY ConcatAssociative, SMTT(30)

(* What a concatenation is made of can be cut out of it again.             *)
LEMMA CutConcat ==
  ASSUME NEW S, NEW a \in Seq(S), NEW b \in Seq(S)
  PROVE  /\ SubSeq(a \o b, 1, Len(a)) = a
         /\ SubSeq(a \o b, Len(a) + 1, Len(a \o b)) = b
<1>1. PICK m \in Nat, n \in Nat : m = Len(a) /\ n = Len(b)
  OBVIOUS
<1>2. PICK c \in Seq(S) : c = a \o b
  <2>1. a \o b \in Seq(S)
    BY ConcatProperties
  <2> QED BY <2>1
<1>3. /\ Len(c) = m + n
      /\ \A i \in 1..m : c[i] = a[i] /\ i \in 1..(m + n)
      /\ \A i \in 1..n : c[m + i] = b[i] /\ m + i \in 1..(m + n)
  BY <1>1, <1>2, ConcatParts
<1>4. SubSeq(c, 1, m) = a
  <2>1. PICK p : p = SubSeq(c, 1, m)
    OBVIOUS
  <2>2. \A i \in 1..m : c[i] \in S
    BY <1>3, ElementOfSeq
  <2>3. p \in Seq(S) /\ Len(p) = m /\ \A i \in 1..m : p[i] = c[1 + i - 1]
    <3>1. PICK o : o = 1
      OBVIOUS
    <3>2. o \in Int /\ m \in Int /\ (IF o <= m THEN m - o + 1 ELSE 0) = m /\ m - o + 1 = m
      BY <3>1
    <3>3. p = SubSeq(c, o, m) /\ \A i \in o..m : c[i] \in S
      BY <2>1, <2>2, <3>1
    <3>4. p \in Seq(S) /\ Len(p) = m /\ \A i \in 1..m : p[i] = c[o + i - 1]
      BY <3>2, <3>3, SubSeqProperties
    <3> QED BY <3>1, <3>4
  <2>4. \A i \in 1..m : p[i] = a[i]
    BY <1>3, <2>3
  <2>5. p = a
    BY <1>1, <2>3, <2>4, SeqEqual
  <2> QED BY <2>1, <2>5
<1>5. SubSeq(c, m + 1, m + n) = b
  <2>1. PICK p : p = SubSeq(c, m + 1, m + n)
    OBVIOUS
  <2>2. PICK o, e : o = m + 1 /\ e = m + n
    OBVIOUS
  <2>3. o \in Int /\ e \in Int /\ (IF o <= e THEN e - o + 1 ELSE 0) = n /\ e - o + 1 = n
    BY <2>2
  <2>4. \A i \in o..e : c[i] \in S
    <3>1. \A i \in o..e : i \in 1..Len(c)
      BY <1>3, <2>2
    <3> QED BY <3>1, ElementOfSeq
  <2>5. p \in Seq(S) /\ Len(p) = n /\ \A i \in 1..n : p[i] = c[o + i - 1]
    BY <2>1, <2>2, <2>3, <2>4, SubSeqProperties
  <2>6. ASSUME NEW i \in 1..n PROVE p[i] = b[i]
    <3>1. o + i - 1 = m + i
      BY <2>2
    <3> QED BY <1>3, <2>5, <3>1
  <2>7. p = b
    BY <1>1, <2>5, <2>6, SeqEqual
  <2> QED BY <2>1, <2>7
<1> QED BY <1>1, <1>2, <1>3, <1>4, <1>5

-----------------------------------------------------------------------------
(* The records that are queued in the buffers bw from the one after w, in  *)
(* the buffers bs and in cb.                                               *)
Line(bw, w, bs, cb) == FlattenSeq(SubSeq(bw, w + 1, Len(bw)) \o bs) \o cb
Waiting(bw, w) == FlattenSeq(SubSeq(bw, w + 1, Len(bw)))
Behind(bs, cb) == FlattenSeq(bs) \o cb

(* The line in its two parts: what the writer has and what append has.     *)
LEMMA LineParts ==
  ASSUME NEW bw \in Seq(Buffer), NEW w \in 0..Len(bw), NEW bs \in Seq(Buffer), NEW cb \in Buffer
  PROVE  /\ SubSeq(bw, w + 1, Len(bw)) \in Seq(Buffer)
         /\ Waiting(bw, w) \in Seq(Nat) /\ FlattenSeq(bs) \in Seq(Nat)
         /\ Behind(bs, cb) \in Seq(Nat)
         /\ Line(bw, w, bs, cb) = Waiting(bw, w) \o Behind(bs, cb)
         /\ Line(bw, w, bs, cb) \in Seq(Nat)
<1>1. PICK rest : rest = SubSeq(bw, w + 1, Len(bw))
  OBVIOUS
<1>2. rest \in Seq(Buffer)
  <2>1. PICK o \in Int, e \in Int : o = w + 1 /\ e = Len(bw)
    OBVIOUS
  <2>2. \A i \in o..e : i \in 1..Len(bw)
    BY <2>1
  <2>3. \A i \in o..e : bw[i] \in Buffer
    BY <2>2, ElementOfSeq
  <2> QED BY <1>1, <2>1, <2>3, SubSeqProperties
<1>3. rest \in Seq(Seq(Nat)) /\ bs \in Seq(Seq(Nat)) /\ cb \in Seq(Nat)
  BY <1>2 DEF Buffer
<1>4. PICK x, y, z : x = FlattenSeq(rest) /\ y = FlattenSeq(bs) /\ z = FlattenSeq(rest \o bs)
  OBVIOUS
<1>5. x \in Seq(Nat) /\ y \in Seq(Nat) /\ z = x \o y
  BY <1>3, <1>4, FlattenConcat
<1>6. (x \o y) \o cb = x \o (y \o cb) /\ y \o cb \in Seq(Nat) /\ x \o (y \o cb) \in Seq(Nat)
  <2>1. y \o cb \in Seq(Nat)
    BY <1>3, <1>5, ConcatProperties
  <2>2. x \o (y \o cb) \in Seq(Nat)
    BY <1>5, <2>1, ConcatProperties
  <2>3. (x \o y) \o cb = x \o (y \o cb)
    BY <1>3, <1>5, RecordsAssociate
  <2> QED BY <2>1, <2>2, <2>3
<1>7. Waiting(bw, w) = x /\ Behind(bs, cb) = y \o cb /\ Line(bw, w, bs, cb) = z \o cb
  BY <1>1, <1>4 DEF Waiting, Behind, Line
<1> QED BY <1>1, <1>2, <1>4, <1>5, <1>6, <1>7

(* Nothing waits behind the last buffer.                                   *)
LEMMA NothingWaits ==
  ASSUME NEW bw \in Seq(Buffer), NEW w, w = Len(bw)
  PROVE  Waiting(bw, w) = <<>>
<1>1. PICK o \in Int, e \in Int : o = w + 1 /\ e = Len(bw)
  OBVIOUS
<1>2. e < o
  BY <1>1
<1>3. SubSeq(bw, o, e) = <<>>
  BY <1>2, SubSeqEmpty
<1> QED BY <1>1, <1>3, FlattenNone DEF Waiting

(* Before the first buffer is written everything waits.                    *)
LEMMA AllWait ==
  ASSUME NEW bw \in Seq(Buffer)
  PROVE  Waiting(bw, 0) = FlattenSeq(bw)
<1>1. SubSeq(bw, 1, Len(bw)) = bw
  BY SubSeqFull
<1>2. 0 + 1 = 1
  OBVIOUS
<1> QED BY <1>1, <1>2 DEF Waiting

(* A record that is appended is the last of the line, in the current       *)
(* buffer or in a fresh one.                                               *)
LEMMA LastInLine ==
  ASSUME NEW bw \in Seq(Buffer), NEW w \in 0..Len(bw), NEW bs \in Seq(Buffer), NEW cb \in Buffer,
         NEW r \in Nat
  PROVE  /\ Line(bw, w, bs, Append(cb, r)) = Append(Line(bw, w, bs, cb), r)
         /\ Line(bw, w, Append(bs, cb), <<r>>) = Append(Line(bw, w, bs, cb), r)
<1>1. PICK x, y, z : x = Waiting(bw, w) /\ y = FlattenSeq(bs) /\ z = Line(bw, w, bs, cb)
  OBVIOUS
<1>2. /\ x \in Seq(Nat) /\ y \in Seq(Nat) /\ cb \in Seq(Nat) /\ z \in Seq(Nat)
      /\ z = x \o (y \o cb)
  BY <1>1, LineParts DEF Behind, Buffer
<1>3. Append(z, r) = x \o (y \o Append(cb, r))
  <2>1. PICK u \in Seq(Nat) : u = y \o cb
    BY <1>2, ConcatProperties
  <2>2. PICK v \in Seq(Nat) : v = <<r>>
    <3>1. <<r>> \in Seq(Nat)
      OBVIOUS
    <3> QED BY <3>1
  <2>3. Append(z, r) = z \o v /\ Append(cb, r) = cb \o v
    BY <1>2, <2>2, AppendIsConcat
  <2>4. x \in Seq(Nat) /\ y \in Seq(Nat) /\ cb \in Seq(Nat) /\ u \in Seq(Nat) /\ v \in Seq(Nat)
    BY <1>2
  <2>5. (x \o u) \o v = x \o (u \o v)
    BY <2>4, RecordsAssociate, ZenonT(30)
  <2>6. (y \o cb) \o v = y \o (cb \o v)
    BY <2>4, RecordsAssociate, ZenonT(30)
  <2> QED BY <1>2, <2>1, <2>3, <2>5, <2>6
<1>4. Line(bw, w, bs, Append(cb, r)) = x \o (y \o Append(cb, r))
  <2>1. Append(cb, r) \in Buffer
    BY <1>2 DEF Buffer
  <2> QED BY <1>1, <2>1, LineParts DEF Behind
<1>5. Line(bw, w, Append(bs, cb), <<r>>) = x \o (y \o Append(cb, r))
  <2>1. PICK bt \in Seq(Buffer) : bt = Append(bs, cb)
    <3>1. Append(bs, cb) \in Seq(Buffer)
      OBVIOUS
    <3> QED BY <3>1
  <2>2. PICK v \in Buffer : v = <<r>>
    <3>1. <<r>> \in Buffer
      BY DEF Buffer
    <3> QED BY <3>1
  <2>3. FlattenSeq(bt) = y \o cb
    <3>1. PICK one : one = <<cb>>
      OBVIOUS
    <3>2. bt = bs \o one
      BY <2>1, <3>1, AppendIsConcat
    <3>3. bs \in Seq(Seq(Nat)) /\ one \in Seq(Seq(Nat))
      BY <1>2, <3>1 DEF Buffer
    <3>4. FlattenSeq(bt) = FlattenSeq(bs) \o FlattenSeq(one)
      BY <3>2, <3>3, FlattenConcat
    <3>5. FlattenSeq(one) = cb
      BY <1>2, <3>1, FlattenOne
    <3> QED BY <1>1, <3>4, <3>5
  <2>4. Line(bw, w, bt, v) = x \o ((y \o cb) \o v)
    <3>1. Line(bw, w, bt, v) = Waiting(bw, w) \o Behind(bt, v)
      BY LineParts
    <3>2. Behind(bt, v) = (y \o cb) \o v
      BY <2>3 DEF Behind
    <3> QED BY <1>1, <3>1, <3>2
  <2>5. (y \o cb) \o v = y \o (cb \o v) /\ Append(cb, r) = cb \o v
    <3>1. v \in Seq(Nat)
      BY DEF Buffer
    <3>2. Append(cb, r) = cb \o v
      BY <1>2, <2>2, AppendIsConcat
    <3> QED BY <1>2, <3>1, <3>2, RecordsAssociate, ZenonT(30)
  <2> QED BY <2>1, <2>2, <2>4, <2>5
<1> QED BY <1>1, <1>3, <1>4, <1>5

(* The swap of the lists moves no record in the line.                      *)
LEMMA SwappedLine ==
  ASSUME NEW bs \in Seq(Buffer), NEW cb \in Buffer
  PROVE  Line(<<>>, 0, bs, cb) = Line(Append(bs, cb), 0, <<>>, <<>>)
<1>1. PICK none \in Seq(Buffer) : none = <<>>
  <2>1. <<>> \in Seq(Buffer)
    OBVIOUS
  <2> QED BY <2>1
<1>2. PICK empty \in Buffer : empty = <<>>
  <2>1. <<>> \in Buffer
    BY DEF Buffer
  <2> QED BY <2>1
<1>3. PICK bt \in Seq(Buffer) : bt = Append(bs, cb)
  <2>1. Append(bs, cb) \in Seq(Buffer)
    OBVIOUS
  <2> QED BY <2>1
<1>4. PICK z : z = 0
  OBVIOUS
<1>5. z \in 0..Len(none) /\ z \in 0..Len(bt) /\ z = Len(none)
  BY <1>1, <1>3, <1>4
<1>6. cb \in Seq(Nat) /\ bs \in Seq(Seq(Nat)) /\ empty \in Seq(Nat)
  BY DEF Buffer
<1>7. Line(none, z, bs, cb) = FlattenSeq(bs) \o cb
  <2>1. Line(none, z, bs, cb) = Waiting(none, z) \o Behind(bs, cb) /\ Behind(bs, cb) \in Seq(Nat)
    BY <1>5, LineParts
  <2>2. Waiting(none, z) = <<>>
    BY <1>5, NothingWaits
  <2> QED BY <2>1, <2>2, ConcatEmptySeq DEF Behind
<1>8. Line(bt, z, none, empty) = FlattenSeq(bt)
  <2>1. /\ Line(bt, z, none, empty) = Waiting(bt, z) \o Behind(none, empty)
        /\ Waiting(bt, z) \in Seq(Nat)
    BY <1>5, LineParts
  <2>2. Behind(none, empty) = <<>>
    BY <1>1, <1>2, <1>6, FlattenNone, ConcatEmptySeq DEF Behind
  <2>3. Waiting(bt, z) = FlattenSeq(bt)
    BY <1>4, AllWait
  <2> QED BY <2>1, <2>2, <2>3, ConcatEmptySeq
<1>9. FlattenSeq(bt) = FlattenSeq(bs) \o cb
  <2>1. PICK one : one = <<cb>>
    OBVIOUS
  <2>2. bt = bs \o one
    BY <1>3, <2>1, AppendIsConcat
  <2>3. one \in Seq(Seq(Nat))
    BY <1>6, <2>1
  <2>4. FlattenSeq(bt) = FlattenSeq(bs) \o FlattenSeq(one)
    BY <1>6, <2>2, <2>3, FlattenConcat
  <2> QED BY <1>6, <2>1, <2>4, FlattenOne
<1> QED BY <1>1, <1>2, <1>3, <1>4, <1>7, <1>8, <1>9

(* A buffer that is written leaves the line from its head.                 *)
LEMMA HeadOfLine ==
  ASSUME NEW bw \in Seq(Buffer), NEW w \in 0..Len(bw), w < Len(bw),
         NEW bs \in Seq(Buffer), NEW cb \in Buffer
  PROVE  /\ bw[w + 1] \in Seq(Nat) /\ Line(bw, w + 1, bs, cb) \in Seq(Nat)
         /\ Line(bw, w, bs, cb) = bw[w + 1] \o Line(bw, w + 1, bs, cb)
<1>1. PICK o \in Nat, e \in Nat : o = w + 1 /\ e = Len(bw)
  OBVIOUS
<1>2. o \in 1..Len(bw) /\ e \in o..Len(bw) /\ o \in 0..Len(bw) /\ bw[o] \in Seq(Nat)
  <2>1. o \in 1..Len(bw) /\ e \in o..Len(bw) /\ o \in 0..Len(bw)
    BY <1>1
  <2>2. bw[o] \in Buffer
    BY <2>1, ElementOfSeq
  <2> QED BY <2>1, <2>2 DEF Buffer
<1>3. SubSeq(bw, o, e) = <<bw[o]>> \o SubSeq(bw, o + 1, e)
  BY <1>2, SubSeqRecursiveFirst
<1>4. PICK rest : rest = SubSeq(bw, o + 1, e)
  OBVIOUS
<1>5. rest \in Seq(Seq(Nat))
  BY <1>1, <1>2, <1>4, LineParts DEF Buffer
<1>6. FlattenSeq(SubSeq(bw, o, e)) = bw[o] \o FlattenSeq(rest) /\ FlattenSeq(rest) \in Seq(Nat)
  <2>1. PICK one : one = <<bw[o]>>
    OBVIOUS
  <2>2. one \in Seq(Seq(Nat)) /\ FlattenSeq(one) = bw[o]
    BY <1>2, <2>1, FlattenOne
  <2>3. /\ FlattenSeq(one \o rest) = FlattenSeq(one) \o FlattenSeq(rest)
        /\ FlattenSeq(rest) \in Seq(Nat)
    BY <1>5, <2>2, FlattenConcat
  <2> QED BY <1>3, <1>4, <2>1, <2>2, <2>3
<1>7. Waiting(bw, w) = bw[o] \o Waiting(bw, o) /\ Waiting(bw, o) \in Seq(Nat)
  BY <1>1, <1>4, <1>6 DEF Waiting
<1>8. PICK f \in Seq(Nat) : f = Behind(bs, cb)
  BY LineParts
<1>9. /\ Line(bw, w, bs, cb) = Waiting(bw, w) \o f
      /\ Line(bw, o, bs, cb) = Waiting(bw, o) \o f /\ Line(bw, o, bs, cb) \in Seq(Nat)
  BY <1>2, <1>8, LineParts
<1>10. (bw[o] \o Waiting(bw, o)) \o f = bw[o] \o (Waiting(bw, o) \o f)
  <2>1. PICK x \in Seq(Nat), y \in Seq(Nat) : x = bw[o] /\ y = Waiting(bw, o)
    BY <1>2, <1>7
  <2>2. (x \o y) \o f = x \o (y \o f)
    BY RecordsAssociate
  <2> QED BY <2>1, <2>2
<1> QED BY <1>1, <1>2, <1>7, <1>9, <1>10

(* What is written is no longer in line.                                   *)
LEMMA WrittenLine ==
  ASSUME NEW bw \in Seq(Buffer), NEW w, w = Len(bw), NEW bs \in Seq(Buffer), NEW cb \in Buffer
  PROVE  Line(bw, w, bs, cb) = Line(<<>>, 0, bs, cb)
<1>1. PICK none \in Seq(Buffer) : none = <<>>
  <2>1. <<>> \in Seq(Buffer)
    OBVIOUS
  <2> QED BY <2>1
<1>2. PICK z : z = 0
  OBVIOUS
<1>3. z \in 0..Len(none) /\ z = Len(none) /\ w \in 0..Len(bw)
  BY <1>1, <1>2
<1>4. Waiting(bw, w) = <<>> /\ Waiting(none, z) = <<>>
  BY <1>3, NothingWaits
<1>5. Line(bw, w, bs, cb) = Waiting(bw, w) \o Behind(bs, cb)
  BY <1>3, LineParts
<1>6. Line(none, z, bs, cb) = Waiting(none, z) \o Behind(bs, cb)
  BY <1>3, LineParts
<1> QED BY <1>1, <1>2, <1>4, <1>5, <1>6

(* The buffers that DropExcess considers hold at least MaxBuffers buffers  *)
(* full of records, and it keeps the records of the first two.             *)
Drops(bw, bs, cb) ==
  \E a \in Seq(Nat), b \in Seq(Nat), f \in Seq(Nat) :
    /\ Line(bw, 0, bs, cb) = (a \o b) \o f
    /\ Line(SubSeq(bw, 1, 2), 0, bs, cb) = a \o f
    /\ Len(a) = 2 * Capacity
    /\ Len(a \o b) >= MaxBuffers * Capacity

(* So it is when it considers more than MaxBuffers of them.                *)
LEMMA DroppedLine ==
  ASSUME NEW bw \in Seq(Buffer), NEW bs \in Seq(Buffer), NEW cb \in Buffer,
         Len(bw) > MaxBuffers, \A i \in 1..(Len(bw) - 1) : Len(bw[i]) = Capacity
  PROVE  Drops(bw, bs, cb)
<1>1. PICK n \in Nat, m \in Nat, two \in Nat : n = Len(bw) /\ m = MaxBuffers /\ two = 2
  BY MaxBuffersAssumption
<1>2. n > m /\ m >= two /\ \A i \in 1..(n - 1) : Len(bw[i]) = Capacity
  BY <1>1, MaxBuffersAssumption
<1>3. ASSUME NEW k \in Nat, 1 <= k, k < n
      PROVE  /\ SubSeq(bw, 1, k) \in Seq(Buffer) /\ SubSeq(bw, k + 1, n) \in Seq(Buffer)
             /\ bw = SubSeq(bw, 1, k) \o SubSeq(bw, k + 1, n)
             /\ Len(FlattenSeq(SubSeq(bw, 1, k))) = k * Capacity
  <2>1. PICK o \in Int : o = 1
    OBVIOUS
  <2>2. PICK p : p = SubSeq(bw, o, k)
    OBVIOUS
  <2>3. \A i \in o..k : i \in 1..Len(bw) /\ i \in 1..(n - 1)
    BY <1>1, <1>3, <2>1
  <2>4. \A i \in o..k : bw[i] \in Buffer
    BY <2>3, ElementOfSeq
  <2>5. (IF o <= k THEN k - o + 1 ELSE 0) = k /\ k - o + 1 = k
    BY <1>3, <2>1
  <2>6. p \in Seq(Buffer) /\ Len(p) = k /\ \A i \in 1..k : p[i] = bw[o + i - 1]
    BY <2>2, <2>4, <2>5, SubSeqProperties
  <2>7. ASSUME NEW i \in 1..k PROVE Len(p[i]) = Capacity
    <3>1. o + i - 1 = i /\ i \in 1..(n - 1)
      BY <1>3, <2>1
    <3> QED BY <1>2, <2>6, <3>1
  <2>8. Len(FlattenSeq(p)) = k * Capacity
    <3>1. p \in Seq(Seq(Nat)) /\ Capacity \in Nat /\ \A i \in 1..Len(p) : Len(p[i]) = Capacity
      BY <2>6, <2>7, CapacityAssumption DEF Buffer
    <3>2. Len(FlattenSeq(p)) = Len(p) * Capacity
      BY <3>1, FlattenLength
    <3> QED BY <2>6, <3>2
  <2>9. SubSeq(bw, k + 1, n) \in Seq(Buffer)
    BY <1>1, <1>3, LineParts
  <2>10. bw = p \o SubSeq(bw, k + 1, n)
    <3>1. o \in 1..(Len(bw) + 1) /\ k \in (o - 1)..Len(bw) /\ n \in k..Len(bw)
      BY <1>1, <1>3, <2>1
    <3>2. SubSeq(bw, o, k) \o SubSeq(bw, k + 1, n) = SubSeq(bw, o, n)
      BY <3>1, ConcatAdjacentSubSeq
    <3>3. SubSeq(bw, o, n) = bw
      BY <1>1, <2>1, SubSeqFull
    <3> QED BY <2>2, <3>2, <3>3
  <2> QED BY <2>1, <2>2, <2>6, <2>8, <2>9, <2>10
<1>4. PICK p, q, r, s : /\ p = SubSeq(bw, 1, two) /\ q = SubSeq(bw, two + 1, n)
                        /\ r = SubSeq(bw, 1, m) /\ s = SubSeq(bw, m + 1, n)
  OBVIOUS
<1>5. /\ p \in Seq(Buffer) /\ q \in Seq(Buffer) /\ bw = p \o q
      /\ Len(FlattenSeq(p)) = two * Capacity
  BY <1>1, <1>2, <1>3, <1>4, SMTT(30)
<1>6. /\ r \in Seq(Buffer) /\ s \in Seq(Buffer) /\ bw = r \o s
      /\ Len(FlattenSeq(r)) = m * Capacity
  <2>1. 1 <= m /\ m < n
    BY <1>1, <1>2
  <2> QED BY <1>3, <1>4, <2>1
<1>7. p \in Seq(Seq(Nat)) /\ q \in Seq(Seq(Nat)) /\ r \in Seq(Seq(Nat)) /\ s \in Seq(Seq(Nat))
  BY <1>5, <1>6 DEF Buffer
<1>8. PICK a \in Seq(Nat), b \in Seq(Nat) : a = FlattenSeq(p) /\ b = FlattenSeq(q)
  BY <1>7, FlattenConcat
<1>9. FlattenSeq(bw) = a \o b
  BY <1>5, <1>7, <1>8, FlattenConcat
<1>10. Len(a \o b) >= m * Capacity
  <2>1. PICK x \in Seq(Nat), y \in Seq(Nat) : x = FlattenSeq(r) /\ y = FlattenSeq(s)
    BY <1>7, FlattenConcat
  <2>2. FlattenSeq(bw) = x \o y
    BY <1>6, <1>7, <2>1, FlattenConcat
  <2>3. Len(x \o y) = Len(x) + Len(y) /\ Len(x) = m * Capacity
    BY <1>6, <2>1, ConcatProperties
  <2>4. PICK h \in Nat, j \in Nat : h = Len(x) /\ j = Len(y)
    OBVIOUS
  <2>5. Len(a \o b) = h + j /\ h = m * Capacity
    BY <1>9, <2>2, <2>3, <2>4
  <2> QED BY <2>4, <2>5
<1>11. PICK f \in Seq(Nat) : f = Behind(bs, cb)
  <2>1. 0 \in 0..Len(bw)
    OBVIOUS
  <2> QED BY <2>1, LineParts
<1>12. Line(bw, 0, bs, cb) = (a \o b) \o f
  <2>1. PICK z : z = 0
    OBVIOUS
  <2>2. z \in 0..Len(bw) /\ Waiting(bw, z) = FlattenSeq(bw)
    BY <2>1, AllWait
  <2>3. Line(bw, z, bs, cb) = Waiting(bw, z) \o f
    BY <1>11, <2>2, LineParts
  <2> QED BY <1>9, <2>1, <2>2, <2>3
<1>13. Line(p, 0, bs, cb) = a \o f
  <2>1. PICK z : z = 0
    OBVIOUS
  <2>2. z \in 0..Len(p) /\ Waiting(p, z) = FlattenSeq(p)
    BY <1>5, <2>1, AllWait
  <2>3. Line(p, z, bs, cb) = Waiting(p, z) \o f
    BY <1>5, <1>11, <2>2, LineParts
  <2> QED BY <1>8, <2>1, <2>2, <2>3
<1>14. Len(a) = 2 * Capacity
  BY <1>1, <1>5, <1>8
<1> QED BY <1>1, <1>4, <1>10, <1>12, <1>13, <1>14 DEF Drops
-----------------------------------------------------------------------------
(* The buffers of the list are full; so are all but the last of those that *)
(* the writer has just taken.                                              *)
BuffersAreFull ==
  /\ \A i \in 1..Len(buffers_) : Len(buffers_[i]) = Capacity
  /\ state = "swapped" =>
       \A i \in 1..(Len(buffersToWrite) - 1) : Len(buffersToWrite[i]) = Capacity

(* append moves its buffer to the list when there is no room in it.        *)
LEMMA FullInitial == Init => BuffersAreFull
  BY DEF Init, BuffersAreFull

(* A step of the writer takes the whole list; no step shortens a buffer of *)
(* it.                                                                     *)
LEMMA FullStep == LogIInv /\ BuffersAreFull /\ [Next]_vars => BuffersAreFull'
<1> SUFFICES ASSUME LogIInv, BuffersAreFull, [Next]_vars PROVE BuffersAreFull'
  OBVIOUS
<1>1. /\ buffers_ \in Seq(Buffer) /\ currentBuffer_ \in Seq(Nat) /\ Len(currentBuffer_) <= Capacity
      /\ buffersToWrite \in Seq(Buffer)
  BY DEF LogIInv, TypeOK, Buffer
<1>2. ASSUME append PROVE BuffersAreFull'
  <2>1. buffersToWrite' = buffersToWrite /\ state' = state
    BY <1>2 DEF append
  <2>2. CASE buffers_' = buffers_
    BY <2>1, <2>2 DEF BuffersAreFull
  <2>3. CASE ~HasRoom /\ buffers_' = Append(buffers_, currentBuffer_)
    <3>1. Len(currentBuffer_) = Capacity
      <4>1. PICK l \in Nat : l = Len(currentBuffer_)
        BY <1>1
      <4> QED BY <1>1, <2>3, <4>1, CapacityAssumption DEF HasRoom
    <3>2. /\ currentBuffer_ \in Buffer /\ Len(buffers_') = Len(buffers_) + 1
          /\ \A i \in 1..Len(buffers_) : buffers_'[i] = buffers_[i]
          /\ buffers_'[Len(buffers_) + 1] = currentBuffer_
      <4>1. currentBuffer_ \in Buffer
        BY <1>1 DEF Buffer
      <4> QED BY <1>1, <2>3, <4>1, AppendProperties
    <3>3. ASSUME NEW i \in 1..Len(buffers_') PROVE Len(buffers_'[i]) = Capacity
      <4>1. PICK n \in Nat : n = Len(buffers_)
        BY <1>1
      <4>2. i \in 1..n \/ i = n + 1
        BY <3>2, <4>1
      <4> QED BY <3>1, <3>2, <4>1, <4>2 DEF BuffersAreFull
    <3> QED BY <2>1, <3>3 DEF BuffersAreFull
  <2> QED BY <1>2, <2>2, <2>3 DEF append
<1>3. ASSUME Swap, ReadyToSwap PROVE BuffersAreFull'
  <2>1. PICK n \in Nat : n = Len(buffers_)
    BY <1>1
  <2>2. currentBuffer_ \in Buffer
    BY <1>1 DEF Buffer
  <2>3. PICK bt : bt = Append(buffers_, currentBuffer_)
    OBVIOUS
  <2>4. Len(bt) = n + 1 /\ \A i \in 1..n : bt[i] = buffers_[i]
    BY <1>1, <2>1, <2>2, <2>3, AppendProperties
  <2>5. buffersToWrite' = bt /\ buffers_' = <<>>
    BY <1>3, <2>3 DEF Swap, ReadyToSwap
  <2>6. ASSUME NEW i \in 1..(Len(bt) - 1) PROVE Len(bt[i]) = Capacity
    <3>1. i \in 1..n
      BY <2>4
    <3> QED BY <2>1, <2>4, <3>1 DEF BuffersAreFull
  <2> QED BY <2>5, <2>6 DEF BuffersAreFull
<1>4. ASSUME SwapFull \/ WakeUp PROVE BuffersAreFull'
  BY <1>3, <1>4 DEF SwapFull, WakeUp, LogIInv, BuffersAreDue
<1>5. ASSUME Wait \/ DropExcess \/ WriteBuffer \/ Recycle PROVE BuffersAreFull'
  <2>1. buffers_' = buffers_ /\ state' # "swapped"
    BY <1>5 DEF Wait, DropExcess, WriteBuffer, Recycle, frontVars
  <2> QED BY <2>1 DEF BuffersAreFull
<1>6. CASE UNCHANGED vars
  BY <1>6 DEF vars, frontVars, BuffersAreFull
<1> QED BY <1>2, <1>4, <1>5, <1>6 DEF Next, threadFunc

(* Both invariants hold always.                                            *)
LEMMA FullAlways == Spec => [](LogIInv /\ BuffersAreFull)
BY LogInitial, LogStep, FullInitial, FullStep, PTL DEF Spec

(* The line is what is queued; a record is put at its end.                 *)
LEMMA QueueTypes ==
  ASSUME LogIInv
  PROVE  /\ buffersToWrite \in Seq(Buffer) /\ written \in 0..Len(buffersToWrite)
         /\ buffers_ \in Seq(Buffer) /\ currentBuffer_ \in Buffer /\ file \in Seq(Nat)
         /\ logged \in Nat
         /\ Queued = Line(buffersToWrite, written, buffers_, currentBuffer_)
         /\ Queued \in Seq(Nat)
<1>1. /\ buffersToWrite \in Seq(Buffer) /\ written \in 0..Len(buffersToWrite)
      /\ buffers_ \in Seq(Buffer) /\ currentBuffer_ \in Buffer /\ file \in Seq(Nat)
      /\ logged \in Nat
  BY DEF LogIInv, TypeOK
<1>2. Queued = Line(buffersToWrite, written, buffers_, currentBuffer_)
  BY DEF Queued, Line
<1> QED BY <1>1, <1>2, LineParts

(* append puts its record at the end of the queue, whichever buffer it     *)
(* uses (lkpServer.cc:544-588).                                            *)
LEMMA AppendPuts ==
  ASSUME LogIInv, append
  PROVE  Queue!Put
<1>1. PICK bw \in Seq(Buffer), bs \in Seq(Buffer), cb \in Buffer :
        bw = buffersToWrite /\ bs = buffers_ /\ cb = currentBuffer_
  BY QueueTypes
<1>2. PICK w \in 0..Len(bw), r \in Nat : w = written /\ r = logged'
  <2>1. logged' \in Nat /\ written \in 0..Len(bw)
    BY <1>1, QueueTypes DEF append
  <2> QED BY <2>1
<1>3. Queued = Line(bw, w, bs, cb)
  BY <1>1, <1>2, QueueTypes
<1>4. /\ Queued' = Line(bw, w, buffers_', currentBuffer_')
      /\ logged' = logged + 1 /\ file' = file
  BY <1>1, <1>2 DEF append, Queued, Line
<1>5. CASE currentBuffer_' = Append(cb, r) /\ buffers_' = bs
  <2>1. Queued' = Append(Queued, r)
    BY <1>3, <1>4, <1>5, LastInLine
  <2> QED BY <1>2, <1>4, <2>1 DEF Queue!Put
<1>6. CASE buffers_' = Append(bs, cb) /\ currentBuffer_' = Append(FreshBuffer, r)
  <2>1. PICK v : v = <<r>>
    OBVIOUS
  <2>2. Append(FreshBuffer, r) = v
    <3>1. FreshBuffer = <<>>
      BY DEF FreshBuffer, LogIInv, TypeOK
    <3>2. Append(<<>>, r) = <<r>>
      OBVIOUS
    <3> QED BY <2>1, <3>1, <3>2
  <2>3. Line(bw, w, Append(bs, cb), v) = Append(Line(bw, w, bs, cb), r)
    BY <2>1, LastInLine, Zenon
  <2>4. Queued' = Append(Queued, r)
    BY <1>3, <1>4, <1>6, <2>2, <2>3
  <2> QED BY <1>2, <1>4, <2>4 DEF Queue!Put
<1> QED BY <1>1, <1>2, <1>5, <1>6 DEF append

(* The swap under mutex_ neither moves nor loses a record                  *)
(* (lkpServer.cc:608-614).                                                 *)
LEMMA SwapMovesNone ==
  ASSUME LogIInv, Swap, ReadyToSwap
  PROVE  Queued' = Queued /\ logged' = logged /\ file' = file
<1>1. PICK bs \in Seq(Buffer), cb \in Buffer : bs = buffers_ /\ cb = currentBuffer_
  BY QueueTypes
<1>2. written = 0
  BY DEF ReadyToSwap, LogIInv, TypeOK
<1>3. Queued = Line(<<>>, 0, bs, cb)
  BY <1>1, <1>2, QueueTypes DEF ReadyToSwap
<1>4. Queued' = Line(Append(bs, cb), 0, <<>>, <<>>)
  BY <1>1, <1>2 DEF Swap, ReadyToSwap, Queued, Line
<1> QED BY <1>3, <1>4, SwappedLine DEF Swap

(* Records are dropped only from a backlog, and after the two oldest       *)
(* buffers (lkpServer.cc:618-629).                                         *)
LEMMA DropLoses ==
  ASSUME LogIInv, BuffersAreFull, DropExcess
  PROVE  Queue!Lose \/ UNCHANGED <<logged, Queued, file>>
<1>1. PICK bw \in Seq(Buffer), bs \in Seq(Buffer), cb \in Buffer :
        bw = buffersToWrite /\ bs = buffers_ /\ cb = currentBuffer_
  BY QueueTypes
<1>2. written = 0 /\ written' = 0 /\ logged' = logged /\ file' = file
  BY DEF DropExcess, frontVars, LogIInv, BuffersAreDue
<1>3. Queued = Line(bw, 0, bs, cb)
  BY <1>1, <1>2, QueueTypes
<1>4. Queued' = Line(buffersToWrite', 0, bs, cb)
  BY <1>1, <1>2 DEF DropExcess, frontVars, Queued, Line
<1>5. CASE ~(Len(bw) > MaxBuffers)
  BY <1>1, <1>2, <1>3, <1>4, <1>5 DEF DropExcess
<1>6. CASE Len(bw) > MaxBuffers
  <2>1. buffersToWrite' = SubSeq(bw, 1, 2)
    BY <1>1, <1>6 DEF DropExcess, KeepOldest
  <2>2. \A i \in 1..(Len(bw) - 1) : Len(bw[i]) = Capacity
    BY <1>1 DEF DropExcess, BuffersAreFull
  <2>3. PICK a \in Seq(Nat), b \in Seq(Nat), f \in Seq(Nat) :
          /\ Line(bw, 0, bs, cb) = (a \o b) \o f
          /\ Line(SubSeq(bw, 1, 2), 0, bs, cb) = a \o f
          /\ Len(a) = 2 * Capacity
          /\ Len(a \o b) >= MaxBuffers * Capacity
    <3>1. Drops(bw, bs, cb)
      BY <1>6, <2>2, DroppedLine
    <3> QED BY <3>1 DEF Drops
  <2>4. PICK d \in Seq(Nat) : d = a \o b
    <3>1. a \o b \in Seq(Nat)
      BY ConcatProperties
    <3> QED BY <3>1
  <2>5. Queued = d \o f /\ Queued' = a \o f
    BY <1>3, <1>4, <2>1, <2>3, <2>4
  <2>6. PICK n \in Nat : n = Len(d)
    OBVIOUS
  <2>7. n >= MaxBuffers * Capacity /\ n <= Len(Queued)
    <3>1. Len(d \o f) = Len(d) + Len(f) /\ Len(f) \in Nat
      BY ConcatProperties
    <3> QED BY <2>3, <2>4, <2>5, <2>6, <3>1
  <2>8. SubSeq(Queued, n + 1, Len(Queued)) = f
    BY <2>5, <2>6, CutConcat
  <2>9. SubSeq(Queued, 1, 2 * Capacity) = a
    <3>1. PICK e \in Seq(Nat) : e = b \o f
      <4>1. b \o f \in Seq(Nat)
        BY ConcatProperties
      <4> QED BY <4>1
    <3>2. d \o f = a \o e
      <4>1. (a \o b) \o f = a \o (b \o f)
        BY RecordsAssociate, ZenonT(30)
      <4> QED BY <2>4, <3>1, <4>1
    <3>3. SubSeq(a \o e, 1, Len(a)) = a
      BY CutConcat
    <3> QED BY <2>3, <2>5, <3>2, <3>3
  <2>10. n \in (MaxBuffers * Capacity)..Len(Queued)
    <3>1. MaxBuffers * Capacity \in Nat
      BY MaxBuffersAssumption, CapacityAssumption
    <3>2. Len(Queued) \in Nat
      BY QueueTypes
    <3> QED BY <2>7, <3>1, <3>2
  <2>11. Queue!Lose
    BY <1>2, <2>5, <2>8, <2>9, <2>10 DEF Queue!Lose
  <2> QED BY <2>11
<1> QED BY <1>5, <1>6

(* A buffer goes to the file from the head of the queue                    *)
(* (lkpServer.cc:631-635).                                                 *)
LEMMA WriteTakes ==
  ASSUME LogIInv, WriteBuffer
  PROVE  Queue!Take \/ UNCHANGED <<logged, Queued, file>>
<1>1. PICK bw \in Seq(Buffer), bs \in Seq(Buffer), cb \in Buffer :
        bw = buffersToWrite /\ bs = buffers_ /\ cb = currentBuffer_
  BY QueueTypes
<1>2. PICK w \in 0..Len(bw) : w = written /\ w < Len(bw)
  BY <1>1, QueueTypes DEF WriteBuffer
<1>3. PICK b, rest : b = bw[w + 1] /\ rest = Line(bw, w + 1, bs, cb)
  OBVIOUS
<1>4. /\ b \in Seq(Nat) /\ rest \in Seq(Nat)
      /\ Line(bw, w, bs, cb) = b \o rest
  BY <1>2, <1>3, HeadOfLine
<1>5. Queued = b \o rest
  BY <1>1, <1>2, <1>4, QueueTypes
<1>6. Queued' = rest /\ logged' = logged /\ file' = file \o b
  BY <1>1, <1>2, <1>3 DEF WriteBuffer, frontVars, Queued, Line
<1>7. CASE b = <<>>
  <2>1. b \o rest = rest /\ file \o b = file
    BY <1>4, <1>7, QueueTypes, ConcatEmptySeq
  <2> QED BY <1>5, <1>6, <2>1
<1>8. CASE b # <<>>
  <2>1. PICK k \in Nat : k = Len(b)
    BY <1>4
  <2>2. k \in 1..Len(Queued)
    <3>1. k # 0
      BY <1>4, <1>8, <2>1, EmptySeq
    <3>2. Len(Queued) = k + Len(rest) /\ Len(rest) \in Nat
      BY <1>4, <1>5, <2>1, ConcatProperties
    <3> QED BY <3>1, <3>2
  <2>3. SubSeq(Queued, 1, k) = b /\ SubSeq(Queued, k + 1, Len(Queued)) = rest
    BY <1>4, <1>5, <2>1, CutConcat
  <2>4. Queue!Take
    BY <1>6, <2>2, <2>3 DEF Queue!Take
  <2> QED BY <2>4
<1> QED BY <1>7, <1>8

(* Every step of the log is a step of the queue, or none.                  *)
LEMMA QueueStep ==
  ASSUME LogIInv, BuffersAreFull, [Next]_vars
  PROVE  [Queue!Next]_<<logged, Queued, file>>
<1>1. CASE append
  BY <1>1, AppendPuts DEF Queue!Next
<1>2. CASE SwapFull \/ WakeUp
  <2>1. Swap /\ ReadyToSwap
    BY <1>2 DEF SwapFull, WakeUp, LogIInv, BuffersAreDue
  <2> QED BY <2>1, SwapMovesNone
<1>3. CASE Wait
  BY <1>3 DEF Wait, frontVars, Queued
<1>4. CASE DropExcess
  BY <1>4, DropLoses DEF Queue!Next
<1>5. CASE WriteBuffer
  BY <1>5, WriteTakes DEF Queue!Next
<1>6. CASE Recycle
  <2>1. PICK bw \in Seq(Buffer), bs \in Seq(Buffer), cb \in Buffer :
          bw = buffersToWrite /\ bs = buffers_ /\ cb = currentBuffer_
    BY QueueTypes
  <2>2. PICK w : w = written /\ w = Len(bw)
    BY <1>6, <2>1 DEF Recycle
  <2>3. Queued = Line(bw, w, bs, cb)
    BY <2>1, <2>2, QueueTypes
  <2>4. Queued' = Line(<<>>, 0, bs, cb) /\ logged' = logged /\ file' = file
    BY <1>6, <2>1 DEF Recycle, frontVars, Queued, Line
  <2> QED BY <2>2, <2>3, <2>4, WrittenLine
<1>7. CASE UNCHANGED vars
  BY <1>7 DEF vars, frontVars, Queued
<1> QED BY <1>1, <1>2, <1>3, <1>4, <1>5, <1>6, <1>7 DEF Next, threadFunc

(* The log is a queue, for any size of a buffer and any limit: records     *)
(* reach the file in the order in which they were appended and once each,  *)
(* none is lost while fewer than MaxBuffers * Capacity are queued, and     *)
(* when some are lost the oldest two buffers are kept                      *)
(* (lkpServer.cc:544-657, lkpClient.cc:388-503).                           *)
THEOREM LogImplementsQueue == Spec => Queue!Safety
<1>1. Init => Queue!Init
  <2> SUFFICES ASSUME Init PROVE Queue!Init
    OBVIOUS
  <2>1. <<>> \o <<>> = <<>> /\ SubSeq(<<>>, 0 + 1, Len(<<>>)) = <<>>
    <3>1. PICK none \in Seq(Nat) : none = <<>>
      <4>1. <<>> \in Seq(Nat)
        OBVIOUS
      <4> QED BY <4>1
    <3>2. none \o none = none
      BY ConcatEmptySeq, <3>1
    <3>3. PICK o \in Int, e \in Int : o = 0 + 1 /\ e = Len(none)
      OBVIOUS
    <3>4. e < o
      BY <3>1, <3>3
    <3>5. SubSeq(none, o, e) = <<>>
      BY <3>4, SubSeqEmpty
    <3> QED BY <3>1, <3>2, <3>3, <3>5
  <2>2. Queued = FlattenSeq(SubSeq(<<>>, 0 + 1, Len(<<>>)) \o <<>>) \o <<>>
    BY DEF Init, Queued
  <2>3. Queued = <<>>
    BY <2>1, <2>2, FlattenNone, Zenon
  <2> QED BY <2>3 DEF Init, Queue!Init
<1>2. LogIInv /\ BuffersAreFull /\ [Next]_vars => [Queue!Next]_<<logged, Queued, file>>
  BY QueueStep
<1> QED BY <1>1, <1>2, FullAlways, PTL DEF Spec, Queue!Safety
=============================================================================
