-------------------------- MODULE lkpCommand_proofs --------------------------
(***************************************************************************)
(* Proofs about lkpCommand, for any arguments, any configuration file and  *)
(* any Returns of the server: what the file says is what the program uses, *)
(* what it sends is what was asked for, and what it prints is what came    *)
(* back.                                                                   *)
(*                                                                         *)
(* The configuration file is read line by line into configMap. The         *)
(* invariant CInv says of every key that must be there that configMap      *)
(* holds it exactly if one of the lines read so far is meant to give it,   *)
(* with the value of the last of them (MapRead); AnalysedAsMeant shows     *)
(* that AnalyseLine, whose computation of the end of the text is wrong,    *)
(* agrees with the meaning of a line on each of those keys.  The fold in   *)
(* the table of rows is computed with FoldChain of lkpInduction.           *)
(***************************************************************************)
EXTENDS lkpCommand, lkpInduction

(* What is known of the width of an unsigned field.                        *)
LEMMA WordSize == UInt32 \in Nat \ {0}
BY ProtoAssumption

(* string::find of a character: npos, and then the character is nowhere,   *)
(* or the first position where it is (AnalyseLine, lkpHelper.cc:220, 230). *)
LEMMA FindLemma ==
  ASSUME NEW s \in Text, NEW c
  PROVE  /\ Find(s, c) \in -1..(Len(s) - 1)
         /\ Find(s, c) = -1 => \A i \in 1..Len(s) : s[i] # c
         /\ Find(s, c) # -1 => /\ s[Find(s, c) + 1] = c
                               /\ \A i \in 1..Find(s, c) : s[i] # c
<1> DEFINE At == {i \in 1..Len(s) : s[i] = c}
           Is(i) == i \in 1..Len(s) /\ s[i] = c /\ \A j \in 1..(i - 1) : s[j] # c
           first == CHOOSE i \in 1..Len(s) : s[i] = c /\ \A j \in 1..(i - 1) : s[j] # c
<1>1. Len(s) \in Nat
  BY DEF Text
<1>2. Find(s, c) = IF At # {} THEN first - 1 ELSE -1
  BY DEF Find
<1>3. CASE At = {}
  BY <1>1, <1>2, <1>3
<1>4. CASE At # {}
  <2>1. PICK i \in At : \A j \in At : i <= j
    <3>1. At \subseteq Nat
      BY <1>1
    <3> HIDE DEF At
    <3> QED BY <1>4, <3>1, LeastNumber
  <2>2. Is(i)
    BY <1>1, <2>1
  <2>3. Is(first)
    BY <2>2
  <2>4. Find(s, c) = first - 1
    BY <1>2, <1>4
  <2> HIDE DEF first
  <2>5. first \in 1..Len(s)
    BY <2>3
  <2> QED BY <1>1, <2>3, <2>4, <2>5
<1> QED BY <1>3, <1>4

(* A part of a text: its length and its characters.                        *)
LEMMA SubText ==
  ASSUME NEW s \in Text, NEW m \in Nat \ {0}, NEW n \in Nat, n <= Len(s)
  PROVE  /\ SubSeq(s, m, n) \in Text
         /\ Len(SubSeq(s, m, n)) = IF m <= n THEN n - m + 1 ELSE 0
         /\ \A i \in 1..(n - m + 1) : SubSeq(s, m, n)[i] = s[m + i - 1]
<1>1. \A i \in m..n : s[i] \in STRING
  BY DEF Text
<1> QED BY <1>1, SubSeqProperties DEF Text

(* Trim takes blanks off the ends of a text, and never a # (lkpHelper.cc,  *)
(* Trim).                                                                  *)
LEMMA TrimLemma ==
  ASSUME NEW s \in Text
  PROVE  /\ Trim[s] \in Text
         /\ Len(Trim[s]) <= Len(s)
         /\ \A i \in 1..Len(s) : s[i] = "#" => "#" \in ToSet(Trim[s])
<1> DEFINE kept == {i \in 1..Len(s) : ~IsSpace(s[i])}
<1>1. Len(s) \in Nat
  BY DEF Text
<1>2. Trim[s] = IF kept = {} THEN <<>> ELSE SubSeq(s, Min(kept), Max(kept))
  BY DEF Trim
<1>3. CASE kept = {}
  <2>1. Trim[s] = <<>>
    BY <1>2, <1>3
  <2>2. \A i \in 1..Len(s) : s[i] # "#"
    BY <1>3 DEF IsSpace
  <2> QED BY <1>1, <2>1, <2>2 DEF Text
<1>4. CASE kept # {}
  <2> HIDE DEF kept
  <2>1. kept \subseteq 1..Len(s)
    BY DEF kept
  <2>2. Min(kept) \in kept /\ \A i \in kept : Min(kept) <= i
    <3>1. kept \subseteq Nat
      BY <1>1, <2>1
    <3> QED BY <1>4, <3>1, LeastNumber DEF Min
  <2>3. Max(kept) \in kept /\ \A i \in kept : i <= Max(kept)
    <3>1. kept \subseteq 0..Len(s)
      BY <1>1, <2>1
    <3> QED BY <1>1, <1>4, <3>1, GreatestNumber
  <2>4. PICK m \in 1..Len(s), n \in 1..Len(s) :
          m = Min(kept) /\ n = Max(kept) /\ m <= n
    BY <2>1, <2>2, <2>3
  <2>5. /\ Trim[s] \in Text /\ Len(Trim[s]) = n - m + 1
        /\ \A i \in 1..(n - m + 1) : Trim[s][i] = s[m + i - 1]
    BY <1>1, <1>2, <1>4, <2>4, SubText
  <2>6. ASSUME NEW i \in 1..Len(s), s[i] = "#" PROVE "#" \in ToSet(Trim[s])
    <3>1. i \in kept
      BY <2>6 DEF kept, IsSpace
    <3>2. m <= i /\ i <= n
      BY <2>2, <2>3, <2>4, <3>1
    <3>3. i - m + 1 \in 1..(n - m + 1) /\ m + (i - m + 1) - 1 = i
      BY <2>4, <3>2
    <3>4. i - m + 1 \in DOMAIN Trim[s] /\ Trim[s][i - m + 1] = "#"
      BY <2>5, <2>6, <3>3 DEF Text
    <3> QED BY <3>4 DEF ToSet
  <2> QED BY <1>1, <2>4, <2>5, <2>6
<1> QED BY <1>3, <1>4

(* A part of a prefix that ends inside the prefix is that part of the      *)
(* text.                                                                   *)
LEMMA SubOfPrefix ==
  ASSUME NEW s \in Text, NEW m \in 0..Len(s), NEW i \in Nat \ {0}, NEW j \in 0..m
  PROVE  SubSeq(SubSeq(s, 1, m), i, j) = SubSeq(s, i, j)
<1>1. Len(s) \in Nat
  BY DEF Text
<1>2. PICK p : p = SubSeq(s, 1, m)
  OBVIOUS
<1>3. p \in Text /\ Len(p) = m /\ \A k \in 1..m : p[k] = s[k]
  <2>1. /\ p \in Text /\ Len(p) = IF 1 <= m THEN m - 1 + 1 ELSE 0
        /\ \A k \in 1..(m - 1 + 1) : p[k] = s[1 + k - 1]
    BY <1>1, <1>2, SubText
  <2> QED BY <1>1, <2>1
<1>4. PICK a, b : a = SubSeq(p, i, j) /\ b = SubSeq(s, i, j)
  OBVIOUS
<1>5. /\ a \in Text /\ Len(a) = IF i <= j THEN j - i + 1 ELSE 0
      /\ \A k \in 1..(j - i + 1) : a[k] = p[i + k - 1]
  BY <1>1, <1>3, <1>4, SubText
<1>6. /\ b \in Text /\ Len(b) = IF i <= j THEN j - i + 1 ELSE 0
      /\ \A k \in 1..(j - i + 1) : b[k] = s[i + k - 1]
  BY <1>1, <1>4, SubText
<1>7. \A k \in 1..Len(a) : a[k] = b[k]
  BY <1>1, <1>3, <1>5, <1>6
<1>8. a = b
  BY <1>5, <1>6, <1>7, SeqEqual DEF Text
<1> QED BY <1>2, <1>4, <1>8

(* What is found in a prefix is what is found in the text, if that is      *)
(* inside the prefix.                                                      *)
LEMMA FindInPrefix ==
  ASSUME NEW s \in Text, NEW m \in 0..Len(s), NEW c
  PROVE  Find(SubSeq(s, 1, m), c) = IF Find(s, c) < m THEN Find(s, c) ELSE -1
<1>1. Len(s) \in Nat
  BY DEF Text
<1>2. PICK p : p = SubSeq(s, 1, m)
  OBVIOUS
<1>3. p \in Text /\ Len(p) = m /\ \A k \in 1..m : p[k] = s[k]
  <2>1. /\ p \in Text /\ Len(p) = IF 1 <= m THEN m - 1 + 1 ELSE 0
        /\ \A k \in 1..(m - 1 + 1) : p[k] = s[1 + k - 1]
    BY <1>1, <1>2, SubText
  <2> QED BY <1>1, <2>1
<1>4. PICK a \in -1..(m - 1) : /\ a = Find(p, c)
                               /\ a = -1 => \A i \in 1..m : p[i] # c
                               /\ a # -1 => p[a + 1] = c /\ \A i \in 1..a : p[i] # c
  <2>1. /\ Find(p, c) \in -1..(Len(p) - 1)
        /\ Find(p, c) = -1 => \A i \in 1..Len(p) : p[i] # c
        /\ Find(p, c) # -1 => p[Find(p, c) + 1] = c /\ \A i \in 1..Find(p, c) : p[i] # c
    BY <1>3, FindLemma
  <2> QED BY <1>3, <2>1
<1>5. PICK b \in -1..(Len(s) - 1) : /\ b = Find(s, c)
                                    /\ b = -1 => \A i \in 1..Len(s) : s[i] # c
                                    /\ b # -1 => s[b + 1] = c /\ \A i \in 1..b : s[i] # c
  BY FindLemma
<1>6. a = IF b < m THEN b ELSE -1
  BY <1>1, <1>3, <1>4, <1>5, SMTT(30)
<1> QED BY <1>2, <1>4, <1>5, <1>6

(* A key that must be there has more than one character and no #.          *)
LEMMA ConfigKey ==
  ASSUME NEW key \in ToSet(ConfigString)
  PROVE  key \in Text /\ Len(key) > 1 /\ "#" \notin ToSet(key)
BY KeysAssumption DEF ToSet

(* AnalyseLine (lkpHelper.cc:214-240) keeps one character of a line, all   *)
(* of it or none when it should cut off the comment; for a key that must   *)
(* be there this makes no difference: a key that is cut short is too       *)
(* short, and a key with the comment in it contains a #.                   *)
LEMMA AnalysedAsMeant ==
  ASSUME NEW entry \in Text, NEW key \in ToSet(ConfigString)
  PROVE  {e \in AnalyseLine(entry) : e.key = key} = {e \in Meaning(entry) : e.key = key}
<1>1. PICK n \in Nat : n = Len(entry)
  BY DEF Text
<1>2. PICK c \in -1..(n - 1) : /\ c = Find(entry, "#")
                               /\ c # -1 => entry[c + 1] = "#"
  BY <1>1, FindLemma
<1>3. PICK text : text = IF c = -1 THEN entry ELSE SubSeq(entry, 1, c)
  OBVIOUS
<1>4. text \in Text /\ Len(text) = IF c = -1 THEN n ELSE c
  <2>1. CASE c = -1
    BY <1>1, <1>3, <2>1
  <2>2. CASE c # -1
    <3>1. SubSeq(entry, 1, c) \in Text /\ Len(SubSeq(entry, 1, c)) = IF 1 <= c THEN c - 1 + 1 ELSE 0
      BY <1>1, <2>2, SubText
    <3> QED BY <1>3, <2>2, <3>1
  <2> QED BY <2>1, <2>2
<1>5. PICK p \in -1..(Len(text) - 1) : p = Find(text, "=")
  BY <1>4, FindLemma
<1>6. Meaning(entry) =
        IF p = -1 \/ Trim[SubSeq(text, 1, p)] = <<>> THEN {}
        ELSE {[key |-> Trim[SubSeq(text, 1, p)], value |-> Trim[SubSeq(text, p + 2, Len(text))]]}
  BY <1>2, <1>3, <1>5 DEF Meaning
<1>7. CASE entry = <<>> \/ c = 0
  <2>1. AnalyseLine(entry) = {}
    BY <1>2, <1>7 DEF AnalyseLine
  <2>2. Len(text) = 0
    BY <1>1, <1>2, <1>4, <1>7
  <2> QED BY <1>5, <1>6, <2>1, <2>2
<1> DEFINE end == IF c = -1 THEN n - 1 ELSE c - 1
<1>8. CASE entry # <<>> /\ c # 0 /\ end > 1
  <2>1. n > 2 /\ end \in 0..(n - 1) /\ 1 - end < 0
    BY <1>8
  <2>2. Substr(entry, 0, 1 - end) = entry
    <3>1. Substr(entry, 0, 1 - end) = SubSeq(entry, 1, n)
      BY <1>1, <2>1 DEF Substr
    <3> QED BY <1>1, <3>1, SubSeqFull DEF Text
  <2>3. PICK q \in -1..(n - 1) : q = Find(entry, "=") /\ (q # -1 => entry[q + 1] = "=")
    BY <1>1, FindLemma
  <2>4. AnalyseLine(entry) =
          IF q = -1 \/ Trim[Substr(entry, 0, q)] = <<>> THEN {}
          ELSE {[key |-> Trim[Substr(entry, 0, q)],
                 value |-> Trim[Substr(entry, q + 1, end + 1 - (q + 1))]]}
    BY <1>1, <1>2, <1>8, <2>2, <2>3 DEF AnalyseLine
  <2>5. p = IF q <= end THEN q ELSE -1
    <3>1. CASE c = -1
      BY <1>3, <1>5, <2>3, <3>1
    <3>2. CASE c # -1
      BY <1>1, <1>3, <1>5, <2>3, <3>2, FindInPrefix
    <3> QED BY <3>1, <3>2
  <2>6. CASE q = -1
    BY <1>6, <2>4, <2>5, <2>6
  <2>7. CASE q # -1 /\ q <= end
    <3>1. Substr(entry, 0, q) = SubSeq(entry, 1, q)
      BY <1>1, <2>7 DEF Substr
    <3>2. Substr(entry, q + 1, end + 1 - (q + 1)) = SubSeq(entry, q + 2, end + 1)
      <4>1. end + 1 - (q + 1) \in Nat /\ (q + 1) + (end + 1 - (q + 1)) = end + 1 /\ end + 1 <= n
            /\ q + 1 + 1 = q + 2
        BY <2>1, <2>7
      <4> HIDE DEF end
      <4> QED BY <1>1, <2>1, <4>1 DEF Substr
    <3>3. SubSeq(text, 1, q) = SubSeq(entry, 1, q)
      BY <1>1, <1>3, <2>1, <2>7, SubOfPrefix
    <3>4. SubSeq(text, q + 2, Len(text)) = SubSeq(entry, q + 2, end + 1)
      BY <1>1, <1>3, <1>4, <2>1, <2>7, SubOfPrefix
    <3> QED BY <1>6, <2>4, <2>5, <2>7, <3>1, <3>2, <3>3, <3>4
  <2>8. CASE q # -1 /\ q > end
    <3>1. Meaning(entry) = {}
      BY <1>6, <2>5, <2>8
    <3>2. c # -1 /\ c + 1 \in 1..q
      <4>1. c # -1 /\ q >= c
        BY <2>1, <2>3, <2>8
      <4>2. q # c
        BY <1>2, <2>3, <2>8, <4>1
      <4> QED BY <2>3, <4>1, <4>2
    <3>3. PICK k : k = Substr(entry, 0, q)
      OBVIOUS
    <3>4. k \in Text /\ c + 1 \in 1..Len(k) /\ k[c + 1] = "#"
      <4>1. k = SubSeq(entry, 1, q)
        BY <1>1, <2>8, <3>3 DEF Substr
      <4>2. /\ k \in Text /\ Len(k) = IF 1 <= q THEN q - 1 + 1 ELSE 0
            /\ \A i \in 1..(q - 1 + 1) : k[i] = entry[1 + i - 1]
        BY <1>1, <2>8, <4>1, SubText
      <4> QED BY <1>2, <3>2, <4>2
    <3>5. "#" \in ToSet(Trim[k])
      BY <3>4, TrimLemma
    <3>6. Trim[k] # key
      BY <3>5, ConfigKey
    <3> QED BY <2>4, <3>1, <3>3, <3>6
  <2> QED BY <2>6, <2>7, <2>8
<1>9. CASE entry # <<>> /\ c # 0 /\ end <= 1
  <2>1. n > 0 /\ end \in {0, 1} /\ Len(text) <= 2
    BY <1>1, <1>4, <1>9
  <2>2. ASSUME p # -1 PROVE Trim[SubSeq(text, 1, p)] # key
    <3>1. SubSeq(text, 1, p) \in Text /\ Len(SubSeq(text, 1, p)) <= 1
      BY <1>4, <1>5, <2>1, <2>2, SubText
    <3>2. Len(Trim[SubSeq(text, 1, p)]) <= 1 /\ Trim[SubSeq(text, 1, p)] \in Text
      <4>1. PICK k \in Text : k = SubSeq(text, 1, p)
        BY <3>1
      <4>2. Trim[k] \in Text /\ Len(Trim[k]) <= Len(k)
        BY TrimLemma
      <4> QED BY <3>1, <4>1, <4>2 DEF Text
    <3> QED BY <3>2, ConfigKey DEF Text
  <2>3. AnalyseLine(entry) = {}
    <3>1. PICK start : start = Substr(entry, 0, 1 - end)
      OBVIOUS
    <3>2. PICK k \in 0..1 : k = 1 - end /\ k <= n
      BY <2>1
    <3> HIDE DEF end
    <3>3. start \in Text /\ Len(start) = k
      <4>1. start = SubSeq(entry, 1, k)
        BY <1>1, <3>1, <3>2 DEF Substr
      <4>2. SubSeq(entry, 1, k) \in Text /\ Len(SubSeq(entry, 1, k)) = IF 1 <= k THEN k - 1 + 1 ELSE 0
        BY <1>1, <3>2, SubText
      <4> QED BY <3>2, <4>1, <4>2
    <3>4. PICK q \in -1..(k - 1) : q = Find(start, "=")
      BY <3>3, FindLemma
    <3>5. ASSUME q # -1 PROVE Trim[Substr(start, 0, q)] = <<>>
      <4>1. q = 0 /\ Substr(start, 0, 0) = SubSeq(start, 1, 0)
        BY <3>2, <3>3, <3>4, <3>5 DEF Substr
      <4>2. PICK b : b = SubSeq(start, 1, 0)
        OBVIOUS
      <4>3. b \in Text /\ Len(b) = 0
        BY <3>2, <3>3, <4>2, SubText
      <4>4. Trim[b] \in Text /\ Len(Trim[b]) <= Len(b)
        BY <4>3, TrimLemma
      <4>5. Trim[b] = <<>>
        <5>1. Len(Trim[b]) = 0 /\ Trim[b] \in Seq(STRING)
          BY <4>3, <4>4 DEF Text
        <5> QED BY <5>1, EmptySeq
      <4> QED BY <4>1, <4>2, <4>5
    <3>6. 1 - end = k
      BY <3>2
    <3> QED BY <1>1, <1>2, <1>9, <3>1, <3>4, <3>5, <3>6 DEF AnalyseLine, end
  <2> QED BY <1>6, <2>2, <2>3
<1> QED BY <1>7, <1>8, <1>9
(* A line gives one key with its value, or nothing; keys and values are    *)
(* texts.                                                                  *)
LEMMA LineEntries ==
  ASSUME NEW entry \in Text
  PROVE  /\ AnalyseLine(entry) = {}
              \/ \E k \in Text, v \in Text : AnalyseLine(entry) = {[key |-> k, value |-> v]}
         /\ Meaning(entry) = {}
              \/ \E k \in Text, v \in Text : Meaning(entry) = {[key |-> k, value |-> v]}
<1>0. ASSUME NEW s \in Text, NEW i \in Nat \ {0}, NEW j \in Nat, j <= Len(s)
      PROVE  Trim[SubSeq(s, i, j)] \in Text
  <2>1. PICK b \in Text : b = SubSeq(s, i, j)
    BY <1>0, SubText
  <2> QED BY <2>1, TrimLemma
<1>1. ASSUME NEW s \in Text, NEW p \in Nat, NEW count \in Int, p <= Len(s)
      PROVE  Substr(s, p, count) \in Text /\ Trim[Substr(s, p, count)] \in Text
  <2>1. PICK j \in Nat : /\ j = IF count < 0 \/ p + count > Len(s) THEN Len(s) ELSE p + count
                         /\ j <= Len(s)
    BY DEF Text
  <2>2. p + 1 \in Nat \ {0}
    OBVIOUS
  <2>3. Substr(s, p, count) = SubSeq(s, p + 1, j)
    BY <2>1 DEF Substr
  <2>4. SubSeq(s, p + 1, j) \in Text
    BY <2>1, <2>2, SubText
  <2>5. Trim[SubSeq(s, p + 1, j)] \in Text
    BY <1>0, <2>1, <2>2
  <2> QED BY <2>3, <2>4, <2>5
<1>2. PICK n \in Nat : n = Len(entry)
  BY DEF Text
<1>3. PICK c \in -1..(n - 1) : c = Find(entry, "#")
  BY <1>2, FindLemma
<1>4. AnalyseLine(entry) = {}
        \/ \E k \in Text, v \in Text : AnalyseLine(entry) = {[key |-> k, value |-> v]}
  <2>1. PICK end \in Int : end = IF c = -1 THEN n - 1 ELSE c - 1
    OBVIOUS
  <2>2. PICK start : start = Substr(entry, 0, 1 - end)
    OBVIOUS
  <2>3. start \in Text
    BY <1>1, <1>2, <2>1, <2>2
  <2>4. PICK p \in Int : p = Find(start, "=") /\ -1 <= p /\ p < Len(start)
    <3>1. Len(start) \in Nat /\ Find(start, "=") \in -1..(Len(start) - 1)
      BY <2>3, FindLemma DEF Text
    <3> QED BY <3>1
  <2>5. PICK k, v : /\ k = Trim[Substr(start, 0, p)]
                    /\ v = Trim[Substr(start, p + 1, end + 1 - (p + 1))]
    OBVIOUS
  <2>6. AnalyseLine(entry) \in {{}, {[key |-> k, value |-> v]}} /\ (p = -1 => AnalyseLine(entry) = {})
    BY <1>2, <1>3, <2>1, <2>2, <2>4, <2>5 DEF AnalyseLine
  <2>7. ASSUME p # -1 PROVE k \in Text /\ v \in Text
    <3>1. /\ p \in Nat /\ 0 \in Nat /\ p + 1 \in Nat
          /\ end + 1 - (p + 1) \in Int /\ p + 1 <= Len(start)
          /\ 0 <= Len(start)
      <4>1. Len(start) \in Nat
        BY <2>3 DEF Text
      <4> QED BY <2>4, <2>7, <4>1
    <3> QED BY <1>1, <2>3, <2>5, <3>1
  <2> QED BY <2>6, <2>7
<1>5. Meaning(entry) = {}
        \/ \E k \in Text, v \in Text : Meaning(entry) = {[key |-> k, value |-> v]}
  <2>1. PICK text : text = IF c = -1 THEN entry ELSE SubSeq(entry, 1, c)
    OBVIOUS
  <2>2. text \in Text
    <3>1. c # -1 => SubSeq(entry, 1, c) \in Text
      BY <1>2, SubText
    <3> QED BY <2>1, <3>1
  <2>3. PICK m \in Nat : m = Len(text)
    BY <2>2 DEF Text
  <2>4. PICK p \in -1..(m - 1) : p = Find(text, "=")
    BY <2>2, <2>3, FindLemma
  <2>5. PICK k, v : k = Trim[SubSeq(text, 1, p)] /\ v = Trim[SubSeq(text, p + 2, Len(text))]
    OBVIOUS
  <2>6. Meaning(entry) \in {{}, {[key |-> k, value |-> v]}} /\ (p = -1 => Meaning(entry) = {})
    BY <1>3, <2>1, <2>4, <2>5 DEF Meaning
  <2>7. ASSUME p # -1 PROVE k \in Text /\ v \in Text
    <3>1. p \in Nat /\ 1 \in Nat \ {0} /\ p + 2 \in Nat \ {0} /\ p <= m /\ m <= m
      BY <2>4, <2>7
    <3> QED BY <1>0, <2>2, <2>3, <2>5, <3>1
  <2> QED BY <2>6, <2>7
<1> QED BY <1>4, <1>5
-----------------------------------------------------------------------------
(* stoi throws or returns an int.                                          *)
LEMMA StoiNumber ==
  ASSUME NEW s \in Text
  PROVE  Stoi[s] \subseteq Int
<1>1. Stoi[s] \subseteq (-IntLimit)..(IntLimit - 1)
  BY DEF Stoi
<1>2. IntLimit \in Nat
  BY ConfigAssumption
<1> QED BY <1>1, <1>2
-----------------------------------------------------------------------------
(* Line i of the file is meant to give the key a value.                    *)
Gives(i, key) == \E e \in Meaning(file[i]) : e.key = key

(* The value in configMap is that of the last line read that gives the     *)
(* key.                                                                    *)
LastGiven(key) ==
  \E i \in 1..line : /\ [key |-> key, value |-> configMap[key]] \in Meaning(file[i])
                     /\ \A j \in (i + 1)..line : ~Gives(j, key)

(* What configMap holds of the keys that must be there, after any number   *)
(* of lines.                                                               *)
MapRead ==
  \A key \in ToSet(ConfigString) :
    /\ key \in DOMAIN configMap <=> \E i \in 1..line : Gives(i, key)
    /\ key \in DOMAIN configMap => LastGiven(key)

(* When all lines are read, configMap agrees with the meaning of the file  *)
(* on every key that must be there.                                        *)
LEMMA MapAsMeant ==
  ASSUME file \in Seq(Text), line = Len(file), MapRead, NEW key \in ToSet(ConfigString)
  PROVE  /\ key \in DOMAIN configMap <=> key \in DOMAIN MeantMap(file)
         /\ key \in DOMAIN configMap => MeantMap(file)[key] = configMap[key]
<1> DEFINE lines == {i \in 1..Len(file) : \E e \in Meaning(file[i]) : e.key = key}
<1>1. Len(file) \in Nat /\ \A i \in 1..Len(file) : file[i] \in Text
  BY ElementOfSeq
<1>2. DOMAIN MeantMap(file) = MeantKeys(file)
  BY DEF MeantMap
<1>3. key \in DOMAIN configMap <=> key \in MeantKeys(file)
  BY DEF MapRead, Gives, MeantKeys
<1>4. ASSUME key \in DOMAIN configMap PROVE MeantMap(file)[key] = configMap[key]
  <2>1. PICK i \in 1..Len(file) :
          /\ [key |-> key, value |-> configMap[key]] \in Meaning(file[i])
          /\ \A j \in (i + 1)..Len(file) : ~Gives(j, key)
    BY <1>4 DEF MapRead, LastGiven
  <2>2. i \in lines /\ \A j \in lines : j <= i
    <3>1. \A j \in lines : j \in 1..Len(file) /\ Gives(j, key)
      BY DEF Gives
    <3>2. i \in lines
      BY <2>1
    <3> HIDE DEF lines
    <3> QED BY <1>1, <2>1, <3>1, <3>2
  <2>3. Max(lines) = i
    <3>1. lines \subseteq 0..Len(file) /\ lines # {}
      BY <1>1, <2>2
    <3> HIDE DEF lines
    <3>2. Max(lines) \in lines /\ \A j \in lines : j <= Max(lines)
      BY <1>1, <3>1, GreatestNumber
    <3>3. PICK m \in 0..Len(file) : m = Max(lines)
      BY <3>1, <3>2
    <3>4. m <= i /\ i <= m
      BY <2>2, <3>2, <3>3
    <3> QED BY <3>3, <3>4
  <2>4. MeantMap(file)[key] = (CHOOSE e \in Meaning(file[i]) : TRUE).value
    <3>1. MeantMap(file)[key] = (CHOOSE e \in Meaning(file[Max(lines)]) : TRUE).value
      BY <1>3, <1>4 DEF MeantMap
    <3> QED BY <2>3, <3>1
  <2>5. \/ Meaning(file[i]) = {}
        \/ \E k \in Text, v \in Text : Meaning(file[i]) = {[key |-> k, value |-> v]}
    BY <1>1, LineEntries
  <2>6. Meaning(file[i]) = {[key |-> key, value |-> configMap[key]]}
    BY <2>1, <2>5
  <2>7. PICK e : e = [key |-> key, value |-> configMap[key]]
    OBVIOUS
  <2>8. (CHOOSE d \in {e} : TRUE) = e
    OBVIOUS
  <2> QED BY <2>4, <2>6, <2>7, <2>8
<1> QED BY <1>2, <1>3, <1>4

(* The listen port is one of the keys that must be there.                  *)
LEMMA FirstKey == ConfigString[1] \in ToSet(ConfigString)
<1>1. ConfigString \in Seq(Text) /\ ConfigString # <<>>
  BY KeysAssumption
<1>2. 1 \in DOMAIN ConfigString
  BY <1>1, EmptySeq
<1> QED BY <1>2 DEF ToSet

(* lkpConfigInit (lkpHelper.cc:25-46) finds a key missing, throws, or      *)
(* returns a port, as it would with the map that the file means.           *)
LEMMA ConfiguredAsMeant ==
  ASSUME file \in Seq(Text), line = Len(file), MapRead
  PROVE  /\ MissingKey(configMap) <=> MissingKey(MeantMap(file))
         /\ ~MissingKey(configMap) => /\ InitThrows(configMap) <=> InitThrows(MeantMap(file))
                                      /\ ListenPort(configMap) = ListenPort(MeantMap(file))
<1>1. ConfigString \in Seq(Text)
  BY KeysAssumption
<1>2. \A i \in 1..Len(ConfigString) : ConfigString[i] \in ToSet(ConfigString)
  BY <1>1 DEF ToSet
<1>3. MissingKey(configMap) <=> MissingKey(MeantMap(file))
  BY <1>2, MapAsMeant DEF MissingKey
<1>4. ASSUME ~MissingKey(configMap), NEW key \in ToSet(ConfigString)
      PROVE  MeantMap(file)[key] = configMap[key]
  <2>1. key \in DOMAIN configMap
    BY <1>1, <1>4 DEF MissingKey, ToSet
  <2>2. key \in DOMAIN configMap => MeantMap(file)[key] = configMap[key]
    BY <1>4, MapAsMeant
  <2> QED BY <2>1, <2>2
<1>5. ASSUME ~MissingKey(configMap) PROVE InitThrows(configMap) <=> InitThrows(MeantMap(file))
  BY <1>4, <1>5, ConfigAssumption DEF InitThrows
<1>6. ASSUME ~MissingKey(configMap) PROVE ListenPort(configMap) = ListenPort(MeantMap(file))
  <2>1. MeantMap(file)[ConfigString[1]] = configMap[ConfigString[1]]
    BY <1>4, <1>6, FirstKey
  <2> QED BY <2>1 DEF ListenPort
<1> QED BY <1>3, <1>5, <1>6
-----------------------------------------------------------------------------
(* CopyFrom leaves nothing of the row before: NodeInfo is cleared and      *)
(* merged into (lkpCommand.cc:178-184).                                    *)
LEMMA AssignIsCopy ==
  ASSUME NEW node, NEW info \in NodeInfoMessage
  PROVE  Assign(node, info) = info
<1>1. PICK r : r = Assign(node, info)
  OBVIOUS
<1>2. r \in [type : {"NodeInfo"}, node_id : {info.node_id}, node_msg : {info.node_msg}]
  BY <1>1 DEF Assign, MergeNodeInfo, NewNodeInfo, Over
<1>3. info \in [type : {"NodeInfo"}, node_id : {info.node_id}, node_msg : {info.node_msg}]
  BY DEF NodeInfoMessage
<1>4. r = info
  BY <1>2, <1>3
<1> QED BY <1>1, <1>4

(* The rows printed are the node_infos, in their order, however many there *)
(* are.                                                                    *)
LEMMA RowsAreInfos ==
  ASSUME NEW s \in Seq(NodeInfoMessage)
  PROVE  Rows(s) = s
<1> DEFINE n == Len(s)
           Typ == Seq(NodeInfoMessage)
           F == [p \in Typ \X (1..n) |-> Append(p[1], s[p[2]])]
           Row(rows, info) ==
             Append(rows, Assign(IF rows = <<>> THEN NewNodeInfo ELSE Last(rows), info))
           Eq(g) == g = [T \in SUBSET DOMAIN s |->
                           IF T = {} THEN <<>> ELSE Row(g[T \ {Max(T)}], s[Max(T)])]
           iter == CHOOSE g : Eq(g)
<1>1. n \in Nat /\ DOMAIN s = 1..n /\ \A i \in 1..n : s[i] \in NodeInfoMessage
  BY ElementOfSeq
<1>2. Rows(s) = iter[DOMAIN s]
  BY DEF Rows, FoldLeft, MapThenFoldSet
<1> HIDE DEF n
<1>0. \A rows : \A i \in 1..n : Row(rows, s[i]) = Append(rows, s[i])
  BY <1>1, AssignIsCopy
<1> HIDE DEF Row
<1>3. <<>> \in Typ /\ F \in [Typ \X (1..n) -> Typ]
  <2>1. \A p \in Typ \X (1..n) : p[1] \in Typ /\ p[2] \in 1..n
    OBVIOUS
  <2>2. \A p \in Typ \X (1..n) : Append(p[1], s[p[2]]) \in Typ
    BY <1>1, <2>1, AppendProperties
  <2> QED BY <2>2
<1> HIDE DEF Typ
<1>4. Eq(iter)
  <2>1. PICK g \in [SUBSET (1..n) -> Typ] : FoldsBy(n, <<>>, F, g)
    <3> HIDE DEF F
    <3> QED BY <1>1, <1>3, SetRecursion
  <2>2. ASSUME NEW T \in SUBSET (1..n)
        PROVE  g[T] = IF T = {} THEN <<>> ELSE Row(g[T \ {Max(T)}], s[Max(T)])
    <3>1. CASE T = {}
      BY <2>1, <3>1 DEF FoldsBy
    <3>2. CASE T # {}
      <4>1. Max(T) \in 1..n /\ T \ {Max(T)} \in SUBSET (1..n)
        BY <1>1, <3>2, MaxOfRange
      <4>2. g[T] = F[<<g[T \ {Max(T)}], Max(T)>>] /\ g[T \ {Max(T)}] \in Typ
        BY <2>1, <3>2, <4>1 DEF FoldsBy
      <4>3. PICK m \in 1..n : m = Max(T)
        BY <4>1
      <4>4. PICK r \in Typ : r = g[T \ {m}]
        BY <4>2, <4>3
      <4>5. g[T] = Append(r, s[m])
        BY <4>2, <4>3, <4>4
      <4> QED BY <1>0, <3>2, <4>3, <4>4, <4>5
    <3> QED BY <3>1, <3>2
  <2>3. Eq(g)
    BY <1>1, <2>1, <2>2 DEF FoldsBy
  <2> HIDE DEF Eq
  <2> QED BY <2>3
<1>5. PICK h \in [0..n -> Typ] :
        /\ h[0] = <<>> /\ \A i \in 1..n : h[i] = F[<<h[i - 1], i>>]
        /\ FoldResult(n, Typ, <<>>, F, h[n])
  <2> HIDE DEF F
  <2> QED BY <1>1, <1>3, FoldChain
<1>6. iter[1..n] = h[n]
  <2> HIDE DEF iter
  <2>1. iter[{}] = <<>>
    BY <1>1, <1>4
  <2>2. ASSUME NEW T \in SUBSET (1..n), T # {}, iter[T \ {Max(T)}] \in Typ
        PROVE  iter[T] = F[<<iter[T \ {Max(T)}], Max(T)>>]
    <3>1. Max(T) \in 1..n
      BY <1>1, <2>2, MaxOfRange
    <3>2. iter[T] = Row(iter[T \ {Max(T)}], s[Max(T)])
      BY <1>1, <1>4, <2>2
    <3>3. PICK m \in 1..n : m = Max(T)
      BY <3>1
    <3>4. PICK r \in Typ : r = iter[T \ {m}]
      BY <2>2, <3>3
    <3>5. iter[T] = Append(r, s[m])
      BY <1>0, <3>2, <3>3, <3>4
    <3>6. F[<<r, m>>] = Append(r, s[m])
      BY <3>3, <3>4
    <3> QED BY <3>3, <3>4, <3>5, <3>6
  <2> QED BY <1>5, <2>1, <2>2 DEF FoldResult
<1>7. \A i \in 0..n : Len(h[i]) = i /\ \A j \in 1..i : h[i][j] = s[j]
  <2> DEFINE K == {i \in 0..n : Len(h[i]) = i /\ \A j \in 1..i : h[i][j] = s[j]}
  <2>1. 0 \in K
    BY <1>1, <1>5
  <2>2. ASSUME NEW i \in 1..n, i - 1 \in K PROVE i \in K
    <3>1. PICK t \in Typ : t = h[i - 1] /\ Len(t) = i - 1 /\ \A j \in 1..(i - 1) : t[j] = s[j]
      BY <1>5, <2>2
    <3>2. h[i] = Append(t, s[i])
      BY <1>5, <3>1
    <3>3. /\ Len(Append(t, s[i])) = Len(t) + 1
          /\ \A j \in 1..Len(t) : Append(t, s[i])[j] = t[j]
          /\ Append(t, s[i])[Len(t) + 1] = s[i]
      BY <1>1, <3>1, AppendProperties DEF Typ
    <3> QED BY <1>1, <3>1, <3>2, <3>3
  <2> HIDE DEF K
  <2>3. \A i \in 0..n : i \in K
    BY <1>1, <2>1, <2>2, FiniteInduction
  <2> QED BY <2>3 DEF K
<1>8. h[n] = s
  <2>1. h[n] \in Typ /\ Len(h[n]) = n /\ \A j \in 1..n : h[n][j] = s[j]
    BY <1>1, <1>5, <1>7
  <2> QED BY <2>1, SeqEqual DEF Typ, n
<1> QED BY <1>1, <1>2, <1>6, <1>8
-----------------------------------------------------------------------------
(* How the program was started and what it received never changes its      *)
(* type.                                                                   *)
Started ==
  /\ argv.node \in Int32 \cup {NotANumber}
  /\ file \in Seq(Text)
  /\ got \in Seq(Returns)

(* Keys and values of configMap are texts.                                 *)
MapTyped ==
  /\ DOMAIN configMap \subseteq Text
  /\ \A key \in DOMAIN configMap : configMap[key] \in Text

(* A port is only there after the whole file was read, and is the one      *)
(* configured unless a key is missing; the program aborts only on a value  *)
(* that stoi refuses.                                                      *)
PortRead ==
  /\ phase \in {"argv", "config"} => port = NoPort
  /\ port # NoPort => /\ line = Len(file)
                      /\ MissingKey(configMap) \/ port \in ListenPort(configMap)
  /\ phase = "aborted" => line = Len(file) /\ ~MissingKey(configMap) /\ InitThrows(configMap)

(* At most one Command is sent, the one made of the arguments.             *)
SentOnce == sent \in {<<>>, <<Command(argv)>>}

(* The seconds are counted from the connection on, and up to the limit.    *)
Counted ==
  /\ phase \in {"argv", "config", "connect"} => TimeOutCounter_ = 0
  /\ phase = "loop" => TimeOutCounter_ <= TimeOutLimit

(* A table is printed only for a Return that came.                         *)
Reported ==
  phase = "reported" => got # <<>> /\ RowsAreTheReturn

(* The inductive invariant: TypeOK with what the file, the port, the       *)
(* Command and the rows are at every point of the program.                 *)
CInv ==
  /\ line \in 0..Len(file)
  /\ port \in {NoPort} \cup 0..(UInt16 - 1)
  /\ connection \in {"null", "connected", "disconnected"}
  /\ TimeOutCounter_ \in 0..(TimeOutLimit + 1)
  /\ phase \in {"argv", "config", "connect", "loop"} \cup Ends
  /\ Started /\ MapTyped /\ MapRead /\ PortRead /\ SentOnce /\ Counted /\ Reported

(* The node_id that main sets fits an unsigned field: -1 becomes the       *)
(* largest one.                                                            *)
LEMMA CommandNode ==
  ASSUME Started
  PROVE  Command(argv).node_id \in UInt
<1>1. PICK n : n = (IF Atoi(argv.node) >= 0 THEN Atoi(argv.node) ELSE -1)
  OBVIOUS
<1>2. n \in Int
  <2>1. Atoi(argv.node) \in Int
    BY WordSize DEF Started, Atoi, Int32
  <2> QED BY <1>1, <2>1
<1>3. Command(argv).node_id = n % UInt32
  BY <1>1 DEF Command, NewCommand
<1> QED BY <1>2, <1>3, WordSize DEF UInt

(* Before main has looked at its arguments nothing was read, sent or       *)
(* received.                                                               *)
LEMMA InitCInv == Init => CInv
<1> SUFFICES ASSUME Init PROVE CInv
  OBVIOUS
<1>1. Started
  BY StartsAssumption DEF Init, Started
<1>2. Len(file) \in Nat
  BY <1>1 DEF Started
<1>3. MapTyped /\ MapRead
  BY DEF Init, MapTyped, MapRead
<1> QED BY <1>1, <1>2, <1>3, ConfigAssumption, CommandAssumption
        DEF Init, CInv, PortRead, SentOnce, Counted, Reported, NoPort, Ends

(* Reading one more line keeps configMap as the lines read so far mean it: *)
(* m[key] = value replaces the value of an earlier line.                   *)
LEMMA ReadLineCInv == CInv /\ ReadLine => CInv'
<1> SUFFICES ASSUME CInv, ReadLine PROVE CInv'
  OBVIOUS
<1>1. /\ line \in Nat /\ line < Len(file) /\ Len(file) \in Nat /\ line' = line + 1
      /\ file' = file /\ argv' = argv /\ got' = got /\ port' = port /\ phase' = phase
      /\ phase = "config" /\ port = NoPort
  BY DEF CInv, Started, PortRead, ReadLine
<1>2. PICK read : /\ read = AnalyseLine(file[line + 1])
                  /\ configMap' = EnterInto(configMap, read)
  BY DEF ReadLine
<1>3. file[line + 1] \in Text
  BY <1>1, ElementOfSeq DEF CInv, Started
<1>4. read = {} \/ \E k \in Text, v \in Text : read = {[key |-> k, value |-> v]}
  BY <1>2, <1>3, LineEntries
<1>5. /\ DOMAIN configMap' = DOMAIN configMap \cup {e.key : e \in read}
      /\ \A k \in DOMAIN configMap : (\A e \in read : e.key # k) => configMap'[k] = configMap[k]
      /\ \A e \in read : configMap'[e.key] = e.value
  <2>1. ASSUME NEW e \in read PROVE (CHOOSE d \in read : TRUE) = e
    <3>1. PICK k \in Text, v \in Text : read = {[key |-> k, value |-> v]}
      BY <1>4, <2>1
    <3>2. read = {e}
      BY <2>1, <3>1
    <3> QED BY <3>2
  <2> QED BY <1>2, <2>1 DEF EnterInto
<1>6. MapTyped'
  <2>1. \A e \in read : e.key \in Text /\ e.value \in Text
    BY <1>4
  <2> QED BY <1>5, <2>1 DEF CInv, MapTyped
<1>7. MapRead'
  <2> SUFFICES ASSUME NEW key \in ToSet(ConfigString)
               PROVE  /\ key \in DOMAIN configMap' <=> \E i \in 1..line' : Gives(i, key)'
                      /\ key \in DOMAIN configMap' => LastGiven(key)'
    BY DEF MapRead
  <2>1. {e \in read : e.key = key} = {e \in Meaning(file[line + 1]) : e.key = key}
    BY <1>2, <1>3, AnalysedAsMeant
  <2>2. Gives(line + 1, key) <=> \E e \in read : e.key = key
    BY <2>1 DEF Gives
  <2>3. \A i : Gives(i, key)' <=> Gives(i, key)
    BY <1>1 DEF Gives
  <2>4. /\ key \in DOMAIN configMap <=> \E i \in 1..line : Gives(i, key)
        /\ key \in DOMAIN configMap => LastGiven(key)
    BY DEF CInv, MapRead
  <2>5. \A i : i \in 1..line' <=> i \in 1..line \/ i = line + 1
    BY <1>1
  <2>6. CASE \E e \in read : e.key = key
    <3>1. PICK e \in read : e.key = key
      BY <2>6
    <3>2. key \in DOMAIN configMap' /\ configMap'[key] = e.value
      BY <1>5, <3>1
    <3>3. [key |-> key, value |-> configMap'[key]] = e
      BY <1>4, <3>1, <3>2
    <3>4. e \in Meaning(file'[line'])
      BY <1>1, <2>1, <3>1
    <3>5. line' \in 1..line' /\ (line' + 1)..line' = {}
      BY <1>1
    <3>6. LastGiven(key)'
      BY <3>3, <3>4, <3>5 DEF LastGiven
    <3> QED BY <1>1, <2>2, <2>3, <2>5, <2>6, <3>2, <3>6
  <2>7. CASE ~\E e \in read : e.key = key
    <3>1. key \in DOMAIN configMap' <=> key \in DOMAIN configMap
      BY <1>5, <2>7
    <3>2. (\E i \in 1..line' : Gives(i, key)') <=> (\E i \in 1..line : Gives(i, key))
      BY <2>2, <2>3, <2>5, <2>7
    <3>3. ASSUME key \in DOMAIN configMap PROVE LastGiven(key)'
      <4>1. PICK i \in 1..line : /\ [key |-> key, value |-> configMap[key]] \in Meaning(file[i])
                                 /\ \A j \in (i + 1)..line : ~Gives(j, key)
        BY <2>4, <3>3 DEF LastGiven
      <4>2. configMap'[key] = configMap[key]
        BY <1>5, <2>7, <3>3
      <4>3. \A j \in (i + 1)..line' : ~Gives(j, key)'
        <5>1. \A j \in (i + 1)..line' : j \in (i + 1)..line \/ j = line + 1
          BY <1>1
        <5> QED BY <2>2, <2>3, <2>7, <4>1, <5>1
      <4>4. i \in 1..line'
        BY <2>5
      <4> QED BY <1>1, <4>1, <4>2, <4>3, <4>4 DEF LastGiven
    <3> QED BY <2>4, <3>1, <3>2, <3>3
  <2> QED BY <2>6, <2>7
<1>8. line' \in 0..Len(file')
  BY <1>1
<1> QED BY <1>1, <1>6, <1>7, <1>8
        DEF CInv, ReadLine, Started, PortRead, SentOnce, Counted, Reported, RowsAreTheReturn
(* The listen port is stored in a uint16_t.                                *)
LEMMA PortFits ==
  ASSUME MapTyped, ~MissingKey(configMap)
  PROVE  ListenPort(configMap) \subseteq 0..(UInt16 - 1)
<1>1. configMap[ConfigString[1]] \in Text
  <2>1. ConfigString \in Seq(Text) /\ 1 \in DOMAIN ConfigString
    BY KeysAssumption, EmptySeq
  <2> QED BY <2>1 DEF MapTyped, MissingKey
<1>2. Stoi[configMap[ConfigString[1]]] \subseteq Int
  BY <1>1, StoiNumber
<1>3. \A n \in Int : n % UInt16 \in 0..(UInt16 - 1)
  BY ConfigAssumption
<1> QED BY <1>2, <1>3 DEF ListenPort

(* lkpConfigInit gives a port, throws, or leaves any port at all in the    *)
(* struct.                                                                 *)
LEMMA ConfigInitCInv == CInv /\ ConfigInit => CInv'
<1> SUFFICES ASSUME CInv, ConfigInit PROVE CInv'
  OBVIOUS
<1>1. /\ line = Len(file) /\ phase = "config" /\ port = NoPort
      /\ UNCHANGED <<argv, file, line, configMap, connection, TimeOutCounter_, sent, got, printed>>
  BY DEF CInv, PortRead, ConfigInit
<1>2. \/ MissingKey(configMap) /\ port' \in AnyPort /\ phase' = "connect"
      \/ /\ ~MissingKey(configMap) /\ InitThrows(configMap)
         /\ phase' = "aborted" /\ port' = port
      \/ /\ ~MissingKey(configMap) /\ port' \in ListenPort(configMap) /\ phase' = "connect"
  BY DEF ConfigInit
<1>3. port' \in {NoPort} \cup 0..(UInt16 - 1) /\ phase' \in {"aborted", "connect"}
  BY <1>1, <1>2, PortFits, CommandAssumption DEF CInv
<1>4. PortRead'
  <2>1. (MissingKey(configMap))' = MissingKey(configMap)
        /\ (InitThrows(configMap))' = InitThrows(configMap)
        /\ (ListenPort(configMap))' = ListenPort(configMap)
    BY <1>1 DEF MissingKey, InitThrows, ListenPort
  <2> QED BY <1>1, <1>2, <2>1 DEF PortRead
<1>5. Started' /\ MapTyped' /\ MapRead' /\ SentOnce'
  BY <1>1 DEF CInv, Started, MapTyped, MapRead, Gives, LastGiven, SentOnce
<1>6. Counted' /\ Reported'
  BY <1>1, <1>3 DEF CInv, Counted, Reported
<1> QED BY <1>1, <1>3, <1>4, <1>5, <1>6 DEF CInv, Ends

(* What no step after lkpConfigInit changes.                               *)
UnreadVars == <<argv, file, line, configMap, port>>

(* A step that leaves the arguments, the file and the port alone keeps     *)
(* what is said of them.                                                   *)
LEMMA SameFile ==
  ASSUME CInv, UNCHANGED UnreadVars, got' = got, phase' # "aborted",
         phase' \notin {"argv", "config"}
  PROVE  Started' /\ MapTyped' /\ MapRead' /\ PortRead' /\ line' \in 0..Len(file')
         /\ port' \in {NoPort} \cup 0..(UInt16 - 1)
<1>1. (MissingKey(configMap))' = MissingKey(configMap)
      /\ (ListenPort(configMap))' = ListenPort(configMap)
  BY DEF MissingKey, ListenPort, UnreadVars
<1> QED BY <1>1 DEF CInv, Started, MapTyped, MapRead, Gives, LastGiven, PortRead, UnreadVars

(* The name of a command number; there are five commands.                  *)
LEMMA EnumNames ==
  ASSUME NEW k \in Int
  PROVE  lkpEnumToCmds(k) = IF k \in 0..4 THEN {lkpCommands[k + 1]} ELSE {}
<1>1. Len(lkpCommands) - 1 = 4
  BY DEF lkpCommands
<1>2. lkpEnumToCmds(k) = {lkpCommands[j + 1] : j \in {k} \cap 0..4}
  BY <1>1 DEF lkpEnumToCmds
<1>3. {k} \cap 0..4 = IF k \in 0..4 THEN {k} ELSE {}
  OBVIOUS
<1> QED BY <1>2, <1>3

(* onReturnMsg prints the first client_num rows for LIST and all rows      *)
(* otherwise (lkpCommand.cc:153-210).                                      *)
LEMMA ReturnedRows ==
  ASSUME NEW message \in ReturnMessage, CInv, onReturnMsg(message), phase' = "reported"
  PROVE  printed' = SubSeq(message.node_info, 1,
                           IF message.command = 4 THEN message.client_num
                           ELSE Len(message.node_info))
<1>1. PICK infos \in Seq(NodeInfoMessage), num \in Nat, command \in Nat :
        infos = message.node_info /\ num = message.client_num /\ command = message.command
  BY WordSize DEF ReturnMessage, UInt
<1>2. lkpEnumToCmds(command) = {"LIST"} <=> command = 4
  <2>1. lkpCommands[5] = "LIST" /\ \A k \in 0..3 : lkpCommands[k + 1] # "LIST"
    BY DEF lkpCommands
  <2>2. lkpEnumToCmds(command) = IF command \in 0..4 THEN {lkpCommands[command + 1]} ELSE {}
    BY EnumNames
  <2>3. command \in 0..4 => command \in 0..3 \/ command = 4
    OBVIOUS
  <2> QED BY <2>1, <2>2, <2>3, SMTT(30)
<1>3. Len(infos) \in Nat /\ SubSeq(infos, 1, Len(infos)) = infos
  BY SubSeqFull
<1>4. phase # "reported" /\ (command = 4 => num <= Len(infos))
  BY <1>1, <1>2 DEF onReturnMsg
<1>5. printed' = Rows(IF command = 4 THEN SubSeq(infos, 1, num) ELSE infos)
  BY <1>1, <1>2, <1>4 DEF onReturnMsg
<1>6. num <= Len(infos) => SubSeq(infos, 1, num) \in Seq(NodeInfoMessage)
  <2> SUFFICES ASSUME num <= Len(infos) PROVE SubSeq(infos, 1, num) \in Seq(NodeInfoMessage)
    OBVIOUS
  <2>1. \A i \in 1..num : infos[i] \in NodeInfoMessage
    BY <1>3, ElementOfSeq
  <2> QED BY <2>1, SubSeqProperties
<1> QED BY <1>1, <1>3, <1>4, <1>5, <1>6, RowsAreInfos

(* Every step of the program keeps the invariant.                          *)
LEMMA NextCInv == CInv /\ [Next]_vars => CInv'
<1> SUFFICES ASSUME CInv, [Next]_vars PROVE CInv'
  OBVIOUS
<1>1. CASE ParseArgv
  <2>1. /\ UNCHANGED <<argv, file, line, configMap, port, connection, TimeOutCounter_, sent, got,
                       printed>>
        /\ phase = "argv" /\ phase' \in {"usage", "config", "no_file"} /\ port = NoPort
    BY <1>1 DEF CInv, PortRead, ParseArgv
  <2>2. PortRead'
    BY <2>1 DEF PortRead
  <2>3. Started' /\ MapTyped' /\ MapRead' /\ SentOnce'
    BY <2>1 DEF CInv, Started, MapTyped, MapRead, Gives, LastGiven, SentOnce
  <2> QED BY <2>1, <2>2, <2>3 DEF CInv, Counted, Reported, Ends
<1>2. CASE ReadLine
  BY <1>2, ReadLineCInv
<1>3. CASE ConfigInit
  BY <1>3, ConfigInitCInv
<1>4. CASE Connect
  <2>1. UNCHANGED UnreadVars /\ got' = got /\ phase = "connect" /\ phase' = "loop"
    BY <1>4 DEF Connect, UnreadVars
  <2>2. /\ Started' /\ MapTyped' /\ MapRead' /\ PortRead' /\ line' \in 0..Len(file')
        /\ port' \in {NoPort} \cup 0..(UInt16 - 1)
    BY <2>1, SameFile
  <2>3. Counted' /\ SentOnce'
    BY <1>4, CommandAssumption DEF CInv, Connect, Counted, SentOnce
  <2> QED BY <1>4, <2>1, <2>2, <2>3 DEF CInv, Connect, Reported, Ends
<1>5. CASE Connected
  <2>1. UNCHANGED UnreadVars /\ got' = got /\ phase = "loop" /\ phase' = "loop"
    BY <1>5 DEF Connected, UnreadVars
  <2>2. /\ Started' /\ MapTyped' /\ MapRead' /\ PortRead' /\ line' \in 0..Len(file')
        /\ port' \in {NoPort} \cup 0..(UInt16 - 1)
    BY <2>1, SameFile
  <2>3. Counted' /\ SentOnce' /\ TimeOutCounter_' \in 0..(TimeOutLimit + 1)
    <3>1. sent' = <<Command(argv)>>
      BY <1>5 DEF Connected
    <3> QED BY <1>5, <3>1, CommandAssumption DEF Connected, Counted, SentOnce
  <2> QED BY <1>5, <2>1, <2>2, <2>3 DEF CInv, Connected, Reported, Ends
<1>6. CASE Disconnected
  <2>1. UNCHANGED UnreadVars /\ got' = got /\ phase = "loop" /\ phase' = "loop"
    BY <1>6 DEF Disconnected, UnreadVars
  <2>2. /\ Started' /\ MapTyped' /\ MapRead' /\ PortRead' /\ line' \in 0..Len(file')
        /\ port' \in {NoPort} \cup 0..(UInt16 - 1)
    BY <2>1, SameFile
  <2> QED BY <1>6, <2>1, <2>2 DEF CInv, Disconnected, Reported, Ends, Counted, SentOnce
<1>7. CASE onTimer
  <2>1. UNCHANGED UnreadVars /\ got' = got /\ phase = "loop"
        /\ phase' \in {"loop", "unreachable", "timeout"}
        /\ UNCHANGED <<connection, sent, printed>>
    BY <1>7 DEF onTimer, UnreadVars
  <2>2. /\ Started' /\ MapTyped' /\ MapRead' /\ PortRead' /\ line' \in 0..Len(file')
        /\ port' \in {NoPort} \cup 0..(UInt16 - 1)
    BY <2>1, SameFile
  <2>3. /\ TimeOutCounter_' \in 0..(TimeOutLimit + 1)
        /\ phase' = "loop" => TimeOutCounter_' <= TimeOutLimit
    BY <1>7, CommandAssumption DEF onTimer, CInv, Counted
  <2> QED BY <2>1, <2>2, <2>3 DEF CInv, Reported, Ends, Counted, SentOnce, UnreadVars
<1>8. ASSUME NEW message \in Returns, onReturnMsg(message) PROVE CInv'
  <2>1. UNCHANGED UnreadVars /\ got' = Append(got, message) /\ phase = "loop"
        /\ phase' \in {"loop", "crashed", "reported"} /\ TimeOutCounter_' = 0
        /\ UNCHANGED <<connection, sent>>
    BY <1>8 DEF onReturnMsg, UnreadVars
  <2>2. message \in ReturnMessage
    BY CommandAssumption
  <2>3. /\ got' \in Seq(Returns) /\ got' # <<>> /\ Last(got') = message
    <3>1. got \in Seq(Returns)
      BY DEF CInv, Started
    <3>2. Len(got') = Len(got) + 1 /\ got'[Len(got) + 1] = message /\ got' \in Seq(Returns)
      BY <2>1, <3>1, AppendProperties
    <3> QED BY <3>1, <3>2 DEF Last
  <2>4. (MissingKey(configMap))' = MissingKey(configMap)
        /\ (ListenPort(configMap))' = ListenPort(configMap)
    BY <2>1 DEF MissingKey, ListenPort, UnreadVars
  <2>5. Started' /\ MapTyped' /\ MapRead' /\ PortRead' /\ SentOnce'
    BY <2>1, <2>3, <2>4 DEF CInv, Started, MapTyped, MapRead, Gives, LastGiven, PortRead, SentOnce,
                            UnreadVars
  <2>6. Reported'
    <3>1. ASSUME phase' = "reported"
          PROVE  printed' = SubSeq(message.node_info, 1,
                                   IF message.command = 4 THEN message.client_num
                                   ELSE Len(message.node_info))
      BY <1>8, <2>2, <3>1, ReturnedRows
    <3> QED BY <2>3, <3>1 DEF Reported, RowsAreTheReturn
  <2> QED BY <2>1, <2>5, <2>6, CommandAssumption DEF CInv, Ends, Counted, UnreadVars
<1>9. CASE UNCHANGED vars
  <2>1. (MissingKey(configMap))' = MissingKey(configMap)
        /\ (InitThrows(configMap))' = InitThrows(configMap)
        /\ (ListenPort(configMap))' = ListenPort(configMap)
    BY <1>9 DEF MissingKey, InitThrows, ListenPort, vars
  <2> QED BY <1>9, <2>1 DEF vars, CInv, Started, MapTyped, MapRead, Gives, LastGiven, PortRead,
                            SentOnce, Counted, Reported, RowsAreTheReturn
<1> QED BY <1>1, <1>2, <1>3, <1>4, <1>5, <1>6, <1>7, <1>8, <1>9 DEF Next

(* CInv holds in every state of the program, whatever it is started with   *)
(* and whatever the server does.                                           *)
THEOREM CommandInvariant == Spec => []CInv
<1> QED BY InitCInv, NextCInv, PTL DEF Spec
-----------------------------------------------------------------------------
(* The types of the command line program, for any start and any Returns.   *)
THEOREM CommandTypeOK == Spec => []TypeOK
<1>1. CInv => TypeOK
  <2> SUFFICES ASSUME CInv PROVE TypeOK
    OBVIOUS
  <2>1. Command(argv).node_id \in UInt
    BY CommandNode DEF CInv
  <2>2. sent = <<>> \/ sent = <<Command(argv)>>
    BY DEF CInv, SentOnce
  <2>3. \A i \in 1..Len(sent) : sent[i].node_id \in 0..(UInt32 - 1)
    BY <2>1, <2>2 DEF UInt
  <2> QED BY <2>3 DEF CInv, TypeOK
<1> QED BY <1>1, CommandInvariant, PTL

(* For any configuration file, however long and whatever its lines look    *)
(* like, the program connects to the port that the file names and aborts   *)
(* only on a value that is no number, as long as no key is missing         *)
(* (lkpHelper.cc:214-240, 25-46).                                          *)
THEOREM CommandConfiguredPort == Spec => []ConfiguredPort
<1>1. CInv => ConfiguredPort
  BY ConfiguredAsMeant DEF CInv, Started, PortRead, ConfiguredPort
<1> QED BY <1>1, CommandInvariant, PTL

(* The Command sent is the one asked for, or UPDATE for a word that is no  *)
(* command; a node of -1 or less becomes a broadcast                       *)
(* (lkpCommand.cc:223-262).                                                *)
THEOREM CommandSentAsAsked == Spec => []SentAsAsked
<1>1. CInv => SentAsAsked
  <2> SUFFICES ASSUME CInv, NEW i \in 1..Len(sent)
               PROVE  /\ lkpEnumToCmds(sent[i].command) =
                           IF argv.word \in ToSet(lkpCommands) THEN {argv.word} ELSE {"UPDATE"}
                      /\ argv.node # NotANumber =>
                           IF argv.node >= 0
                             THEN ~sent[i].send_to_all /\ sent[i].node_id = argv.node
                             ELSE sent[i].send_to_all
    BY DEF SentAsAsked
  <2>1. sent[i] = Command(argv)
    BY DEF CInv, SentOnce
  <2>2. PICK c : c = Command(argv).command
    OBVIOUS
  <2>3. lkpEnumToCmds(c) = IF argv.word \in ToSet(lkpCommands) THEN {argv.word} ELSE {"UPDATE"}
    <3>1. c = IF lkpCmdsToEnum(argv.word) = {} THEN 0
              ELSE CHOOSE e \in lkpCmdsToEnum(argv.word) : TRUE
      BY <2>2 DEF Command, NewCommand
    <3>2. ToSet(lkpCommands) = {"UPDATE", "RUN", "RESULT", "PUSH", "LIST"}
      BY DEF ToSet, lkpCommands
    <3>3. CASE argv.word \notin ToSet(lkpCommands)
      <4>1. lkpCmdsToEnum(argv.word) = {}
        BY <3>2, <3>3 DEF lkpCmdsToEnum, lkpCommands
      <4> QED BY <3>1, <3>3, <4>1 DEF lkpEnumToCmds, lkpCommands
    <3>4. CASE argv.word \in ToSet(lkpCommands)
      <4>1. PICK k \in 0..4 : argv.word = lkpCommands[k + 1]
        BY <3>2, <3>4 DEF lkpCommands
      <4>2. lkpCmdsToEnum(argv.word) = {k}
        BY <4>1 DEF lkpCmdsToEnum, lkpCommands
      <4>3. c = k
        BY <3>1, <4>2
      <4>4. lkpEnumToCmds(k) = {lkpCommands[k + 1]}
        BY EnumNames
      <4> QED BY <3>4, <4>1, <4>3, <4>4
    <3> QED BY <3>3, <3>4
  <2>4. ASSUME argv.node # NotANumber
        PROVE  IF argv.node >= 0 THEN /\ ~Command(argv).send_to_all
                                      /\ Command(argv).node_id = argv.node
                                 ELSE Command(argv).send_to_all
    <3>1. argv.node \in Int32 /\ Atoi(argv.node) = argv.node
      BY <2>4 DEF CInv, Started, Atoi
    <3>2. Command(argv).send_to_all = (argv.node < 0)
      BY <3>1 DEF Command, NewCommand
    <3>3. argv.node >= 0 => Command(argv).node_id = argv.node % UInt32
      BY <3>1 DEF Command, NewCommand
    <3>4. argv.node >= 0 => argv.node \in 0..(UInt32 - 1)
      BY <3>1, WordSize DEF Int32
    <3>5. PICK n \in Int : n = argv.node
      BY <3>1, WordSize DEF Int32
    <3>6. n >= 0 => n % UInt32 = n
      BY <3>4, <3>5, WordSize
    <3>7. CASE n >= 0
      <4>1. Command(argv).send_to_all = FALSE
        <5>1. (argv.node < 0) = FALSE
          BY <3>5, <3>7
        <5> QED BY <3>2, <5>1
      <4> QED BY <3>3, <3>5, <3>6, <3>7, <4>1
    <3>8. CASE ~(n >= 0)
      <4>1. Command(argv).send_to_all = TRUE
        <5>1. (argv.node < 0) = TRUE
          BY <3>5, <3>8
        <5> QED BY <3>2, <5>1
      <4> QED BY <3>5, <3>8, <4>1
    <3> QED BY <3>7, <3>8
  <2> QED BY <2>1, <2>2, <2>3, <2>4
<1> QED BY <1>1, CommandInvariant, PTL

(* The table printed is the table in the Return, for Returns of any        *)
(* length: no row shows a value of another (lkpCommand.cc:178-184).        *)
THEOREM CommandRowsAreTheReturn == Spec => []RowsAreTheReturn
<1>1. CInv => RowsAreTheReturn
  BY DEF CInv, Reported, RowsAreTheReturn
<1> QED BY <1>1, CommandInvariant, PTL
=============================================================================
