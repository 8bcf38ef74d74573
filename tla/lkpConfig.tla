------------------------------- MODULE lkpConfig -------------------------------
(***************************************************************************)
(* Reading lkp-extent.config: Trim and AnalyseLine for one line, ReadConfig *)
(* for the file, lkpConfigInit for the fields of lkpConfig.                *)
(*                                                                         *)
(* A line is a sequence of characters, because what AnalyseLine finds in   *)
(* it depends on where they are.  Positions count from 0 as in the code,   *)
(* and -1 stands for npos.                                                 *)
(***************************************************************************)
EXTENDS Integers, SequencesExt

CONSTANTS
  ConfigString,  \* the keys that must be present, the listen port first
  Numeric,       \* those of them whose value goes through stoi
  DigitValue,    \* the digits and their values
  UInt16,        \* 2^16: what is stored is modulo it
  IntLimit       \* 2^31: stoi throws for what is no int

Text == Seq(STRING)   \* of characters

ASSUME ConfigAssumption ==
  /\ Numeric \subseteq ToSet(ConfigString)
  /\ DigitValue \in [DOMAIN DigitValue -> Nat]
  /\ UInt16 \in Nat \ {0}
  /\ IntLimit \in Nat

(* A key has more than one character, and none of them is #.               *)
ASSUME KeysAssumption ==
  /\ ConfigString \in Seq(Text) \ {<<>>}
  /\ \A key \in ToSet(ConfigString) : Len(key) > 1 /\ "#" \notin ToSet(key)

IsSpace(c) == c = " "

(* string::find and string::substr; a negative count is a huge size_t.     *)
Find(s, c) ==
  IF \E i \in 1..Len(s) : s[i] = c
    THEN (CHOOSE i \in 1..Len(s) : s[i] = c /\ \A j \in 1..(i - 1) : s[j] # c) - 1
    ELSE -1

Substr(s, pos, count) ==
  SubSeq(s, pos + 1, IF count < 0 \/ pos + count > Len(s) THEN Len(s) ELSE pos + count)

Trim[s \in Text] ==
  LET kept == {i \in 1..Len(s) : ~IsSpace(s[i])}
  IN  IF kept = {} THEN <<>> ELSE SubSeq(s, Min(kept), Max(kept))

(* Mutant: the value begins with the = sign.                               *)
AnalyseLineFromSign(line) ==
  LET comment == Find(line, "#")
      end_pos == IF comment = -1 THEN Len(line) - 1 ELSE comment - 1
      new_line == Substr(line, 0, 1 - end_pos)
      pos == Find(new_line, "=")
      key == Trim[Substr(new_line, 0, pos)]
      value == Trim[Substr(new_line, pos, end_pos + 1 - pos)]
  IN  IF line = <<>> \/ comment = 0 \/ pos = -1 \/ key = <<>>
        THEN {} ELSE {[key |-> key, value |-> value]}

(* The key and the value of a line, if it has them.  The comment is meant  *)
(* to be cut off with a count of start_pos + 1 - end_pos, that is          *)
(* 1 - end_pos: everything is kept when that is negative, nothing when it  *)
(* is 0, one character when the line has only one.                         *)
AnalyseLine(line) ==
  LET comment == Find(line, "#")
      end_pos == IF comment = -1 THEN Len(line) - 1 ELSE comment - 1
      new_line == Substr(line, 0, 1 - end_pos)
      pos == Find(new_line, "=")
      key == Trim[Substr(new_line, 0, pos)]
      value == Trim[Substr(new_line, pos + 1, end_pos + 1 - (pos + 1))]
  IN  IF line = <<>> \/ comment = 0 \/ pos = -1 \/ key = <<>>
        THEN {} ELSE {[key |-> key, value |-> value]}

(* Mutant: map::insert, which keeps the first value of a key.              *)
EnterIntoOnce(m, read) ==
  [k \in DOMAIN m \cup {e.key : e \in read} |->
     IF k \in DOMAIN m THEN m[k] ELSE (CHOOSE e \in read : TRUE).value]

(* m[key] = value for a line that has both.                                *)
EnterInto(m, read) ==
  [k \in DOMAIN m \cup {e.key : e \in read} |->
     IF \E e \in read : e.key = k THEN (CHOOSE e \in read : TRUE).value ELSE m[k]]

(* stoi: the number that the text begins with, after a sign if there is    *)
(* one.  It throws when there is no number and when it is no int.          *)
Stoi[s \in Text] ==
  LET IsDigit(c) == c \in DOMAIN DigitValue
      signed == s # <<>> /\ Head(s) \in {"+", "-"}
      rest == IF signed THEN Tail(s) ELSE s
      prefix == SelectInSeq(rest, LAMBDA c : ~IsDigit(c))
      digits == IF prefix = 0 THEN rest ELSE SubSeq(rest, 1, prefix - 1)
      value == FoldLeft(LAMBDA n, c : 10 * n + DigitValue[c], 0, digits)
      number == IF signed /\ Head(s) = "-" THEN -value ELSE value
  IN  IF digits = <<>> THEN {} ELSE {number} \cap (-IntLimit)..(IntLimit - 1)

MissingKey(m) == \E i \in 1..Len(ConfigString) : ConfigString[i] \notin DOMAIN m

(* lkpConfigInit with every key there: stoi throws for a value that is no  *)
(* number or too large a one, and nothing catches it.                      *)
InitThrows(m) == \E key \in Numeric : Stoi[m[key]] = {}

(* Mutant: the port is stored in an int.                                   *)
ListenPortAsInt(m) == Stoi[m[ConfigString[1]]]

ListenPort(m) == {n % UInt16 : n \in Stoi[m[ConfigString[1]]]}
-----------------------------------------------------------------------------
(* How lkp-extent.config is meant to be read (its own comments, and those  *)
(* at lkpHelper.cc:226-229): everything from # on is a comment; the text   *)
(* before the first = is the key and the rest the value, both without the  *)
(* blanks around them.                                                     *)
Meaning(line) ==
  LET comment == Find(line, "#")
      text == IF comment = -1 THEN line ELSE SubSeq(line, 1, comment)
      pos == Find(text, "=")
      key == Trim[SubSeq(text, 1, pos)]
  IN  IF pos = -1 \/ key = <<>> THEN {}
      ELSE {[key |-> key, value |-> Trim[SubSeq(text, pos + 2, Len(text))]]}

MeantKeys(file) == UNION {{e.key : e \in Meaning(file[i])} : i \in 1..Len(file)}

(* The last line that gives a key counts.                                  *)
MeantMap(file) ==
  [key \in MeantKeys(file) |->
     LET lines == {i \in 1..Len(file) : \E e \in Meaning(file[i]) : e.key = key}
     IN  (CHOOSE e \in Meaning(file[Max(lines)]) : TRUE).value]
=============================================================================
