--------------------------- MODULE lkpTransfer_proofs ---------------------------
(***************************************************************************)
(* Files that travel between the server and a node: a transfer that        *)
(* nothing disturbs finds its FILE open at the other side, and what is     *)
(* found complete there is the file that was sent; for any files and       *)
(* chunks, any number of commands, pushes and heartbeats.                  *)
(***************************************************************************)
EXTENDS lkpClient, TLAPS

Chunk == [file : File, no : Nat, cut : BOOLEAN]
FirstMsg == [type : {"File"}, first : {TRUE}, size : Nat, block : Chunk]
NextMsg == [type : {"File"}, first : {FALSE}, block : Chunk]
CommandMsgs == [type : {"Command"}, kind : Kinds]
Plain == CommandMsgs \cup [type : {"ACK", "PushACK"}, status : BOOLEAN] \cup [type : {"HeartBeat"}]
Msg == Plain \cup FirstMsg \cup NextMsg \cup [type : {"END"}]
Functor == CommandMsgs \cup FirstMsg \cup [type : {"write_complete"}]
Pusher ==
  [at : {"idle"}] \cup [at : {"opened"}, file : Testcase]
    \cup [at : {"read", "set"}, file : Testcase, chunk : Nat]

TransferTypeOK ==
  /\ ownLoop \in BOOLEAN
  /\ reader \in [End -> {NoFile} \cup [file : File, at : Nat \ {0}]]
  /\ callback \in [End -> BOOLEAN]
  /\ functors \in [End -> Seq(Functor)]
  /\ wire \in [End -> Seq(Msg)]
  /\ unsent \in [End -> Nat]
  /\ recv \in [End -> [fp : {"none", "open", "closed"}, size : Nat, got : Seq(Chunk)]]
  /\ pusher \in Pusher
  /\ fault \in End \cup {"none"}
  /\ disturbed \in [End -> BOOLEAN]
  /\ failures \in Nat
-----------------------------------------------------------------------------
(* A message that is received only while a FILE is open.                   *)
NeedsOpen(m) == m.type = "END" \/ (m.type = "File" /\ ~m.first)

(* The receiver, whose FILE is open or not, will have it open when it      *)
(* comes to the i-th message of w.                                         *)
OpenAt(w, open, i) ==
  \/ open /\ \A k \in 1..(i - 1) : w[k].type # "END"
  \/ \E j \in 1..(i - 1) : w[j].type = "File" /\ \A k \in (j + 1)..(i - 1) : w[k].type # "END"

Orderly(w, open) == \A i \in 1..Len(w) : NeedsOpen(w[i]) => OpenAt(w, open, i)
OpenAtEnd(w, open) == OpenAt(w, open, Len(w) + 1)

(* b is the last chunk before the i-th message of w, if those in got have  *)
(* been received.                                                          *)
IsLast(b, w, got, i) ==
  \/ got # <<>> /\ b = got[Len(got)] /\ \A k \in 1..(i - 1) : w[k].type # "File"
  \/ \E j \in 1..(i - 1) :
       w[j].type = "File" /\ w[j].block = b /\ \A k \in (j + 1)..(i - 1) : w[k].type # "File"

After(b) == Content(b.file, b.no + 1)

(* Each chunk is the first of a file, or the one after the last.           *)
Chained(m, w, got, i) ==
  IF m.first THEN \E f \in File : m.block = Content(f, 1) /\ m.size = Chunks[f]
             ELSE \E b \in Chunk : IsLast(b, w, got, i) /\ m.block = After(b)

Chain(w, got) == \A i \in 1..Len(w) : w[i].type = "File" => Chained(w[i], w, got, i)
-----------------------------------------------------------------------------
Open(e) == recv[Peer(e)].fp = "open"

(* What e has still to do for the transfer under way, when nothing         *)
(* disturbs it: nothing; the callback waits for the output buffer; it is   *)
(* queued; the first chunk is queued.                                      *)
Resting(e) == ~callback[e] /\ \A i \in 1..Len(functors[e]) : functors[e][i] \in CommandMsgs
Buffered(e) == callback[e] /\ functors[e] = <<>> /\ unsent[e] > 0
Queued(e) == callback[e] /\ functors[e] = <<Complete>> /\ unsent[e] = 0
Posted(e) ==
  /\ e = "server" /\ ~ownLoop /\ callback[e] /\ unsent[e] = 0
  /\ \E f \in Testcase :
       functors[e] = <<First(f, Content(f, 1))>> /\ reader[e] = [file |-> f, at |-> 2]

(* pushToClient in another loop.                                           *)
Pushing(e) == e = "server" /\ pusher.at # "idle"

PushIsAlone ==
  /\ callback["server"] <=> pusher.at = "set"
  /\ functors["server"] = <<>> /\ unsent["server"] = 0
  /\ pusher.at = "opened" => reader["server"] = [file |-> pusher.file, at |-> 1]
  /\ pusher.at \in {"read", "set"} =>
       reader["server"] = [file |-> pusher.file, at |-> 2] /\ pusher.chunk = 1

Undisturbed(e) ==
  ~disturbed[e] =>
    /\ Pushing(e) \/ Resting(e) \/ Buffered(e) \/ Queued(e) \/ Posted(e)
    /\ Pushing(e) => PushIsAlone

(* The other side has its FILE open for what it gets, and will have it     *)
(* open when the callback comes.                                           *)
InOrder(e) ==
  ~disturbed[e] /\ failures = 0 /\ fault = "none" =>
    /\ Orderly(wire[e], Open(e))
    /\ Buffered(e) \/ Queued(e) => OpenAtEnd(wire[e], Open(e))

(* In the connection's own loop only the callback is ever queued, and it   *)
(* has a FILE.                                                             *)
Queue(e) ==
  /\ e = "client" \/ ownLoop =>
       ~Pushing(e) /\ \A i \in 1..Len(functors[e]) : functors[e][i] = Complete
  /\ UnderWay(e) \/ Pushing(e) => reader[e] # NoFile

Reliable(e) == failures = 0 /\ (ownLoop \/ ~disturbed[e])

(* What was received is the beginning of a file.                           *)
GotFile(r) ==
  /\ r.got # <<>>
  /\ r.size = Chunks[r.got[1].file]
  /\ \A i \in 1..Len(r.got) : r.got[i] = Content(r.got[1].file, i)

(* What is read next comes after the last chunk that was sent.             *)
ReadsOn(e) ==
  reader[e] = NoFile \/ Pushing(e) \/ Posted(e) \/
    \E b \in Chunk : /\ IsLast(b, wire[e], recv[Peer(e)].got, Len(wire[e]) + 1)
                      /\ reader[e] = [file |-> b.file, at |-> b.no + 1]

InSequence(e) ==
  Reliable(e) =>
    /\ recv[Peer(e)].fp # "none" => GotFile(recv[Peer(e)])
    /\ fault = "none" =>
         /\ recv[Peer(e)].fp = "none" => recv[Peer(e)].got = <<>>
         /\ Chain(wire[e], recv[Peer(e)].got)
         /\ ReadsOn(e)

EndInv(e) == Undisturbed(e) /\ InOrder(e) /\ InSequence(e) /\ Queue(e)

TInv == TransferTypeOK /\ FilesOpenWhenUsed /\ \A e \in End : EndInv(e)
-----------------------------------------------------------------------------
(* Another message at the end of w changes nothing for those before it.    *)
LEMMA OpenAppend ==
  ASSUME NEW S, NEW w \in Seq(S), NEW m \in S, NEW open, NEW i \in 1..(Len(w) + 1)
  PROVE  OpenAt(Append(w, m), open, i) <=> OpenAt(w, open, i)
<1>1. \A k \in 1..(i - 1) : Append(w, m)[k] = w[k]
  OBVIOUS
<1>2. \A j \in 1..(i - 1) : \A k \in (j + 1)..(i - 1) : Append(w, m)[k] = w[k]
  BY <1>1
<1>. QED BY <1>1, <1>2 DEF OpenAt

(* The FILE is open behind a chunk, and stays open but for END.            *)
LEMMA OpenAppendEnd ==
  ASSUME NEW S, NEW w \in Seq(S), NEW m \in S, NEW open,
         m.type = "File" \/ (m.type # "END" /\ OpenAtEnd(w, open))
  PROVE  OpenAtEnd(Append(w, m), open)
<1> DEFINE a == Append(w, m)
           n == Len(w) + 1
<1>1. /\ Len(a) = n /\ a[n] = m /\ n \in Nat \ {0}
      /\ \A k \in 1..(n - 1) : a[k] = w[k]
  OBVIOUS
<1> HIDE DEF a
<1>2. CASE m.type = "File"
  BY <1>1, <1>2 DEF OpenAtEnd, OpenAt
<1>3. CASE m.type # "END" /\ OpenAtEnd(w, open)
  <2>1. CASE open /\ \A k \in 1..(n - 1) : w[k].type # "END"
    <3>1. \A k \in 1..n : a[k].type # "END"
      BY <1>1, <1>3, <2>1
    <3>. QED BY <1>1, <2>1, <3>1 DEF OpenAtEnd, OpenAt
  <2>2. ASSUME NEW j \in 1..(n - 1), w[j].type = "File",
               \A k \in (j + 1)..(n - 1) : w[k].type # "END"
        PROVE  OpenAtEnd(a, open)
    <3>1. \A k \in (j + 1)..n : a[k].type # "END"
      BY <1>1, <1>3, <2>2
    <3>2. j \in 1..n /\ a[j].type = "File"
      BY <1>1, <2>2
    <3>. QED BY <1>1, <3>1, <3>2 DEF OpenAtEnd, OpenAt
  <2>. QED BY <1>3, <2>1, <2>2 DEF OpenAtEnd, OpenAt
<1>. QED BY <1>2, <1>3 DEF a

(* A message that needs a FILE may follow when there will be one.          *)
LEMMA OrderlyAppend ==
  ASSUME NEW S, NEW w \in Seq(S), NEW m \in S, NEW open,
         Orderly(w, open), NeedsOpen(m) => OpenAtEnd(w, open)
  PROVE  Orderly(Append(w, m), open)
<1> DEFINE a == Append(w, m)
<1> SUFFICES ASSUME NEW i \in 1..Len(a), NeedsOpen(a[i]) PROVE OpenAt(a, open, i)
  BY DEF Orderly
<1>1. i \in 1..(Len(w) + 1)
  OBVIOUS
<1>2. OpenAt(w, open, i)
  <2>1. CASE i = Len(w) + 1
    BY <2>1 DEF OpenAtEnd
  <2>2. CASE i \in 1..Len(w)
    BY <2>2 DEF Orderly
  <2>. QED BY <1>1, <2>1, <2>2
<1>. QED BY <1>1, <1>2, OpenAppend

(* The first message is received; open2 tells whether the FILE is open     *)
(* after it.                                                               *)
LEMMA OpenTail ==
  ASSUME NEW S, NEW w \in Seq(S), w # <<>>, NEW open, NEW open2,
         Head(w).type # "END" /\ open => open2, Head(w).type = "File" => open2,
         NEW i \in 1..Len(w), OpenAt(w, open, i + 1)
  PROVE  OpenAt(Tail(w), open2, i)
<1> DEFINE t == Tail(w)
<1>1. /\ Len(t) = Len(w) - 1 /\ \A k \in 1..Len(t) : t[k] = w[k + 1]
      /\ Head(w) = w[1]
  OBVIOUS
<1> HIDE DEF t
<1>2. CASE open /\ \A k \in 1..i : w[k].type # "END"
  <2>1. \A k \in 1..(i - 1) : k \in 1..Len(t) /\ k + 1 \in 1..i
    BY <1>1
  <2>2. open2
    BY <1>1, <1>2
  <2>. QED BY <1>1, <1>2, <2>1, <2>2 DEF OpenAt
<1>3. ASSUME NEW j \in 1..i, w[j].type = "File", \A k \in (j + 1)..i : w[k].type # "END"
      PROVE  OpenAt(t, open2, i)
  <2>1. \A k \in j..(i - 1) : t[k].type # "END"
    BY <1>1, <1>3
  <2>2. CASE j = 1
    BY <1>1, <1>3, <2>1, <2>2 DEF OpenAt
  <2>3. CASE j # 1
    <3>1. j - 1 \in 1..(i - 1) /\ t[j - 1].type = "File"
      BY <1>1, <1>3, <2>3
    <3>2. \A k \in ((j - 1) + 1)..(i - 1) : t[k].type # "END"
      BY <2>1
    <3>. QED BY <3>1, <3>2 DEF OpenAt
  <2>. QED BY <2>2, <2>3
<1>4. (i + 1) - 1 = i
  OBVIOUS
<1>. QED BY <1>2, <1>3, <1>4 DEF OpenAt, t

(* When the first message is received the others are still in order.       *)
LEMMA OrderlyTail ==
  ASSUME NEW S, NEW w \in Seq(S), w # <<>>, NEW open, NEW open2,
         Head(w).type # "END" /\ open => open2, Head(w).type = "File" => open2,
         Orderly(w, open)
  PROVE  /\ Orderly(Tail(w), open2)
         /\ OpenAtEnd(w, open) => OpenAtEnd(Tail(w), open2)
         /\ NeedsOpen(Head(w)) => open
<1> DEFINE t == Tail(w)
<1>1. /\ Len(t) = Len(w) - 1 /\ \A k \in 1..Len(t) : t[k] = w[k + 1] /\ k + 1 \in 1..Len(w)
      /\ Head(w) = w[1] /\ 1 \in 1..Len(w) /\ Len(w) \in 1..Len(w)
  OBVIOUS
<1> HIDE DEF t
<1>2. \A i \in 1..Len(w) : OpenAt(w, open, i + 1) => OpenAt(t, open2, i)
  BY OpenTail DEF t
<1>3. ASSUME NEW i \in 1..Len(t), NeedsOpen(t[i]) PROVE OpenAt(t, open2, i)
  <2>1. OpenAt(w, open, i + 1)
    BY <1>1, <1>3 DEF Orderly
  <2>. QED BY <1>1, <1>2, <2>1
<1>4. OpenAtEnd(w, open) => OpenAtEnd(t, open2)
  BY <1>1, <1>2 DEF OpenAtEnd
<1>5. NeedsOpen(Head(w)) => open
  BY <1>1 DEF Orderly, OpenAt
<1>. QED BY <1>3, <1>4, <1>5 DEF Orderly, t
-----------------------------------------------------------------------------
(* The same for the last chunk.                                            *)
LEMMA LastAppend ==
  ASSUME NEW S, NEW w \in Seq(S), NEW m \in S, NEW got, NEW b, NEW i \in 1..(Len(w) + 1)
  PROVE  IsLast(b, Append(w, m), got, i) <=> IsLast(b, w, got, i)
<1>1. \A k \in 1..(i - 1) : Append(w, m)[k] = w[k]
  OBVIOUS
<1>2. \A j \in 1..(i - 1) : \A k \in (j + 1)..(i - 1) : Append(w, m)[k] = w[k]
  BY <1>1
<1>. QED BY <1>1, <1>2 DEF IsLast

(* The last chunk is the one that is added, or the same as before.         *)
LEMMA LastAppendEnd ==
  ASSUME NEW S, NEW w \in Seq(S), NEW m \in S, NEW got, NEW b,
         \/ m.type = "File" /\ b = m.block
         \/ m.type # "File" /\ IsLast(b, w, got, Len(w) + 1)
  PROVE  IsLast(b, Append(w, m), got, Len(Append(w, m)) + 1)
<1> DEFINE a == Append(w, m)
           n == Len(w) + 1
<1>1. /\ Len(a) = n /\ a[n] = m /\ n \in Nat \ {0}
      /\ \A k \in 1..(n - 1) : a[k] = w[k]
  OBVIOUS
<1> HIDE DEF a
<1>2. CASE m.type = "File" /\ b = m.block
  BY <1>1, <1>2 DEF IsLast
<1>3. CASE m.type # "File" /\ IsLast(b, w, got, n)
  <2>1. CASE got # <<>> /\ b = got[Len(got)] /\ \A k \in 1..(n - 1) : w[k].type # "File"
    <3>1. \A k \in 1..n : a[k].type # "File"
      BY <1>1, <1>3, <2>1
    <3>. QED BY <1>1, <2>1, <3>1 DEF IsLast
  <2>2. ASSUME NEW j \in 1..(n - 1), w[j].type = "File", w[j].block = b,
               \A k \in (j + 1)..(n - 1) : w[k].type # "File"
        PROVE  IsLast(b, a, got, n + 1)
    <3>1. \A k \in (j + 1)..n : a[k].type # "File"
      BY <1>1, <1>3, <2>2
    <3>2. j \in 1..n /\ a[j].type = "File" /\ a[j].block = b
      BY <1>1, <2>2
    <3>. QED BY <1>1, <3>1, <3>2 DEF IsLast
  <2>. QED BY <1>1, <1>3, <2>1, <2>2 DEF IsLast
<1>. QED BY <1>1, <1>2, <1>3 DEF a

(* The chain goes on with a chunk that continues it.                       *)
LEMMA ChainAppend ==
  ASSUME NEW S, NEW w \in Seq(S), NEW m \in S, NEW got,
         Chain(w, got), m.type = "File" => Chained(m, w, got, Len(w) + 1)
  PROVE  Chain(Append(w, m), got)
<1> DEFINE a == Append(w, m)
<1> SUFFICES ASSUME NEW i \in 1..Len(a), a[i].type = "File" PROVE Chained(a[i], a, got, i)
  BY DEF Chain
<1>1. i \in 1..(Len(w) + 1)
  OBVIOUS
<1>2. Chained(a[i], w, got, i)
  <2>1. CASE i = Len(w) + 1
    BY <2>1
  <2>2. CASE i \in 1..Len(w)
    BY <2>2 DEF Chain
  <2>. QED BY <1>1, <2>1, <2>2
<1>3. \A b : IsLast(b, w, got, i) => IsLast(b, a, got, i)
  BY <1>1, LastAppend
<1>. QED BY <1>2, <1>3 DEF Chained

(* The first message is received; got2 is what has been received then.     *)
LEMMA LastTail ==
  ASSUME NEW S, NEW w \in Seq(S), w # <<>>, NEW got, NEW got2, NEW b,
         Head(w).type # "File" => got2 = got,
         Head(w).type = "File" => got2 # <<>> /\ got2[Len(got2)] = Head(w).block,
         NEW i \in 1..Len(w), IsLast(b, w, got, i + 1)
  PROVE  IsLast(b, Tail(w), got2, i)
<1> DEFINE t == Tail(w)
<1>1. /\ Len(t) = Len(w) - 1 /\ \A k \in 1..Len(t) : t[k] = w[k + 1]
      /\ Head(w) = w[1]
  OBVIOUS
<1> HIDE DEF t
<1>2. CASE got # <<>> /\ b = got[Len(got)] /\ \A k \in 1..i : w[k].type # "File"
  <2>1. \A k \in 1..(i - 1) : k \in 1..Len(t) /\ k + 1 \in 1..i
    BY <1>1
  <2>2. got2 = got
    BY <1>1, <1>2
  <2>. QED BY <1>1, <1>2, <2>1, <2>2 DEF IsLast
<1>3. ASSUME NEW j \in 1..i, w[j].type = "File", w[j].block = b,
             \A k \in (j + 1)..i : w[k].type # "File"
      PROVE  IsLast(b, t, got2, i)
  <2>1. \A k \in j..(i - 1) : t[k].type # "File"
    BY <1>1, <1>3
  <2>2. CASE j = 1
    BY <1>1, <1>3, <2>1, <2>2 DEF IsLast
  <2>3. CASE j # 1
    <3>1. j - 1 \in 1..(i - 1) /\ t[j - 1].type = "File" /\ t[j - 1].block = b
      BY <1>1, <1>3, <2>3, SMTT(30)
    <3>2. \A k \in ((j - 1) + 1)..(i - 1) : t[k].type # "File"
      BY <2>1
    <3>. QED BY <3>1, <3>2 DEF IsLast
  <2>. QED BY <2>2, <2>3
<1>4. (i + 1) - 1 = i
  OBVIOUS
<1>. QED BY <1>2, <1>3, <1>4 DEF IsLast, t

(* When the first message is received the others are still a chain.        *)
LEMMA ChainTail ==
  ASSUME NEW S, NEW w \in Seq(S), w # <<>>, NEW got, NEW got2,
         Head(w).type # "File" => got2 = got,
         Head(w).type = "File" => got2 # <<>> /\ got2[Len(got2)] = Head(w).block,
         Chain(w, got)
  PROVE  /\ Chain(Tail(w), got2)
         /\ \A b : IsLast(b, w, got, Len(w) + 1) => IsLast(b, Tail(w), got2, Len(Tail(w)) + 1)
<1> DEFINE t == Tail(w)
<1>1. /\ Len(t) = Len(w) - 1 /\ \A k \in 1..Len(t) : t[k] = w[k + 1] /\ k + 1 \in 1..Len(w)
      /\ Len(w) \in 1..Len(w) /\ Len(t) + 1 = Len(w)
  OBVIOUS
<1> HIDE DEF t
<1>2. \A i \in 1..Len(w) : \A b : IsLast(b, w, got, i + 1) => IsLast(b, t, got2, i)
  BY LastTail DEF t
<1>3. ASSUME NEW i \in 1..Len(t), t[i].type = "File"
      PROVE  Chained(t[i], t, got2, i)
  <2>1. Chained(w[i + 1], w, got, i + 1)
    BY <1>1, <1>3 DEF Chain
  <2>2. \A b : IsLast(b, w, got, i + 1) => IsLast(b, t, got2, i)
    BY <1>1, <1>2
  <2>. QED BY <1>1, <2>1, <2>2 DEF Chained
<1>. QED BY <1>1, <1>2, <1>3 DEF Chain, t

(* What the first message of a chain is.                                   *)
LEMMA ChainHead ==
  ASSUME NEW S, NEW w \in Seq(S), w # <<>>, NEW got, Chain(w, got), Head(w).type = "File"
  PROVE  IF Head(w).first
           THEN \E f \in File : Head(w).block = Content(f, 1) /\ Head(w).size = Chunks[f]
           ELSE got # <<>> /\ Head(w).block = After(got[Len(got)])
<1>1. Head(w) = w[1] /\ 1 \in 1..Len(w)
  OBVIOUS
<1>2. Chained(Head(w), w, got, 1)
  BY <1>1 DEF Chain
<1>3. \A b : IsLast(b, w, got, 1) => got # <<>> /\ b = got[Len(got)]
  BY DEF IsLast
<1>. QED BY <1>2, <1>3 DEF Chained
-----------------------------------------------------------------------------
(* Tail, pointwise.                                                        *)
LEMMA TailFacts ==
  ASSUME NEW S, NEW s \in Seq(S), s # <<>>
  PROVE  /\ Tail(s) \in Seq(S) /\ Len(Tail(s)) = Len(s) - 1
         /\ \A i \in 1..Len(Tail(s)) : Tail(s)[i] = s[i + 1] /\ i + 1 \in 1..Len(s)
OBVIOUS

(* A sequence of nothing but x.                                            *)
LEMMA AllAre ==
  ASSUME NEW S, NEW s \in Seq(S), NEW x \in S, \A i \in 1..Len(s) : s[i] = x
  PROVE  /\ \A i \in 1..Len(Append(s, x)) : Append(s, x)[i] = x
         /\ s # <<>> => \A i \in 1..Len(Tail(s)) : Tail(s)[i] = x
OBVIOUS

(* What messages and functors are.                                         *)
LEMMA MessageFacts ==
  /\ \A m \in Plain : m \in Msg /\ m.type # "File" /\ m.type # "END"
  /\ \A m \in FirstMsg : m \in Msg /\ m.type = "File" /\ m.first
  /\ \A m \in NextMsg : m \in Msg /\ m.type = "File" /\ ~m.first
  /\ END_ \in Msg /\ END_.type = "END"
  /\ \A m \in Msg : m.type = "File" => (m \in FirstMsg \/ m \in NextMsg)
BY DEF Plain, CommandMsgs, Msg, FirstMsg, NextMsg, END_

LEMMA FunctorFacts ==
  /\ Complete \in Functor /\ Complete \notin CommandMsgs /\ Complete \notin FirstMsg
  /\ CommandMsgs \subseteq Functor /\ FirstMsg \subseteq Functor /\ CommandMsgs \subseteq Plain
  /\ \A f \in Functor : f # Complete => f \in CommandMsgs \/ f \in FirstMsg
  /\ \A kind \in Kinds : CommandMsg(kind) \in CommandMsgs
<1>1. \A f \in [type : {"write_complete"}] : f = Complete
  BY DEF Complete
<1>2. Complete \in [type : {"write_complete"}] /\ Complete.type = "write_complete"
  BY DEF Complete
<1>3. Complete \in Functor /\ Complete \notin CommandMsgs /\ Complete \notin FirstMsg
  BY <1>2 DEF Functor, CommandMsgs, FirstMsg
<1>4. \A f \in Functor : f # Complete => f \in CommandMsgs \/ f \in FirstMsg
  BY <1>1 DEF Functor
<1>. QED BY <1>3, <1>4 DEF Functor, Plain, CommandMsgs, CommandMsg

(* What chunks and the messages that carry them are.                       *)
LEMMA ChunkFacts ==
  ASSUME NEW f \in File, NEW no \in Nat
  PROVE  /\ Chunks[f] \in Nat \ {0}
         /\ Content(f, no) \in Chunk /\ Content(f, no).file = f /\ Content(f, no).no = no
         /\ \A c \in Chunk : First(f, c) \in FirstMsg /\ First(f, c).block = c
                             /\ First(f, c).size = Chunks[f]
         /\ \A c \in Chunk : Next_(c) \in NextMsg /\ Next_(c).block = c
<1>1. Chunks[f] \in Nat \ {0}
  BY TransferAssumption DEF File
<1>2. Content(f, no) = [file |-> f, no |-> no, cut |-> f \in Binary]
  BY DEF Content, Block
<1>. QED BY <1>1, <1>2 DEF Chunk, First, FirstMsg, Next_, NextMsg

LEMMA PeerFacts == \A e \in End : Peer(e) \in End /\ Peer(e) # e /\ Peer(Peer(e)) = e
BY DEF End, Peer

(* m is behind what was sent, at once or through the output buffer.        *)
Sent(e, m, queue, set) ==
  /\ wire'[e] = Append(wire[e], m)
  /\ \/ /\ unsent'[e] = unsent[e] + 1
        /\ functors'[e] = queue
     \/ /\ unsent[e] = 0 /\ unsent'[e] = 0
        /\ functors'[e] = IF set THEN Append(queue, Complete) ELSE queue

(* SendInLoop in these terms.                                              *)
LEMMA SendEffect ==
  ASSUME TransferTypeOK, NEW e \in End, NEW m \in Msg, NEW w \in [End -> Seq(Msg)],
         NEW queue \in Seq(Functor), NEW set \in BOOLEAN, w[e] = wire[e],
         SendInLoop(e, m, w, queue, set)
  PROVE  /\ wire' \in [End -> Seq(Msg)] /\ unsent' \in [End -> Nat]
         /\ functors' \in [End -> Seq(Functor)]
         /\ Sent(e, m, queue, set)
         /\ \A p \in End \ {e} :
              wire'[p] = w[p] /\ unsent'[p] = unsent[p] /\ functors'[p] = functors[p]
<1>1. PICK written \in IF unsent[e] = 0 THEN BOOLEAN ELSE {FALSE} :
        /\ wire' = [w EXCEPT ![e] = Append(@, m)]
        /\ unsent' = [unsent EXCEPT ![e] = IF written THEN 0 ELSE @ + 1]
        /\ functors' = [functors EXCEPT ![e] = IF written /\ set THEN Append(queue, Complete)
                                               ELSE queue]
  BY DEF SendInLoop
<1>2. /\ unsent \in [End -> Nat] /\ functors \in [End -> Seq(Functor)]
      /\ Append(queue, Complete) \in Seq(Functor) /\ Append(w[e], m) \in Seq(Msg)
  BY FunctorFacts DEF TransferTypeOK
<1>3. wire' \in [End -> Seq(Msg)] /\ wire'[e] = Append(wire[e], m)
  BY <1>1, <1>2
<1>4. functors' \in [End -> Seq(Functor)] /\ unsent' \in [End -> Nat]
  BY <1>1, <1>2
<1>5. CASE written
  BY <1>1, <1>2, <1>3, <1>4, <1>5 DEF Sent
<1>6. CASE ~written
  BY <1>1, <1>2, <1>3, <1>4, <1>6 DEF Sent
<1>. QED BY <1>5, <1>6
-----------------------------------------------------------------------------
(* The steps as one end sees them.  First, what holds of every step.       *)
Goes ==
  /\ ownLoop' = ownLoop
  /\ failures' = 0 => failures = 0
  /\ fault' = "none" => fault = "none"
  /\ \A e \in End : disturbed[e] => disturbed'[e]

(* Nothing is sent or queued.                                              *)
Keeps(e) ==
  /\ reader'[e] = reader[e] /\ callback'[e] = callback[e]
  /\ functors'[e] = functors[e] /\ unsent'[e] = unsent[e]
  /\ e = "server" => pusher' = pusher

Same(e) == Keeps(e) /\ wire'[e] = wire[e] /\ recv'[Peer(e)] = recv[Peer(e)]

(* Another message is sent, or queued to be sent.                          *)
SendsPlain(e) ==
  /\ \E m \in Plain : Sent(e, m, functors[e], callback[e])
  /\ ~Pushing(e) /\ ~Pushing(e)'
  /\ reader'[e] = reader[e] /\ callback'[e] = callback[e] /\ recv'[Peer(e)] = recv[Peer(e)]
  /\ UnderWay(e) => disturbed'[e]

QueuesPlain ==
  /\ ~ownLoop /\ pusher.at = "idle" /\ pusher' = pusher
  /\ \E m \in CommandMsgs : functors'["server"] = Append(functors["server"], m)
  /\ wire'["server"] = wire["server"] /\ unsent'["server"] = unsent["server"]
  /\ reader'["server"] = reader["server"] /\ callback'["server"] = callback["server"]
  /\ recv'["client"] = recv["client"]
  /\ UnderWay("server") => disturbed'["server"]

(* A transfer begins.                                                      *)
Starts(e) ==
  /\ \E f \in File : /\ reader'[e] = [file |-> f, at |-> 2]
                     /\ Sent(e, First(f, Content(f, 1)), functors[e], TRUE)
  /\ e = "client" \/ ownLoop
  /\ ~Pushing(e) /\ ~Pushing(e)'
  /\ callback'[e] /\ recv'[Peer(e)] = recv[Peer(e)]
  /\ UnderWay(e) => disturbed'[e]

(* A step that is none of the transfer from e to its peer.                 *)
LEMMA SameStep ==
  ASSUME TInv, Goes, NEW e \in End, Same(e)
  PROVE  EndInv(e)'
<1> USE DEF Same, Keeps, Goes
<1>1. Undisturbed(e) /\ InOrder(e) /\ InSequence(e) /\ Queue(e)
  BY DEF TInv, EndInv
<1>2. /\ Resting(e)' = Resting(e) /\ Buffered(e)' = Buffered(e) /\ Queued(e)' = Queued(e)
      /\ Posted(e)' = Posted(e) /\ Pushing(e)' = Pushing(e) /\ UnderWay(e)' = UnderWay(e)
      /\ Open(e)' = Open(e)
      /\ Pushing(e) => PushIsAlone' = PushIsAlone
  BY DEF Resting, Buffered, Queued, Posted, Pushing, UnderWay, Open, PushIsAlone
<1>3. Undisturbed(e)'
  BY <1>1, <1>2 DEF Undisturbed
<1>4. InOrder(e)'
  BY <1>1, <1>2 DEF InOrder
<1>5. InSequence(e)'
  BY <1>1, <1>2 DEF InSequence, ReadsOn, Reliable
<1>6. Queue(e)'
  BY <1>1, <1>2 DEF Queue
<1>. QED BY <1>3, <1>4, <1>5, <1>6 DEF EndInv

(* What the types say of one end.                                          *)
LEMMA EndTypes ==
  ASSUME TransferTypeOK, NEW e \in End
  PROVE  /\ wire[e] \in Seq(Msg) /\ functors[e] \in Seq(Functor) /\ unsent[e] \in Nat
         /\ callback[e] \in BOOLEAN /\ disturbed[e] \in BOOLEAN
         /\ reader[e] \in {NoFile} \cup [file : File, at : Nat \ {0}]
         /\ recv[e].fp \in {"none", "open", "closed"} /\ recv[e].size \in Nat
         /\ recv[e].got \in Seq(Chunk)
         /\ recv[Peer(e)].got \in Seq(Chunk)
BY PeerFacts DEF TransferTypeOK

(* The sequence of messages, when a plain one is added.                    *)
LEMMA PlainAdded ==
  ASSUME NEW w \in Seq(Msg), NEW m \in Plain, NEW open, NEW got
  PROVE  /\ Orderly(w, open) => Orderly(Append(w, m), open)
         /\ OpenAtEnd(w, open) => OpenAtEnd(Append(w, m), open)
         /\ Chain(w, got) => Chain(Append(w, m), got)
         /\ \A b : IsLast(b, w, got, Len(w) + 1) =>
                     IsLast(b, Append(w, m), got, Len(Append(w, m)) + 1)
<1>1. m \in Msg /\ m.type # "File" /\ m.type # "END"
  BY MessageFacts
<1>2. ~NeedsOpen(m)
  BY <1>1 DEF NeedsOpen
<1>3. Orderly(w, open) => Orderly(Append(w, m), open)
  BY <1>1, <1>2, OrderlyAppend
<1>4. OpenAtEnd(w, open) => OpenAtEnd(Append(w, m), open)
  BY <1>1, OpenAppendEnd
<1>5. Chain(w, got) => Chain(Append(w, m), got)
  BY <1>1, ChainAppend
<1>6. \A b : IsLast(b, w, got, Len(w) + 1) =>
               IsLast(b, Append(w, m), got, Len(Append(w, m)) + 1)
  BY <1>1, LastAppendEnd
<1>. QED BY <1>3, <1>4, <1>5, <1>6

(* Undisturbed, e was resting, and rests.                                  *)
LEMMA SendsPlainStep ==
  ASSUME TInv, Goes, NEW e \in End, SendsPlain(e)
  PROVE  EndInv(e)'
<1> USE DEF Goes
<1>0. PICK m \in Plain : Sent(e, m, functors[e], callback[e])
  BY DEF SendsPlain
<1>1. Undisturbed(e) /\ InOrder(e) /\ InSequence(e) /\ Queue(e)
  BY DEF TInv, EndInv
<1>2. /\ ~Pushing(e) /\ ~Pushing(e)' /\ reader'[e] = reader[e] /\ callback'[e] = callback[e]
      /\ recv'[Peer(e)] = recv[Peer(e)] /\ wire'[e] = Append(wire[e], m)
      /\ UnderWay(e) => disturbed'[e]
  BY <1>0 DEF SendsPlain, Sent
<1>3. wire[e] \in Seq(Msg) /\ functors[e] \in Seq(Functor) /\ callback[e] \in BOOLEAN
  BY EndTypes DEF TInv
<1>4. ~callback[e] => functors'[e] = functors[e]
  BY <1>0 DEF Sent
<1>5. ~disturbed'[e] => Resting(e) /\ Resting(e)'
  <2>1. ~disturbed'[e] => ~disturbed[e] /\ ~callback[e]
    BY <1>2 DEF UnderWay
  <2>. QED BY <1>1, <1>2, <1>4, <2>1 DEF Undisturbed, Resting, Buffered, Queued, Posted
<1>6. Undisturbed(e)'
  BY <1>2, <1>5 DEF Undisturbed
<1>7. InOrder(e)'
  <2>1. ~disturbed'[e] => ~Buffered(e)' /\ ~Queued(e)'
    BY <1>5 DEF Resting, Buffered, Queued
  <2>2. Open(e)' = Open(e)
    BY <1>2 DEF Open
  <2>. QED BY <1>1, <1>2, <1>3, <2>1, <2>2, PlainAdded DEF InOrder
<1>8. InSequence(e)'
  <2>1. Reliable(e)' => Reliable(e)
    BY DEF Reliable
  <2>2. Reliable(e)' => ~Posted(e)
    BY <1>2 DEF Reliable, Posted, UnderWay
  <2>3. Reliable(e)' /\ ReadsOn(e) => ReadsOn(e)'
    BY <1>2, <1>3, <2>2, PlainAdded DEF ReadsOn
  <2>. QED BY <1>1, <1>2, <1>3, <2>1, <2>3, PlainAdded DEF InSequence
<1>9. Queue(e)'
  <2>1. ~callback[e] => UnderWay(e)' = UnderWay(e)
    BY <1>2, <1>4 DEF UnderWay
  <2>2. callback[e] => UnderWay(e)
    BY DEF UnderWay
  <2>3. functors'[e] = functors[e] \/ functors'[e] = Append(functors[e], Complete)
    BY <1>0 DEF Sent
  <2>4. ASSUME \A i \in 1..Len(functors[e]) : functors[e][i] = Complete,
               NEW i \in 1..Len(functors'[e])
        PROVE  functors'[e][i] = Complete
    BY <1>3, <2>3, <2>4, FunctorFacts
  <2>. QED BY <1>1, <1>2, <1>3, <2>1, <2>2, <2>4 DEF Queue
<1>. QED BY <1>6, <1>7, <1>8, <1>9 DEF EndInv

(* The same through the queue of the loop.                                 *)
LEMMA QueuesPlainStep ==
  ASSUME TInv, Goes, QueuesPlain
  PROVE  EndInv("server")'
<1> USE DEF Goes
<1> DEFINE e == "server"
<1>0. PICK m \in CommandMsgs : functors'[e] = Append(functors[e], m)
  BY DEF QueuesPlain
<1>1. e \in End /\ Peer(e) = "client"
  BY DEF End, Peer
<1>2. Undisturbed(e) /\ InOrder(e) /\ InSequence(e) /\ Queue(e)
  BY <1>1 DEF TInv, EndInv
<1>3. /\ ~Pushing(e) /\ ~Pushing(e)' /\ reader'[e] = reader[e] /\ callback'[e] = callback[e]
      /\ recv'[Peer(e)] = recv[Peer(e)] /\ wire'[e] = wire[e] /\ unsent'[e] = unsent[e]
      /\ UnderWay(e) => disturbed'[e]
      /\ ~ownLoop
  BY <1>1 DEF QueuesPlain, Pushing
<1>4. functors[e] \in Seq(Functor) /\ m \in Functor /\ callback[e] \in BOOLEAN
  BY <1>1, EndTypes, FunctorFacts DEF TInv
<1> HIDE DEF e
<1>5. /\ Len(functors'[e]) = Len(functors[e]) + 1
      /\ functors'[e][Len(functors[e]) + 1] = m
      /\ \A i \in 1..Len(functors[e]) : functors'[e][i] = functors[e][i]
  BY <1>0, <1>4
<1>6. ~disturbed'[e] => Resting(e) /\ Resting(e)'
  <2>1. ~disturbed'[e] => ~disturbed[e] /\ ~callback[e]
    BY <1>1, <1>3 DEF UnderWay
  <2>2. ~disturbed'[e] => Resting(e)
    BY <1>2, <1>3, <2>1 DEF Undisturbed, Buffered, Queued, Posted
  <2>3. Resting(e) => \A i \in 1..(Len(functors[e]) + 1) : functors'[e][i] \in CommandMsgs
    BY <1>4, <1>5 DEF Resting
  <2>. QED BY <1>3, <1>5, <2>2, <2>3 DEF Resting
<1>7. Undisturbed(e)'
  BY <1>3, <1>6 DEF Undisturbed
<1>8. InOrder(e)'
  <2>1. ~disturbed'[e] => ~Buffered(e)' /\ ~Queued(e)'
    BY <1>6 DEF Resting, Buffered, Queued
  <2>2. Open(e)' = Open(e)
    BY <1>3 DEF Open
  <2>. QED BY <1>1, <1>2, <1>3, <2>1, <2>2 DEF InOrder
<1>9. InSequence(e)'
  <2>1. Reliable(e)' => Reliable(e) /\ ~Posted(e)
    BY <1>1, <1>3 DEF Reliable, Posted, UnderWay
  <2>. QED BY <1>2, <1>3, <2>1 DEF InSequence, ReadsOn
<1>10. Queue(e)'
  <2>1. UnderWay(e)' => UnderWay(e)
    BY <1>0, <1>3, <1>4, <1>5, FunctorFacts DEF UnderWay
  <2>. QED BY <1>2, <1>3, <2>1 DEF Queue, e
<1>. QED BY <1>7, <1>8, <1>9, <1>10 DEF EndInv, e

(* Undisturbed, e was resting, then waits for the buffer or the callback.  *)
LEMMA StartsStep ==
  ASSUME TInv, Goes, NEW e \in End, Starts(e)
  PROVE  EndInv(e)'
<1> USE DEF Goes
<1>0. PICK f \in File : /\ reader'[e] = [file |-> f, at |-> 2]
                        /\ Sent(e, First(f, Content(f, 1)), functors[e], TRUE)
  BY DEF Starts
<1> DEFINE m == First(f, Content(f, 1))
<1>1. Undisturbed(e) /\ InOrder(e) /\ InSequence(e) /\ Queue(e)
  BY DEF TInv, EndInv
<1>2. /\ ~Pushing(e) /\ ~Pushing(e)' /\ callback'[e] /\ recv'[Peer(e)] = recv[Peer(e)]
      /\ e = "client" \/ ownLoop
      /\ UnderWay(e) => disturbed'[e]
      /\ wire'[e] = Append(wire[e], m)
  BY <1>0 DEF Starts, Sent
<1>3. /\ wire[e] \in Seq(Msg) /\ functors[e] \in Seq(Functor) /\ unsent[e] \in Nat
      /\ callback[e] \in BOOLEAN
  BY EndTypes DEF TInv
<1>4. /\ m \in Msg /\ m.type = "File" /\ m.first /\ m.block = Content(f, 1)
      /\ m.size = Chunks[f]
      /\ Content(f, 1) \in Chunk /\ Content(f, 1).file = f /\ Content(f, 1).no = 1
  BY ChunkFacts, MessageFacts
<1> HIDE DEF m
<1>5. ~UnderWay(e) => functors[e] = <<>>
  BY <1>1, <1>2, <1>3 DEF Queue, UnderWay
<1>6. functors'[e] = functors[e] \/ functors'[e] = Append(functors[e], Complete)
  BY <1>0 DEF Sent
<1>7. ~disturbed'[e] => Buffered(e)' \/ Queued(e)'
  BY <1>0, <1>2, <1>3, <1>5 DEF Buffered, Queued, Sent
<1>8. Undisturbed(e)'
  BY <1>2, <1>7 DEF Undisturbed
<1>9. InOrder(e)'
  <2>1. Open(e)' = Open(e)
    BY <1>2 DEF Open
  <2>2. ~NeedsOpen(m)
    BY <1>4 DEF NeedsOpen
  <2>3. Orderly(wire[e], Open(e)) => Orderly(wire'[e], Open(e))
    BY <1>2, <1>3, <1>4, <2>2, OrderlyAppend
  <2>4. OpenAtEnd(wire'[e], Open(e))
    BY <1>2, <1>3, <1>4, OpenAppendEnd
  <2>. QED BY <1>1, <2>1, <2>3, <2>4 DEF InOrder
<1>10. InSequence(e)'
  <2>1. Reliable(e)' => Reliable(e)
    BY DEF Reliable
  <2> DEFINE got == recv[Peer(e)].got
  <2>2. Chained(m, wire[e], got, Len(wire[e]) + 1)
    BY <1>4 DEF Chained
  <2>3. Chain(wire[e], got) => Chain(wire'[e], got)
    BY <1>2, <1>3, <1>4, <2>2, ChainAppend
  <2>4. IsLast(Content(f, 1), wire'[e], got, Len(wire'[e]) + 1)
    BY <1>2, <1>3, <1>4, LastAppendEnd
  <2>5. ReadsOn(e)'
    <3>1. reader'[e] = [file |-> Content(f, 1).file, at |-> Content(f, 1).no + 1]
      BY <1>0, <1>4
    <3>. QED BY <1>2, <1>4, <2>4, <3>1 DEF ReadsOn
  <2>. QED BY <1>1, <1>2, <2>1, <2>3, <2>5 DEF InSequence
<1>11. Queue(e)'
  <2>1. reader'[e] # NoFile
    BY <1>0 DEF NoFile
  <2>2. ASSUME NEW i \in 1..Len(functors'[e])
        PROVE  functors'[e][i] = Complete
    <3>1. \A k \in 1..Len(functors[e]) : functors[e][k] = Complete
      BY <1>1, <1>2 DEF Queue
    <3>. QED BY <1>3, <1>6, <2>2, <3>1, FunctorFacts, SMTT(30)
  <2>. QED BY <1>2, <2>1, <2>2 DEF Queue
<1>. QED BY <1>8, <1>9, <1>10, <1>11 DEF EndInv
-----------------------------------------------------------------------------
(* onWriteComplete of one end.                                             *)
Completes(e) == onWriteComplete(e) /\ UNCHANGED <<recv, pusher, disturbed>>

More(e) == reader[e].at <= Chunks[reader[e].file]
NextOf(e) == IF More(e) THEN Next_(Content(reader[e].file, reader[e].at)) ELSE END_

(* What onWriteComplete does, with its sender typed.                       *)
LEMMA CompleteEffect ==
  ASSUME TInv, NEW e \in End, Completes(e)
  PROVE  /\ reader[e] \in [file : File, at : Nat \ {0}]
         /\ functors[e] # <<>> /\ functors[e][1] = Complete
         /\ reader' \in [End -> {NoFile} \cup [file : File, at : Nat \ {0}]]
         /\ reader'[e] = [file |-> reader[e].file,
                          at |-> IF More(e) THEN reader[e].at + 1 ELSE reader[e].at]
         /\ callback' \in [End -> BOOLEAN] /\ callback'[e] = (callback[e] /\ More(e))
         /\ NextOf(e) \in Msg
         /\ wire' \in [End -> Seq(Msg)] /\ unsent' \in [End -> Nat]
         /\ functors' \in [End -> Seq(Functor)]
         /\ Sent(e, NextOf(e), Tail(functors[e]), callback'[e])
         /\ \A p \in End \ {e} : Same(p)
<1>1. /\ functors[e] \in Seq(Functor) /\ wire \in [End -> Seq(Msg)] /\ callback[e] \in BOOLEAN
      /\ reader \in [End -> {NoFile} \cup [file : File, at : Nat \ {0}]]
      /\ callback \in [End -> BOOLEAN]
      /\ TransferTypeOK
  BY EndTypes DEF TInv, TransferTypeOK
<1>2. functors[e] # <<>> /\ functors[e][1] = Complete
  BY <1>1 DEF Completes, onWriteComplete
<1>3. reader[e] \in [file : File, at : Nat \ {0}]
  <2>1. UnderWay(e)
    BY <1>1, <1>2 DEF UnderWay
  <2>. QED BY <1>1, <2>1 DEF TInv, EndInv, Queue
<1>4. NextOf(e) \in Msg
  BY <1>3, ChunkFacts, MessageFacts DEF NextOf
<1>5. reader' = [reader EXCEPT ![e].at = IF More(e) THEN @ + 1 ELSE @]
  BY DEF Completes, onWriteComplete, More
<1>6. /\ reader' \in [End -> {NoFile} \cup [file : File, at : Nat \ {0}]]
      /\ reader'[e] = [file |-> reader[e].file,
                       at |-> IF More(e) THEN reader[e].at + 1 ELSE reader[e].at]
      /\ \A p \in End \ {e} : reader'[p] = reader[p]
  <2>1. /\ reader'[e] = [reader[e] EXCEPT !.at = IF More(e) THEN @ + 1 ELSE @]
        /\ \A p \in End \ {e} : reader'[p] = reader[p]
        /\ reader' \in [End -> {reader'[p] : p \in End}]
    BY <1>1, <1>5
  <2>2. /\ reader'[e] = [file |-> reader[e].file,
                         at |-> IF More(e) THEN reader[e].at + 1 ELSE reader[e].at]
        /\ reader'[e] \in [file : File, at : Nat \ {0}]
    BY <1>3, <2>1
  <2>. QED BY <1>1, <2>1, <2>2, ZenonT(30)
<1>7. callback' = [callback EXCEPT ![e] = @ /\ More(e)]
  BY DEF Completes, onWriteComplete, More
<1>8. /\ callback' \in [End -> BOOLEAN] /\ callback'[e] = (callback[e] /\ More(e))
      /\ \A p \in End \ {e} : callback'[p] = callback[p]
  <2>1. (callback[e] /\ More(e)) \in BOOLEAN
    OBVIOUS
  <2>. QED BY <1>1, <1>7, <2>1
<1>9. SendInLoop(e, NextOf(e), wire, Tail(functors[e]), callback'[e])
  BY DEF Completes, onWriteComplete, More, NextOf
<1>10. Tail(functors[e]) \in Seq(Functor) /\ callback'[e] \in BOOLEAN
  BY <1>1, <1>2, <1>8
<1>11. /\ wire' \in [End -> Seq(Msg)] /\ unsent' \in [End -> Nat]
       /\ functors' \in [End -> Seq(Functor)]
       /\ Sent(e, NextOf(e), Tail(functors[e]), callback'[e])
       /\ \A p \in End \ {e} :
            wire'[p] = wire[p] /\ unsent'[p] = unsent[p] /\ functors'[p] = functors[p]
  <2>1. PICK m \in Msg, w \in [End -> Seq(Msg)], queue \in Seq(Functor), set \in BOOLEAN :
          m = NextOf(e) /\ w = wire /\ queue = Tail(functors[e]) /\ set = callback'[e]
    BY <1>1, <1>4, <1>10
  <2>2. SendInLoop(e, m, w, queue, set)
    BY <1>9, <2>1 DEF SendInLoop
  <2>3. Sent(e, m, queue, set) => Sent(e, NextOf(e), Tail(functors[e]), callback'[e])
    BY <2>1 DEF Sent
  <2>4. w[e] = wire[e]
    BY <2>1
  <2>5. /\ wire' \in [End -> Seq(Msg)] /\ unsent' \in [End -> Nat]
        /\ functors' \in [End -> Seq(Functor)]
        /\ Sent(e, m, queue, set)
        /\ \A p \in End \ {e} :
             wire'[p] = w[p] /\ unsent'[p] = unsent[p] /\ functors'[p] = functors[p]
    BY <1>1, <2>2, <2>4, SendEffect
  <2>. QED BY <2>1, <2>3, <2>5
<1>12. \A p \in End \ {e} : Same(p)
  BY <1>6, <1>8, <1>11 DEF Same, Keeps, Completes
<1>. QED BY <1>2, <1>3, <1>4, <1>6, <1>8, <1>11, <1>12

(* The next chunk follows the last one; after END the sender rests.        *)
LEMMA CompletesStep ==
  ASSUME TInv, Goes, NEW e \in End, Completes(e)
  PROVE  EndInv(e)'
<1> USE DEF Goes
<1> DEFINE r == reader[e]
           m == NextOf(e)
           w == wire[e]
           got == recv[Peer(e)].got
<1>1. Undisturbed(e) /\ InOrder(e) /\ InSequence(e) /\ Queue(e)
  BY DEF TInv, EndInv
<1>2. /\ r \in [file : File, at : Nat \ {0}]
      /\ functors[e] # <<>> /\ functors[e][1] = Complete
      /\ reader'[e] = [file |-> r.file, at |-> IF More(e) THEN r.at + 1 ELSE r.at]
      /\ callback'[e] = (callback[e] /\ More(e))
      /\ m \in Msg
      /\ Sent(e, m, Tail(functors[e]), callback'[e])
  BY CompleteEffect
<1>3. /\ w \in Seq(Msg) /\ functors[e] \in Seq(Functor) /\ unsent[e] \in Nat
      /\ callback[e] \in BOOLEAN /\ got \in Seq(Chunk)
  BY EndTypes DEF TInv
<1>4. /\ recv'[Peer(e)] = recv[Peer(e)] /\ wire'[e] = Append(w, m) /\ Pushing(e)' = Pushing(e)
      /\ disturbed'[e] = disturbed[e]
      /\ Open(e)' = Open(e)
  BY <1>2 DEF Completes, Sent, Pushing, Open
<1>5. More(e) => m = Next_(Content(r.file, r.at)) /\ m.type = "File" /\ ~m.first
                 /\ m.block = Content(r.file, r.at)
  BY <1>2, ChunkFacts, MessageFacts DEF NextOf
<1>6. ~More(e) => m.type = "END"
  BY MessageFacts DEF NextOf
<1>7. ~Posted(e) /\ (~disturbed[e] => Queued(e) /\ ~Pushing(e))
  <2>1. ~Resting(e) /\ ~Buffered(e)
    BY <1>2, <1>3, FunctorFacts DEF Resting, Buffered
  <2>2. ~Posted(e)
    <3> SUFFICES ASSUME NEW f \in Testcase, functors[e] = <<First(f, Content(f, 1))>>
                 PROVE  FALSE
      BY DEF Posted
    <3>1. First(f, Content(f, 1)) \in FirstMsg
      BY ChunkFacts DEF File
    <3>. QED BY <1>2, <3>1, FunctorFacts
  <2>3. Pushing(e) => ~PushIsAlone
    BY <1>2 DEF Pushing, PushIsAlone
  <2>. QED BY <1>1, <2>1, <2>2, <2>3 DEF Undisturbed
<1> HIDE DEF m, w, got, r
<1>8. /\ ~disturbed[e] /\ More(e) => Buffered(e)' \/ Queued(e)'
      /\ ~disturbed[e] /\ ~More(e) => Resting(e)'
  <2>1. Queued(e) => Tail(functors[e]) = <<>> /\ Append(<<>>, Complete) = <<Complete>>
    BY DEF Queued
  <2>2. ASSUME ~disturbed[e], More(e) PROVE Buffered(e)' \/ Queued(e)'
    <3>1. /\ callback'[e] /\ Tail(functors[e]) = <<>> /\ unsent[e] = 0
          /\ Append(Tail(functors[e]), Complete) = <<Complete>>
      BY <1>2, <1>7, <2>1, <2>2 DEF Queued
    <3>2. \/ unsent'[e] = unsent[e] + 1 /\ functors'[e] = <<>>
          \/ unsent'[e] = 0 /\ functors'[e] = <<Complete>>
      <4>1. Sent(e, m, Tail(functors[e]), callback'[e])
        BY <1>2
      <4>2. \/ unsent'[e] = unsent[e] + 1 /\ functors'[e] = Tail(functors[e])
            \/ unsent'[e] = 0 /\ functors'[e] = Append(Tail(functors[e]), Complete)
        BY <3>1, <4>1, Zenon DEF Sent
      <4>. QED BY <3>1, <4>2
    <3>. QED BY <3>1, <3>2 DEF Queued, Buffered
  <2>3. ASSUME ~disturbed[e], ~More(e) PROVE Resting(e)'
    <3>1. ~callback'[e] /\ functors'[e] = <<>>
      BY <1>2, <1>7, <2>1, <2>3 DEF Sent
    <3>. QED BY <3>1 DEF Resting
  <2>. QED BY <2>2, <2>3
<1>9. Undisturbed(e)'
  BY <1>4, <1>7, <1>8 DEF Undisturbed
<1>10. InOrder(e)'
  <2>1. Orderly(w, Open(e)) /\ OpenAtEnd(w, Open(e)) => Orderly(Append(w, m), Open(e))
    BY <1>2, <1>3, OrderlyAppend
  <2>2. OpenAtEnd(w, Open(e)) /\ More(e) => OpenAtEnd(Append(w, m), Open(e))
    BY <1>2, <1>3, <1>5, OpenAppendEnd
  <2>3. ~disturbed[e] /\ ~More(e) => ~Buffered(e)' /\ ~Queued(e)'
    BY <1>8 DEF Resting, Buffered, Queued
  <2>. QED BY <1>1, <1>4, <1>7, <2>1, <2>2, <2>3 DEF InOrder, w
<1>11. InSequence(e)'
  <2> SUFFICES ASSUME Reliable(e)' PROVE InSequence(e)'
    BY DEF InSequence
  <2>1. Reliable(e)
    BY <1>4 DEF Reliable
  <2>2. ~Pushing(e) /\ ~Posted(e)
    BY <1>1, <1>7, <2>1 DEF Reliable, Queue, Posted, Pushing, End
  <2> SUFFICES ASSUME fault' = "none"
               PROVE  Chain(wire'[e], got) /\ ReadsOn(e)'
    BY <1>1, <1>4, <2>1 DEF InSequence, got
  <2>3. PICK b \in Chunk : IsLast(b, w, got, Len(w) + 1) /\ r = [file |-> b.file, at |-> b.no + 1]
    <3>1. ReadsOn(e)
      BY <1>1, <2>1, <2>2 DEF InSequence
    <3>2. r # NoFile
      BY <1>2 DEF NoFile, r
    <3>. QED BY <2>2, <3>1, <3>2 DEF ReadsOn, w, got, r
  <2>4. Chain(w, got)
    BY <1>1, <2>1 DEF InSequence, w, got
  <2>5. CASE More(e)
    <3>1. m.block = After(b) /\ After(b) \in Chunk /\ After(b).file = b.file
          /\ After(b).no = b.no + 1
      <4>1. b.file \in File /\ b.no + 1 \in Nat
        BY DEF Chunk
      <4>. QED BY <1>5, <2>3, <2>5, <4>1, ChunkFacts DEF After
    <3>2. Chained(m, w, got, Len(w) + 1)
      BY <1>5, <2>3, <2>5, <3>1 DEF Chained
    <3>3. Chain(Append(w, m), got)
      BY <1>2, <1>3, <2>4, <3>2, ChainAppend
    <3>4. IsLast(After(b), Append(w, m), got, Len(Append(w, m)) + 1)
      BY <1>2, <1>3, <1>5, <2>5, <3>1, LastAppendEnd
    <3>5. reader'[e] = [file |-> After(b).file, at |-> After(b).no + 1]
      BY <1>2, <2>3, <2>5, <3>1
    <3>. QED BY <1>4, <3>1, <3>3, <3>4, <3>5 DEF ReadsOn, got
  <2>6. CASE ~More(e)
    <3>1. m.type # "File"
      BY <1>6, <2>6
    <3>2. Chain(Append(w, m), got)
      BY <1>2, <1>3, <2>4, <3>1, ChainAppend
    <3>3. IsLast(b, Append(w, m), got, Len(Append(w, m)) + 1)
      BY <1>2, <1>3, <2>3, <3>1, LastAppendEnd
    <3>4. reader'[e] = [file |-> b.file, at |-> b.no + 1]
      BY <1>2, <2>3, <2>6
    <3>. QED BY <1>4, <3>2, <3>3, <3>4 DEF ReadsOn, got
  <2>. QED BY <2>5, <2>6
<1>12. Queue(e)'
  <2>1. reader'[e] # NoFile
    BY <1>2 DEF NoFile
  <2>2. \/ functors'[e] = Tail(functors[e])
        \/ functors'[e] = Append(Tail(functors[e]), Complete)
    BY <1>2 DEF Sent
  <2>3. ASSUME \A k \in 1..Len(functors[e]) : functors[e][k] = Complete,
               NEW i \in 1..Len(functors'[e])
        PROVE  functors'[e][i] = Complete
    <3>1. functors[e] # <<>> /\ Tail(functors[e]) \in Seq(Functor)
      BY <1>2, <1>3, TailFacts
    <3>2. \A k \in 1..Len(Tail(functors[e])) : Tail(functors[e])[k] = Complete
      BY <1>3, <2>3, <3>1, AllAre, FunctorFacts
    <3>3. \A k \in 1..Len(Append(Tail(functors[e]), Complete)) :
            Append(Tail(functors[e]), Complete)[k] = Complete
      BY <3>1, <3>2, AllAre, FunctorFacts
    <3>. QED BY <2>2, <2>3, <3>2, <3>3
  <2>. QED BY <1>1, <1>4, <2>1, <2>3 DEF Queue
<1>. QED BY <1>9, <1>10, <1>11, <1>12 DEF EndInv
-----------------------------------------------------------------------------
(* The output buffer drains.                                               *)
Drains(e) ==
  /\ unsent[e] > 0 /\ unsent'[e] \in 0..(unsent[e] - 1)
  /\ functors'[e] = IF unsent'[e] = 0 /\ callback[e] THEN Append(functors[e], Complete)
                                                     ELSE functors[e]
  /\ reader'[e] = reader[e] /\ callback'[e] = callback[e] /\ wire'[e] = wire[e]
  /\ recv'[Peer(e)] = recv[Peer(e)] /\ pusher' = pusher

(* The callback is queued when the buffer becomes empty.                   *)
LEMMA DrainsStep ==
  ASSUME TInv, Goes, NEW e \in End, Drains(e)
  PROVE  EndInv(e)'
<1> USE DEF Goes
<1>1. Undisturbed(e) /\ InOrder(e) /\ InSequence(e) /\ Queue(e)
  BY DEF TInv, EndInv
<1>2. /\ reader'[e] = reader[e] /\ callback'[e] = callback[e] /\ wire'[e] = wire[e]
      /\ recv'[Peer(e)] = recv[Peer(e)] /\ Pushing(e)' = Pushing(e)
      /\ Open(e)' = Open(e)
      /\ unsent[e] > 0 /\ unsent'[e] \in Nat
      /\ disturbed[e] => disturbed'[e]
  BY EndTypes DEF Drains, Pushing, Open, TInv
<1>3. /\ functors[e] \in Seq(Functor) /\ unsent[e] \in Nat /\ callback[e] \in BOOLEAN
  BY EndTypes DEF TInv
<1>4. /\ \/ functors'[e] = functors[e]
         \/ callback[e] /\ functors'[e] = Append(functors[e], Complete)
      /\ callback[e] /\ unsent'[e] = 0 => functors'[e] = Append(functors[e], Complete)
      /\ unsent'[e] # 0 => functors'[e] = functors[e]
  BY DEF Drains
<1>5. ~disturbed[e] => ~Pushing(e) /\ (Resting(e) \/ Buffered(e))
  BY <1>1, <1>2 DEF Undisturbed, PushIsAlone, Pushing, Queued, Posted
<1>6. Resting(e) => Resting(e)'
  BY <1>2, <1>4 DEF Resting
<1>7. Buffered(e) => Buffered(e)' \/ Queued(e)'
  <2> SUFFICES ASSUME Buffered(e) PROVE Buffered(e)' \/ Queued(e)'
    OBVIOUS
  <2>1. callback[e] /\ functors[e] = <<>> /\ Append(functors[e], Complete) = <<Complete>>
    BY DEF Buffered
  <2>. QED BY <1>2, <1>4, <2>1 DEF Buffered, Queued
<1>8. Undisturbed(e)'
  BY <1>2, <1>5, <1>6, <1>7 DEF Undisturbed
<1>9. InOrder(e)'
  <2>1. Resting(e) => ~Buffered(e)' /\ ~Queued(e)'
    BY <1>2 DEF Resting, Buffered, Queued
  <2>. QED BY <1>1, <1>2, <1>5, <2>1 DEF InOrder
<1>10. InSequence(e)'
  <2>1. Reliable(e)' => Reliable(e)
    BY DEF Reliable
  <2>2. ~Posted(e)
    BY <1>2 DEF Posted
  <2>. QED BY <1>1, <1>2, <2>1, <2>2 DEF InSequence, ReadsOn
<1>11. Queue(e)'
  <2>1. UnderWay(e)' => UnderWay(e)
    BY <1>2, <1>4 DEF UnderWay
  <2>2. ASSUME \A i \in 1..Len(functors[e]) : functors[e][i] = Complete
        PROVE  \A i \in 1..Len(functors'[e]) : functors'[e][i] = Complete
    <3>1. \A i \in 1..Len(Append(functors[e], Complete)) :
            Append(functors[e], Complete)[i] = Complete
      BY <1>3, <2>2, AllAre, FunctorFacts
    <3>. QED BY <1>4, <2>2, <3>1
  <2>. QED BY <1>1, <1>2, <2>1, <2>2 DEF Queue
<1>. QED BY <1>8, <1>9, <1>10, <1>11 DEF EndInv
-----------------------------------------------------------------------------
(* pushToClient in another loop; what PushOpen, PushRead, PushSet and      *)
(* PushPost do.                                                            *)
Opens ==
  /\ ~ownLoop /\ wire'["server"] = wire["server"] /\ unsent'["server"] = unsent["server"]
  /\ callback'["server"] = callback["server"] /\ functors'["server"] = functors["server"]
  /\ recv'["client"] = recv["client"]
  /\ \E t \in Testcase : /\ reader'["server"] = [file |-> t, at |-> 1]
                         /\ pusher' = [at |-> "opened", file |-> t]
  /\ callback["server"] \/ functors["server"] # <<>> \/ unsent["server"] > 0 =>
       disturbed'["server"]

(* What pushToClient does first in another loop: the FILE.                 *)
LEMMA OpensStep ==
  ASSUME TInv, Goes, Opens
  PROVE  EndInv("server")'
<1> USE DEF Goes
<1>0. PICK t \in Testcase : /\ reader'["server"] = [file |-> t, at |-> 1]
                            /\ pusher' = [at |-> "opened", file |-> t]
  BY DEF Opens
<1>1. "server" \in End /\ Peer("server") = "client"
  BY DEF End, Peer
<1>2. Undisturbed("server") /\ InOrder("server") /\ InSequence("server") /\ Queue("server")
  BY <1>1 DEF TInv, EndInv
<1>3. unsent["server"] \in Nat /\ functors["server"] \in Seq(Functor)
  BY <1>1, EndTypes DEF TInv
<1>4. ~disturbed'["server"] => Resting("server")' /\ PushIsAlone'
  BY <1>0, <1>3 DEF Opens, Resting, PushIsAlone
<1>5. Pushing("server")'
  BY <1>0 DEF Pushing
<1>6. Undisturbed("server")'
  BY <1>4 DEF Undisturbed
<1>7. InOrder("server")'
  <2>1. ~disturbed'["server"] => ~Buffered("server")' /\ ~Queued("server")'
    BY <1>4 DEF Resting, Buffered, Queued
  <2>. QED BY <1>1, <1>2, <2>1 DEF InOrder, Open, Opens
<1>8. InSequence("server")'
  BY <1>1, <1>2, <1>5 DEF InSequence, Reliable, ReadsOn, Opens
<1>9. Queue("server")'
  BY <1>0 DEF Queue, NoFile, Opens
<1>. QED BY <1>6, <1>7, <1>8, <1>9 DEF EndInv

(* Then the first chunk is read.                                           *)
LEMMA PushReadStep ==
  ASSUME TInv, Goes, PushRead
  PROVE  /\ EndInv("server")'
         /\ reader' \in [End -> {NoFile} \cup [file : File, at : Nat \ {0}]]
         /\ reader'["client"] = reader["client"] /\ pusher' \in Pusher
<1> USE DEF Goes
<1> DEFINE r == reader["server"]
           chunk == IF r.at <= Chunks[r.file] THEN r.at ELSE 0
<1>1. "server" \in End /\ Peer("server") = "client" /\ "client" \in End
  BY DEF End, Peer
<1>2. Undisturbed("server") /\ InOrder("server") /\ InSequence("server") /\ Queue("server")
  BY <1>1 DEF TInv, EndInv
<1>3. Pushing("server") /\ pusher.file \in Testcase
  BY DEF Pushing, PushRead, TInv, TransferTypeOK, Pusher
<1>4. r \in [file : File, at : Nat \ {0}]
  BY <1>1, <1>2, <1>3, EndTypes DEF Queue, TInv
<1>5. /\ reader' \in [End -> {NoFile} \cup [file : File, at : Nat \ {0}]]
      /\ reader'["client"] = reader["client"]
      /\ reader'["server"] = [file |-> r.file, at |-> IF r.at <= Chunks[r.file] THEN r.at + 1 ELSE r.at]
  <2>1. reader \in [End -> {NoFile} \cup [file : File, at : Nat \ {0}]]
    BY DEF TInv, TransferTypeOK
  <2>2. reader' = [reader EXCEPT !["server"].at = IF @ <= Chunks[r.file] THEN @ + 1 ELSE @]
    BY DEF PushRead
  <2>3. /\ reader'["server"] = [r EXCEPT !.at = IF @ <= Chunks[r.file] THEN @ + 1 ELSE @]
        /\ reader'["client"] = reader["client"]
        /\ reader' \in [End -> {reader'[p] : p \in End}]
    BY <1>1, <2>1, <2>2
  <2>4. /\ reader'["server"] = [file |-> r.file,
                                at |-> IF r.at <= Chunks[r.file] THEN r.at + 1 ELSE r.at]
        /\ reader'["server"] \in [file : File, at : Nat \ {0}]
    BY <1>4, <2>3
  <2>. QED BY <1>1, <2>1, <2>3, <2>4 DEF End
<1>6. pusher' = [at |-> "read", file |-> pusher.file, chunk |-> chunk]
  BY DEF PushRead
<1>7. /\ pusher' \in Pusher
      /\ callback'["server"] = callback["server"] /\ functors'["server"] = functors["server"]
      /\ unsent'["server"] = unsent["server"] /\ wire'["server"] = wire["server"]
      /\ recv'["client"] = recv["client"] /\ disturbed' = disturbed
  BY <1>3, <1>4, <1>6 DEF PushRead, Pusher
<1>8. ~disturbed["server"] => Resting("server")' /\ PushIsAlone'
  <2> SUFFICES ASSUME ~disturbed["server"] PROVE Resting("server")' /\ PushIsAlone'
    OBVIOUS
  <2>1. PushIsAlone /\ pusher.at = "opened"
    BY <1>2, <1>3 DEF Undisturbed, PushRead
  <2>2. r = [file |-> pusher.file, at |-> 1]
    BY <2>1 DEF PushIsAlone
  <2>3. Chunks[pusher.file] \in Nat \ {0}
    BY <1>3, ChunkFacts DEF File
  <2>4. chunk = 1 /\ reader'["server"] = [file |-> pusher.file, at |-> 2]
    BY <1>5, <2>2, <2>3
  <2>5. ~callback'["server"] /\ functors'["server"] = <<>> /\ unsent'["server"] = 0
    BY <1>7, <2>1 DEF PushIsAlone
  <2>. QED BY <1>6, <2>4, <2>5 DEF Resting, PushIsAlone
<1>9. Pushing("server")'
  BY <1>6 DEF Pushing
<1>10. Undisturbed("server")'
  BY <1>7, <1>8 DEF Undisturbed
<1>11. InOrder("server")'
  <2>1. ~disturbed["server"] => ~Buffered("server")' /\ ~Queued("server")'
    BY <1>8 DEF Resting, Buffered, Queued
  <2>. QED BY <1>1, <1>2, <1>7, <2>1 DEF InOrder, Open
<1>12. InSequence("server")'
  BY <1>1, <1>2, <1>7, <1>9 DEF InSequence, Reliable, ReadsOn
<1>13. Queue("server")'
  <2>1. reader'["server"] # NoFile
    BY <1>4, <1>5 DEF NoFile
  <2>. QED BY <1>2, <1>3, <1>7, <2>1 DEF Queue
<1>. QED BY <1>5, <1>7, <1>10, <1>11, <1>12, <1>13 DEF EndInv

(* Then the callback is set.                                               *)
LEMMA PushSetStep ==
  ASSUME TInv, Goes, PushSet
  PROVE  /\ EndInv("server")'
         /\ callback' \in [End -> BOOLEAN] /\ callback'["client"] = callback["client"]
         /\ pusher' \in Pusher
<1> USE DEF Goes
<1>1. "server" \in End /\ Peer("server") = "client" /\ "client" \in End
  BY DEF End, Peer
<1>2. Undisturbed("server") /\ InOrder("server") /\ InSequence("server") /\ Queue("server")
  BY <1>1 DEF TInv, EndInv
<1>3. pusher \in [at : {"read", "set"}, file : Testcase, chunk : Nat] /\ Pushing("server")
  BY DEF Pushing, PushSet, TInv, TransferTypeOK, Pusher
<1>4. /\ pusher' = [pusher EXCEPT !.at = "set"]
      /\ callback' = [callback EXCEPT !["server"] = TRUE]
      /\ UNCHANGED <<ownLoop, reader, functors, wire, unsent, recv, fault, disturbed>>
  BY DEF PushSet
<1>5. /\ callback' \in [End -> BOOLEAN] /\ callback'["client"] = callback["client"]
      /\ callback'["server"] = TRUE
  BY <1>1, <1>4 DEF TInv, TransferTypeOK
<1>6. /\ pusher' \in Pusher /\ Pushing("server")' /\ pusher'.at = "set"
      /\ pusher'.file = pusher.file /\ pusher'.chunk = pusher.chunk
  BY <1>3, <1>4 DEF Pusher, Pushing
<1>7. ~ownLoop
  BY <1>2, <1>3 DEF Queue
<1>8. ~disturbed["server"] => PushIsAlone'
  <2> SUFFICES ASSUME ~disturbed["server"] PROVE PushIsAlone'
    OBVIOUS
  <2>1. PushIsAlone /\ pusher.at = "read"
    BY <1>2, <1>3 DEF Undisturbed, PushSet
  <2>. QED BY <1>4, <1>5, <1>6, <2>1 DEF PushIsAlone
<1>9. Undisturbed("server")'
  BY <1>4, <1>6, <1>8 DEF Undisturbed
<1>10. InOrder("server")'
  <2>1. ~disturbed["server"] => ~Buffered("server")' /\ ~Queued("server")'
    <3> SUFFICES ASSUME ~disturbed["server"]
                 PROVE  ~Buffered("server")' /\ ~Queued("server")'
      OBVIOUS
    <3>1. functors'["server"] = <<>> /\ unsent'["server"] = 0
      BY <1>8 DEF PushIsAlone
    <3>2. <<>> # <<Complete>>
      OBVIOUS
    <3>3. ~Queued("server")'
      BY <3>1, <3>2 DEF Queued
    <3>4. ~Buffered("server")'
      BY <3>1 DEF Buffered
    <3>. QED BY <3>3, <3>4
  <2>. QED BY <1>1, <1>2, <1>4, <2>1 DEF InOrder, Open
<1>11. InSequence("server")'
  BY <1>1, <1>2, <1>4, <1>6 DEF InSequence, Reliable, ReadsOn
<1>12. Queue("server")'
  BY <1>2, <1>3, <1>4, <1>7 DEF Queue
<1>. QED BY <1>5, <1>6, <1>9, <1>10, <1>11, <1>12 DEF EndInv

(* Then the chunk is posted.                                               *)
LEMMA PushPostStep ==
  ASSUME TInv, Goes, PushPost
  PROVE  /\ EndInv("server")'
         /\ functors' \in [End -> Seq(Functor)] /\ functors'["client"] = functors["client"]
         /\ pusher' \in Pusher
<1> USE DEF Goes
<1> DEFINE m == First(pusher.file, Content(pusher.file, pusher.chunk))
<1>1. "server" \in End /\ Peer("server") = "client" /\ "client" \in End
  BY DEF End, Peer
<1>2. Undisturbed("server") /\ InOrder("server") /\ InSequence("server") /\ Queue("server")
  BY <1>1 DEF TInv, EndInv
<1>3. Pushing("server") /\ pusher.file \in Testcase /\ pusher.chunk \in Nat
  BY DEF Pushing, PushPost, TInv, TransferTypeOK, Pusher
<1>4. m \in Functor /\ m # Complete
  <2>1. m \in FirstMsg
    BY <1>3, ChunkFacts DEF File
  <2>. QED BY <2>1, FunctorFacts
<1>5. /\ functors' = [functors EXCEPT !["server"] = Append(@, m)]
      /\ pusher' = [at |-> "idle"] /\ pusher.at = "set"
      /\ UNCHANGED <<ownLoop, reader, callback, wire, unsent, recv, fault, disturbed>>
  BY DEF PushPost
<1> HIDE DEF m
<1>6. /\ functors["server"] \in Seq(Functor) /\ Append(functors["server"], m) \in Seq(Functor)
      /\ functors \in [End -> Seq(Functor)]
  BY <1>1, <1>4, EndTypes DEF TInv, TransferTypeOK
<1>7. /\ functors' \in [End -> Seq(Functor)] /\ functors'["client"] = functors["client"]
      /\ functors'["server"] = Append(functors["server"], m)
      /\ pusher' \in Pusher /\ ~Pushing("server")'
  BY <1>1, <1>5, <1>6 DEF Pusher, Pushing
<1>8. ~ownLoop
  BY <1>2, <1>3 DEF Queue
<1>9. ~disturbed["server"] => Posted("server")'
  <2> SUFFICES ASSUME ~disturbed["server"] PROVE Posted("server")'
    OBVIOUS
  <2>1. PushIsAlone
    BY <1>2, <1>3 DEF Undisturbed
  <2>2. /\ callback["server"] /\ unsent["server"] = 0 /\ functors["server"] = <<>>
        /\ reader["server"] = [file |-> pusher.file, at |-> 2] /\ pusher.chunk = 1
    BY <1>5, <2>1 DEF PushIsAlone
  <2>3. Append(functors["server"], m) = <<First(pusher.file, Content(pusher.file, 1))>>
    BY <2>2 DEF m
  <2>. QED BY <1>3, <1>5, <1>7, <1>8, <2>2, <2>3 DEF Posted
<1>10. Undisturbed("server")'
  BY <1>5, <1>7, <1>9 DEF Undisturbed
<1>11. InOrder("server")'
  <2>1. ~disturbed["server"] => ~Buffered("server")' /\ ~Queued("server")'
    <3> SUFFICES ASSUME ~disturbed["server"]
                 PROVE  ~Buffered("server")' /\ ~Queued("server")'
      OBVIOUS
    <3>1. PICK f \in Testcase : functors'["server"] = <<First(f, Content(f, 1))>>
      BY <1>9 DEF Posted
    <3>2. First(f, Content(f, 1)) # Complete
      BY DEF First, Complete
    <3>. QED BY <3>1, <3>2 DEF Buffered, Queued
  <2>. QED BY <1>1, <1>2, <1>5, <2>1 DEF InOrder, Open
<1>12. InSequence("server")'
  BY <1>1, <1>2, <1>5, <1>8, <1>9 DEF InSequence, Reliable, ReadsOn
<1>13. Queue("server")'
  <2>1. reader["server"] # NoFile
    BY <1>2, <1>3 DEF Queue
  <2>. QED BY <1>5, <1>7, <1>8, <2>1 DEF Queue
<1>. QED BY <1>7, <1>10, <1>11, <1>12, <1>13 DEF EndInv

(* The functor that another loop left is run.                              *)
LEMMA PostedEffect ==
  ASSUME TInv, PostedSend
  PROVE  LET f == Head(functors["server"])
         IN  /\ functors["server"] # <<>> /\ f \in Functor /\ f \in Msg /\ f # Complete
             /\ wire' \in [End -> Seq(Msg)] /\ unsent' \in [End -> Nat]
             /\ functors' \in [End -> Seq(Functor)]
             /\ Sent("server", f, Tail(functors["server"]), callback["server"])
             /\ Same("client")
<1>1. /\ "server" \in End /\ functors["server"] \in Seq(Functor) /\ callback["server"] \in BOOLEAN
      /\ wire \in [End -> Seq(Msg)] /\ TransferTypeOK
      /\ functors["server"] # <<>> /\ Head(functors["server"]) # Complete
  BY EndTypes DEF TInv, End, PostedSend, TransferTypeOK
<1>2. /\ Head(functors["server"]) \in Functor /\ Tail(functors["server"]) \in Seq(Functor)
  BY <1>1
<1>3. Head(functors["server"]) \in Msg
  BY <1>1, <1>2, FunctorFacts, MessageFacts
<1>4. PICK e \in End, m \in Msg, w \in [End -> Seq(Msg)], queue \in Seq(Functor), set \in BOOLEAN :
        /\ e = "server" /\ m = Head(functors["server"]) /\ w = wire
        /\ queue = Tail(functors["server"]) /\ set = callback["server"]
  BY <1>1, <1>2, <1>3
<1>5. SendInLoop(e, m, w, queue, set) /\ w[e] = wire[e]
  BY <1>4 DEF PostedSend, SendInLoop
<1>6. /\ wire' \in [End -> Seq(Msg)] /\ unsent' \in [End -> Nat]
      /\ functors' \in [End -> Seq(Functor)]
      /\ Sent(e, m, queue, set)
      /\ \A p \in End \ {e} :
           wire'[p] = w[p] /\ unsent'[p] = unsent[p] /\ functors'[p] = functors[p]
  <2>1. TransferTypeOK
    BY <1>1
  <2>. QED BY <1>5, <2>1, SendEffect
<1>7. Sent("server", Head(functors["server"]), Tail(functors["server"]), callback["server"])
  BY <1>4, <1>6 DEF Sent
<1>8. Same("client")
  BY <1>4, <1>6 DEF Same, Keeps, PostedSend, End
<1>. QED BY <1>1, <1>2, <1>3, <1>6, <1>7, <1>8

(* A command, or the first chunk, leaves the queue.                        *)
LEMMA PostedSendStep ==
  ASSUME TInv, Goes, PostedSend
  PROVE  EndInv("server")'
<1> USE DEF Goes
<1> DEFINE m == Head(functors["server"])
           rest == Tail(functors["server"])
           w == wire["server"]
           got == recv["client"].got
<1>1. "server" \in End /\ Peer("server") = "client"
  BY DEF End, Peer
<1>2. Undisturbed("server") /\ InOrder("server") /\ InSequence("server") /\ Queue("server")
  BY <1>1 DEF TInv, EndInv
<1>3. /\ functors["server"] # <<>> /\ m \in Functor /\ m \in Msg /\ m # Complete
      /\ Sent("server", m, rest, callback["server"])
  BY PostedEffect
<1>4. /\ functors["server"] \in Seq(Functor) /\ w \in Seq(Msg) /\ unsent["server"] \in Nat
      /\ callback["server"] \in BOOLEAN
  BY <1>1, EndTypes DEF TInv
<1>5. /\ rest \in Seq(Functor) /\ Len(rest) = Len(functors["server"]) - 1
      /\ \A i \in 1..Len(rest) : rest[i] = functors["server"][i + 1]
                                 /\ i + 1 \in 1..Len(functors["server"])
      /\ m = functors["server"][1] /\ 1 \in 1..Len(functors["server"])
  BY <1>3, <1>4, TailFacts
<1>6. /\ UNCHANGED <<ownLoop, reader, callback, recv, pusher, fault, disturbed>>
      /\ wire'["server"] = Append(w, m)
  BY <1>3 DEF PostedSend, Sent
<1>7. ~ownLoop
  BY <1>2, <1>3, <1>5 DEF Queue
<1> HIDE DEF m, rest, w, got
<1>8. ~disturbed["server"] =>
        /\ ~Pushing("server")
        /\ \/ Resting("server") /\ m \in Plain /\ Resting("server")'
           \/ /\ Posted("server")
              /\ \E f \in Testcase : /\ m = First(f, Content(f, 1))
                                     /\ reader["server"] = [file |-> f, at |-> 2]
              /\ Buffered("server")' \/ Queued("server")'
  <2> SUFFICES ASSUME ~disturbed["server"]
               PROVE  /\ ~Pushing("server")
                      /\ \/ Resting("server") /\ m \in Plain /\ Resting("server")'
                         \/ /\ Posted("server")
                            /\ \E f \in Testcase : /\ m = First(f, Content(f, 1))
                                                   /\ reader["server"] = [file |-> f, at |-> 2]
                            /\ Buffered("server")' \/ Queued("server")'
    OBVIOUS
  <2>1. ~Pushing("server")
    BY <1>2, <1>3 DEF Undisturbed, PushIsAlone
  <2>2. Resting("server") \/ Posted("server")
    BY <1>2, <1>3, <1>5, <2>1 DEF Undisturbed, Buffered, Queued
  <2>3. CASE Resting("server")
    <3>1. m \in Plain
      BY <1>5, <2>3, FunctorFacts DEF Resting
    <3>2. functors'["server"] = rest /\ ~callback'["server"]
      BY <1>3, <1>6, <2>3 DEF Sent, Resting
    <3>3. Resting("server")'
      BY <1>5, <2>3, <3>2 DEF Resting
    <3>. QED BY <2>1, <2>3, <3>1, <3>3
  <2>4. CASE Posted("server")
    <3>1. PICK f \in Testcase : /\ functors["server"] = <<First(f, Content(f, 1))>>
                                /\ reader["server"] = [file |-> f, at |-> 2]
      BY <2>4 DEF Posted
    <3>2. m = First(f, Content(f, 1)) /\ rest = <<>> /\ Append(rest, Complete) = <<Complete>>
      BY <3>1 DEF m, rest
    <3>3. callback["server"] /\ callback'["server"] /\ unsent["server"] = 0
      BY <1>6, <2>4 DEF Posted
    <3>4. \/ unsent'["server"] = unsent["server"] + 1 /\ functors'["server"] = rest
          \/ unsent'["server"] = 0 /\ functors'["server"] = Append(rest, Complete)
      BY <1>3, <3>3, Zenon DEF Sent
    <3>5. Buffered("server")' \/ Queued("server")'
      BY <3>2, <3>3, <3>4 DEF Buffered, Queued
    <3>. QED BY <2>1, <2>4, <3>1, <3>2, <3>5
  <2>. QED BY <2>2, <2>3, <2>4
<1>9. Undisturbed("server")'
  BY <1>6, <1>8 DEF Undisturbed, Pushing
<1>10. InOrder("server")'
  <2> SUFFICES ASSUME ~disturbed["server"], failures = 0, fault = "none"
               PROVE  /\ Orderly(Append(w, m), Open("server"))
                      /\ Buffered("server")' \/ Queued("server")' =>
                           OpenAtEnd(Append(w, m), Open("server"))
    BY <1>1, <1>6 DEF InOrder, Open
  <2>1. Orderly(w, Open("server"))
    BY <1>2 DEF InOrder, w
  <2>2. CASE m \in Plain /\ Resting("server")'
    <3>1. ~Buffered("server")' /\ ~Queued("server")'
      BY <2>2 DEF Resting, Buffered, Queued
    <3>. QED BY <1>4, <2>1, <2>2, <3>1, PlainAdded
  <2>3. ASSUME NEW f \in Testcase, m = First(f, Content(f, 1))
        PROVE  Orderly(Append(w, m), Open("server")) /\ OpenAtEnd(Append(w, m), Open("server"))
    <3>1. m \in FirstMsg
      BY <2>3, ChunkFacts DEF File
    <3>2. m.type = "File" /\ ~NeedsOpen(m)
      BY <3>1, MessageFacts DEF NeedsOpen
    <3>. QED BY <1>3, <1>4, <2>1, <3>2, OrderlyAppend, OpenAppendEnd
  <2>. QED BY <1>8, <2>2, <2>3
<1>11. InSequence("server")'
  <2> SUFFICES ASSUME Reliable("server")' PROVE InSequence("server")'
    BY DEF InSequence
  <2>1. Reliable("server") /\ ~disturbed["server"]
    BY <1>6, <1>7 DEF Reliable
  <2> SUFFICES ASSUME fault = "none"
               PROVE  Chain(Append(w, m), got) /\ ReadsOn("server")'
    BY <1>1, <1>2, <1>6, <2>1 DEF InSequence, got
  <2>2. Chain(w, got) /\ ReadsOn("server")
    BY <1>1, <1>2, <2>1 DEF InSequence, w, got
  <2>3. CASE m \in Plain /\ Resting("server")
    <3>1. Chain(Append(w, m), got)
      BY <1>4, <2>2, <2>3, PlainAdded
    <3>2. ~Posted("server") /\ ~Pushing("server")
      BY <1>8, <2>1, <2>3 DEF Resting, Posted
    <3>3. CASE reader["server"] = NoFile
      BY <1>6, <3>1, <3>3 DEF ReadsOn
    <3>4. ASSUME NEW b \in Chunk, IsLast(b, w, got, Len(w) + 1),
                 reader["server"] = [file |-> b.file, at |-> b.no + 1]
          PROVE  ReadsOn("server")'
      <4>1. IsLast(b, Append(w, m), got, Len(Append(w, m)) + 1)
        BY <1>4, <2>3, <3>4, PlainAdded
      <4>. QED BY <1>1, <1>6, <3>4, <4>1 DEF ReadsOn, got
    <3>. QED BY <1>1, <2>2, <3>1, <3>2, <3>3, <3>4 DEF ReadsOn, w, got
  <2>4. ASSUME NEW f \in Testcase, m = First(f, Content(f, 1)),
               reader["server"] = [file |-> f, at |-> 2]
        PROVE  Chain(Append(w, m), got) /\ ReadsOn("server")'
    <3> DEFINE b == Content(f, 1)
    <3>1. /\ m \in FirstMsg /\ m.block = b /\ m.size = Chunks[f] /\ f \in File
          /\ b \in Chunk /\ b.file = f /\ b.no = 1
      BY <2>4, ChunkFacts DEF File
    <3>2. m.type = "File" /\ m.first
      BY <3>1, MessageFacts
    <3>3. Chained(m, w, got, Len(w) + 1)
      BY <3>1, <3>2 DEF Chained
    <3> HIDE DEF b
    <3>4. Chain(Append(w, m), got)
      BY <1>3, <1>4, <2>2, <3>3, ChainAppend
    <3>5. IsLast(b, Append(w, m), got, Len(Append(w, m)) + 1)
      BY <1>3, <1>4, <3>1, <3>2, LastAppendEnd
    <3>6. reader'["server"] = [file |-> b.file, at |-> b.no + 1]
      BY <1>6, <2>4, <3>1
    <3>. QED BY <1>1, <1>6, <3>1, <3>4, <3>5, <3>6 DEF ReadsOn, got
  <2>. QED BY <1>8, <2>1, <2>3, <2>4
<1>12. Queue("server")'
  <2>1. \/ functors'["server"] = rest
        \/ callback["server"] /\ functors'["server"] = Append(rest, Complete)
    BY <1>3 DEF Sent
  <2>2. (\E i \in 1..Len(rest) : rest[i] = Complete) => UnderWay("server")
    BY <1>5 DEF UnderWay
  <2>3. UnderWay("server")' => UnderWay("server")
    BY <1>5, <1>6, <2>1, <2>2 DEF UnderWay
  <2>. QED BY <1>2, <1>6, <1>7, <2>3 DEF Queue, Pushing
<1>. QED BY <1>9, <1>10, <1>11, <1>12 DEF EndInv
-----------------------------------------------------------------------------
(* The other side receives the first message that e has sent: one that is  *)
(* no part of a file; a first chunk, whose file it can open or not; another *)
(* chunk, or END, with a FILE open; or one of these without.               *)
Receives(e) ==
  LET m == Head(wire[e])
      r == recv[Peer(e)]
      r2 == recv'[Peer(e)]
  IN  /\ fault = "none"
      /\ Keeps(e) /\ wire[e] # <<>> /\ wire'[e] = Tail(wire[e])
      /\ \/ m.type \notin {"File", "END"} /\ r2 = r
         \/ /\ m.type = "File" /\ m.first
            /\ r2 = [fp |-> "open", size |-> m.size, got |-> Written(<<>>, m.block)]
         \/ /\ m.type = "File" /\ m.first /\ failures' # 0
         \/ /\ m.type = "File" /\ ~m.first /\ r.fp = "open"
            /\ r2 = [fp |-> "open", size |-> r.size, got |-> Written(r.got, m.block)]
         \/ /\ m.type = "END" /\ r.fp = "open"
            /\ r2 = [fp |-> "closed", size |-> r.size, got |-> r.got]
         \/ NeedsOpen(m) /\ r.fp # "open" /\ r2 = r /\ fault' = Peer(e)

(* Without a FILE only after a disturbance.                                *)
LEMMA NoFileIsExplained ==
  ASSUME TInv, NEW e \in End, fault = "none", wire[e] # <<>>,
         NeedsOpen(Head(wire[e])), recv[Peer(e)].fp # "open"
  PROVE  disturbed[e] \/ failures > 0
<1>1. wire[e] \in Seq(Msg) /\ failures \in Nat
  BY EndTypes DEF TInv, TransferTypeOK
<1>2. ~disturbed[e] /\ failures = 0 => Orderly(wire[e], Open(e))
  BY DEF TInv, EndInv, InOrder
<1>3. ~Open(e)
  BY DEF Open
<1>4. Orderly(wire[e], Open(e)) => (NeedsOpen(Head(wire[e])) => Open(e))
  <2>1. PICK w \in Seq(Msg), o \in BOOLEAN : w = wire[e] /\ o = Open(e) /\ w # <<>>
    BY <1>1 DEF Open
  <2>2. Orderly(w, o) => (NeedsOpen(Head(w)) => o)
    <3>1. (Head(w).type # "END" /\ o => TRUE) /\ (Head(w).type = "File" => TRUE)
      OBVIOUS
    <3>. QED BY <2>1, <3>1, OrderlyTail
  <2>. QED BY <2>1, <2>2
<1>. QED BY <1>1, <1>2, <1>3, <1>4

(* The beginning of a file grows chunk by chunk.                           *)
LEMMA GotFirst ==
  ASSUME NEW r, NEW f \in File, NEW b, b = Content(f, 1),
         r = [fp |-> "open", size |-> Chunks[f], got |-> Written(<<>>, b)]
  PROVE  GotFile(r) /\ r.got # <<>> /\ r.got[Len(r.got)] = b
<1>1. b.no = 1 /\ b.file = f
  BY ChunkFacts
<1>2. Written(<<>>, b) = <<b>>
  BY <1>1 DEF Written
<1>. QED BY <1>1, <1>2 DEF GotFile

(* The next chunk is what the file has next.                               *)
LEMMA GotNext ==
  ASSUME NEW r, NEW r2, NEW b, r.got \in Seq(Chunk), GotFile(r), b = After(r.got[Len(r.got)]),
         r2.size = r.size, r2.got = Written(r.got, b)
  PROVE  GotFile(r2) /\ r2.got # <<>> /\ r2.got[Len(r2.got)] = b
<1> DEFINE g == r.got
           n == Len(g)
           f == g[1].file
<1>1. /\ g \in Seq(Chunk) /\ n \in Nat \ {0} /\ n \in 1..n /\ 1 \in 1..n
      /\ r.size = Chunks[f]
      /\ \A i \in 1..n : g[i] = Content(f, i)
  BY DEF GotFile
<1> HIDE DEF g, n
<1>2. f \in File
  <2>1. g[1] \in Chunk
    BY <1>1 DEF n
  <2>. QED BY <2>1 DEF Chunk
<1>3. g[n].file = f /\ g[n].no = n
  BY <1>1, <1>2, ChunkFacts
<1> HIDE DEF f
<1>4. b = Content(f, n + 1) /\ b \in Chunk /\ b.no = n + 1
  BY <1>1, <1>2, <1>3, ChunkFacts DEF After, g, n
<1>5. r2.got = Append(g, b)
  BY <1>1, <1>4 DEF Written, g
<1>6. /\ Len(r2.got) = n + 1 /\ r2.got[n + 1] = b
      /\ \A i \in 1..n : r2.got[i] = g[i]
      /\ r2.got # <<>> /\ r2.got[1] = g[1]
  BY <1>1, <1>4, <1>5, SMTT(30) DEF n
<1>7. \A i \in 1..(n + 1) : r2.got[i] = Content(f, i)
  BY <1>1, <1>4, <1>6
<1>. QED BY <1>1, <1>6, <1>7 DEF GotFile, f

(* The receiver goes on from chunk to chunk.                               *)
LEMMA ReceivesStep ==
  ASSUME TInv, Goes, NEW e \in End, Receives(e)
  PROVE  EndInv(e)'
<1> USE DEF Goes
<1> DEFINE w == wire[e]
           m == Head(w)
           r == recv[Peer(e)]
           r2 == recv'[Peer(e)]
<1>1. Undisturbed(e) /\ InOrder(e) /\ InSequence(e) /\ Queue(e)
  BY DEF TInv, EndInv
<1>2. /\ w \in Seq(Msg) /\ w # <<>> /\ wire'[e] = Tail(w) /\ r.got \in Seq(Chunk)
      /\ fault = "none"
  BY EndTypes DEF TInv, Receives
<1>3. /\ Keeps(e)
      /\ disturbed[e] => disturbed'[e]
  BY DEF Receives
<1>4. \/ m.type \notin {"File", "END"} /\ r2 = r
      \/ m.type = "File" /\ m.first /\ r2 = [fp |-> "open", size |-> m.size, got |-> Written(<<>>, m.block)]
      \/ m.type = "File" /\ m.first /\ failures' # 0
      \/ /\ m.type = "File" /\ ~m.first /\ r.fp = "open"
         /\ r2 = [fp |-> "open", size |-> r.size, got |-> Written(r.got, m.block)]
      \/ m.type = "END" /\ r.fp = "open" /\ r2 = [fp |-> "closed", size |-> r.size, got |-> r.got]
      \/ NeedsOpen(m) /\ r2 = r /\ fault' # "none"
  BY PeerFacts DEF Receives, End
<1> HIDE DEF m, w, r, r2
<1>5. /\ Resting(e)' = Resting(e) /\ Buffered(e)' = Buffered(e) /\ Queued(e)' = Queued(e)
      /\ Posted(e)' = Posted(e) /\ Pushing(e)' = Pushing(e) /\ UnderWay(e)' = UnderWay(e)
      /\ Pushing(e) => PushIsAlone' = PushIsAlone
  BY <1>3 DEF Keeps, Resting, Buffered, Queued, Posted, Pushing, UnderWay, PushIsAlone
<1>6. Undisturbed(e)'
  BY <1>1, <1>3, <1>5 DEF Undisturbed
<1>7. Queue(e)'
  BY <1>1, <1>3, <1>5 DEF Queue, Keeps
<1>8. InOrder(e)'
  <2> SUFFICES ASSUME ~disturbed'[e], failures' = 0, fault' = "none"
               PROVE  /\ Orderly(Tail(w), Open(e)')
                      /\ Buffered(e)' \/ Queued(e)' => OpenAtEnd(Tail(w), Open(e)')
    BY <1>2 DEF InOrder
  <2>1. /\ Orderly(w, Open(e))
        /\ Buffered(e)' \/ Queued(e)' => OpenAtEnd(w, Open(e))
    BY <1>1, <1>2, <1>3, <1>5 DEF InOrder, w
  <2>2. PICK o \in BOOLEAN, o2 \in BOOLEAN : o = Open(e) /\ o2 = Open(e)'
    BY DEF Open
  <2>3. o = (r.fp = "open") /\ o2 = (r2.fp = "open")
    BY <2>2 DEF Open, r, r2
  <2>4. (m.type # "END" /\ o => o2) /\ (m.type = "File" => o2)
    <3>1. CASE m.type \notin {"File", "END"} /\ r2 = r
      BY <2>3, <3>1
    <3>2. CASE m.type = "File" /\ r2.fp = "open"
      BY <2>3, <3>2
    <3>3. CASE m.type = "END"
      BY <3>3
    <3>. QED BY <1>4, <2>1, <3>1, <3>2, <3>3
  <2>5. Orderly(w, o) => Orderly(Tail(w), o2)
    BY <1>2, <2>4, OrderlyTail DEF m
  <2>6. Orderly(w, o) /\ OpenAtEnd(w, o) => OpenAtEnd(Tail(w), o2)
    BY <1>2, <2>4, OrderlyTail DEF m
  <2>. QED BY <2>1, <2>2, <2>5, <2>6
<1>9. InSequence(e)'
  <2> SUFFICES ASSUME Reliable(e)'
               PROVE  /\ r2.fp # "none" => GotFile(r2)
                      /\ fault' = "none" =>
                           /\ r2.fp = "none" => r2.got = <<>>
                           /\ Chain(Tail(w), r2.got)
                           /\ ReadsOn(e)'
    BY <1>2 DEF InSequence, r2
  <2>1. Reliable(e) /\ failures' = 0
    BY <1>3 DEF Reliable
  <2>2. /\ r.fp # "none" => GotFile(r)
        /\ r.fp = "none" => r.got = <<>>
        /\ Chain(w, r.got)
        /\ ReadsOn(e)
    BY <1>1, <1>2, <2>1 DEF InSequence, r, w
  <2>3. ASSUME m.type = "File" => r2.got # <<>> /\ r2.got[Len(r2.got)] = m.block,
               m.type # "File" => r2.got = r.got
        PROVE  Chain(Tail(w), r2.got) /\ ReadsOn(e)'
    <3>1. /\ Chain(Tail(w), r2.got)
          /\ \A b : IsLast(b, w, r.got, Len(w) + 1) =>
                      IsLast(b, Tail(w), r2.got, Len(Tail(w)) + 1)
      BY <1>2, <2>2, <2>3, ChainTail DEF m
    <3>. QED BY <1>2, <1>3, <1>5, <2>2, <3>1 DEF ReadsOn, Keeps, w, r, r2
  <2>4. CASE m.type \notin {"File", "END"} /\ r2 = r
    BY <2>2, <2>3, <2>4
  <2>5. CASE m.type = "File" /\ m.first
             /\ r2 = [fp |-> "open", size |-> m.size, got |-> Written(<<>>, m.block)]
    <3>1. PICK f \in File : m.block = Content(f, 1) /\ m.size = Chunks[f]
      BY <1>2, <2>2, <2>5, ChainHead DEF m
    <3>2. GotFile(r2) /\ r2.got # <<>> /\ r2.got[Len(r2.got)] = m.block
      BY <2>5, <3>1, GotFirst
    <3>. QED BY <2>3, <2>5, <3>2
  <2>6. CASE m.type = "File" /\ ~m.first /\ r.fp = "open"
             /\ r2 = [fp |-> "open", size |-> r.size, got |-> Written(r.got, m.block)]
    <3>1. m.block = After(r.got[Len(r.got)])
      BY <1>2, <2>2, <2>6, ChainHead DEF m
    <3>2. PICK x, x2, b : x = r /\ x2 = r2 /\ b = m.block
      OBVIOUS
    <3>3. /\ x.got \in Seq(Chunk) /\ GotFile(x) /\ b = After(x.got[Len(x.got)])
          /\ x2.size = x.size /\ x2.got = Written(x.got, b)
      BY <1>2, <2>2, <2>6, <3>1, <3>2
    <3>4. GotFile(x2) /\ x2.got # <<>> /\ x2.got[Len(x2.got)] = b
      BY <3>3, GotNext
    <3>. QED BY <2>3, <2>6, <3>2, <3>4
  <2>7. CASE m.type = "END" /\ r.fp = "open"
             /\ r2 = [fp |-> "closed", size |-> r.size, got |-> r.got]
    <3>1. GotFile(r2)
      BY <2>2, <2>7 DEF GotFile
    <3>. QED BY <2>3, <2>7, <3>1
  <2>8. CASE r2 = r /\ fault' # "none"
    BY <2>2, <2>8
  <2>. QED BY <1>4, <2>1, <2>4, <2>5, <2>6, <2>7, <2>8
<1>. QED BY <1>6, <1>7, <1>8, <1>9 DEF EndInv
-----------------------------------------------------------------------------
(* The invariant holds at first.                                           *)
LEMMA TInitial ==
  ASSUME Init
  PROVE  TInv
<1> USE DEF Init, TransferInit
<1>1. TransferTypeOK
  BY DEF TransferTypeOK, NoFile, Pusher, End
<1>2. FilesOpenWhenUsed
  BY DEF FilesOpenWhenUsed
<1>3. ASSUME NEW e \in End PROVE EndInv(e)
  <2>1. Peer(e) \in End
    BY PeerFacts
  <2>2. Undisturbed(e)
    BY DEF Undisturbed, Resting, Pushing
  <2>3. InOrder(e)
    BY DEF InOrder, Orderly, Buffered, Queued
  <2>4. InSequence(e)
    BY <2>1 DEF InSequence, Chain, ReadsOn
  <2>5. Queue(e)
    BY DEF Queue, UnderWay, Pushing
  <2>. QED BY <2>2, <2>3, <2>4, <2>5 DEF EndInv
<1>. QED BY <1>1, <1>2, <1>3 DEF TInv

(* The parts of the invariant after a step.                                *)
LEMMA Together ==
  ASSUME TInv, Goes, TransferTypeOK', EndInv("server")', EndInv("client")',
         fault' = "none" \/ disturbed'[Peer(fault')] \/ failures' # 0
  PROVE  TInv'
<1>1. FilesOpenWhenUsed'
  BY DEF TransferTypeOK, FilesOpenWhenUsed
<1>. QED BY <1>1 DEF TInv, End

(* The history only grows.                                                 *)
LEMMA DisturbFacts ==
  ASSUME TransferTypeOK, NEW e \in End, Disturb(e)
  PROVE  /\ disturbed' \in [End -> BOOLEAN]
         /\ \A p \in End : disturbed[p] => disturbed'[p]
         /\ UnderWay(e) => disturbed'[e]
<1>1. disturbed \in [End -> BOOLEAN] /\ UnderWay(e) \in BOOLEAN
  BY DEF TransferTypeOK, UnderWay
<1>. QED BY <1>1 DEF Disturb

(* A message that has nothing to do with the transfer is sent.             *)
LEMMA PlainSent ==
  ASSUME TransferTypeOK, NEW e \in End, NEW m \in Plain, NEW w \in [End -> Seq(Msg)],
         w[e] = wire[e], Send(e, m, w), ~Pushing(e),
         reader' = reader, callback' = callback, pusher' = pusher,
         recv'[Peer(e)] = recv[Peer(e)]
  PROVE  /\ wire' \in [End -> Seq(Msg)] /\ unsent' \in [End -> Nat]
         /\ functors' \in [End -> Seq(Functor)] /\ disturbed' \in [End -> BOOLEAN]
         /\ \A p \in End : disturbed[p] => disturbed'[p]
         /\ SendsPlain(e)
         /\ \A p \in End \ {e} : Keeps(p) /\ wire'[p] = w[p]
<1>1. m \in Msg
  BY MessageFacts
<1>2. PICK queue \in Seq(Functor), set \in BOOLEAN : queue = functors[e] /\ set = callback[e]
  BY EndTypes
<1>3. SendInLoop(e, m, w, queue, set)
  BY <1>2 DEF Send, SendInLoop
<1>4. /\ wire' \in [End -> Seq(Msg)] /\ unsent' \in [End -> Nat]
      /\ functors' \in [End -> Seq(Functor)]
      /\ Sent(e, m, queue, set)
      /\ \A p \in End \ {e} :
           wire'[p] = w[p] /\ unsent'[p] = unsent[p] /\ functors'[p] = functors[p]
  BY <1>1, <1>3, SendEffect
<1>5. /\ disturbed' \in [End -> BOOLEAN] /\ \A p \in End : disturbed[p] => disturbed'[p]
      /\ UnderWay(e) => disturbed'[e]
  BY DisturbFacts DEF Send
<1>6. Sent(e, m, functors[e], callback[e])
  BY <1>2, <1>4 DEF Sent
<1>7. ~Pushing(e)'
  BY DEF Pushing
<1>8. SendsPlain(e)
  BY <1>5, <1>6, <1>7 DEF SendsPlain
<1>9. \A p \in End \ {e} : Keeps(p)
  BY <1>4 DEF Keeps
<1>. QED BY <1>4, <1>5, <1>8, <1>9

(* A file is sent in the connection's own loop.                            *)
LEMMA StartSent ==
  ASSUME TransferTypeOK, NEW e \in End, NEW f \in File, NEW w \in [End -> Seq(Msg)],
         w[e] = wire[e], StartTransfer(e, f, w), ~Pushing(e), e = "client" \/ ownLoop,
         pusher' = pusher, recv'[Peer(e)] = recv[Peer(e)]
  PROVE  /\ wire' \in [End -> Seq(Msg)] /\ unsent' \in [End -> Nat]
         /\ functors' \in [End -> Seq(Functor)] /\ disturbed' \in [End -> BOOLEAN]
         /\ reader' \in [End -> {NoFile} \cup [file : File, at : Nat \ {0}]]
         /\ callback' \in [End -> BOOLEAN]
         /\ \A p \in End : disturbed[p] => disturbed'[p]
         /\ Starts(e)
         /\ \A p \in End \ {e} : Keeps(p) /\ wire'[p] = w[p]
<1> DEFINE m == First(f, Content(f, 1))
<1>1. m \in Msg
  BY ChunkFacts, MessageFacts
<1>2. PICK queue \in Seq(Functor) : queue = functors[e]
  BY EndTypes
<1>3. SendInLoop(e, m, w, queue, TRUE)
  BY <1>2 DEF StartTransfer, SendInLoop
<1> HIDE DEF m
<1>4. /\ wire' \in [End -> Seq(Msg)] /\ unsent' \in [End -> Nat]
      /\ functors' \in [End -> Seq(Functor)]
      /\ Sent(e, m, queue, TRUE)
      /\ \A p \in End \ {e} :
           wire'[p] = w[p] /\ unsent'[p] = unsent[p] /\ functors'[p] = functors[p]
  BY <1>1, <1>3, SendEffect
<1>5. /\ disturbed' \in [End -> BOOLEAN] /\ \A p \in End : disturbed[p] => disturbed'[p]
      /\ UnderWay(e) => disturbed'[e]
  BY DisturbFacts DEF StartTransfer
<1>6. Sent(e, First(f, Content(f, 1)), functors[e], TRUE)
  BY <1>2, <1>4 DEF Sent, m
<1>7. ~Pushing(e)'
  BY DEF Pushing
<1>8. /\ reader \in [End -> {NoFile} \cup [file : File, at : Nat \ {0}]]
      /\ callback \in [End -> BOOLEAN]
      /\ [file |-> f, at |-> 2] \in [file : File, at : Nat \ {0}]
  <2>1. /\ reader \in [End -> {NoFile} \cup [file : File, at : Nat \ {0}]]
        /\ callback \in [End -> BOOLEAN]
    BY DEF TransferTypeOK
  <2>2. [file |-> f, at |-> 2] \in [file : File, at : Nat \ {0}]
    OBVIOUS
  <2> QED BY <2>1, <2>2
<1>9. /\ reader' = [reader EXCEPT ![e] = [file |-> f, at |-> 2]]
      /\ callback' = [callback EXCEPT ![e] = TRUE]
  BY DEF StartTransfer
<1>10. /\ reader' \in [End -> {NoFile} \cup [file : File, at : Nat \ {0}]]
       /\ callback' \in [End -> BOOLEAN]
       /\ reader'[e] = [file |-> f, at |-> 2] /\ callback'[e]
       /\ \A p \in End \ {e} : reader'[p] = reader[p] /\ callback'[p] = callback[p]
  BY <1>8, <1>9
<1>11. Starts(e)
  BY <1>5, <1>6, <1>7, <1>10 DEF Starts
<1>12. \A p \in End \ {e} : Keeps(p)
  BY <1>4, <1>10 DEF Keeps
<1>. QED BY <1>4, <1>5, <1>10, <1>11, <1>12
-----------------------------------------------------------------------------
(* The steps of the server.                                                *)
LEMMA SendCommandPreserves ==
  ASSUME TInv, NEW kind \in Kinds, SendCommand(kind), fault = "none", UNCHANGED failures
  PROVE  TInv'
<1>1. TransferTypeOK /\ "server" \in End /\ "client" \in End
      /\ Peer("server") = "client" /\ Peer("client") = "server"
  BY DEF TInv, End, Peer
<1>2. /\ UNCHANGED <<link, ownLoop, reader, callback, recv, pusher, fault>>
      /\ pusher.at = "idle"
  BY DEF SendCommand
<1>3. CommandMsg(kind) \in Plain /\ CommandMsg(kind) \in CommandMsgs /\ CommandMsg(kind) \in Functor
  BY FunctorFacts
<1>4. CASE ownLoop
  <2>1. PICK w \in [End -> Seq(Msg)], m \in Plain : w = wire /\ m = CommandMsg(kind)
    BY <1>1, <1>3 DEF TransferTypeOK
  <2>2. Send("server", m, w)
    BY <1>4, <2>1 DEF SendCommand, Send, SendInLoop
  <2>3. ~Pushing("server")
    BY <1>2 DEF Pushing
  <2>4. /\ wire' \in [End -> Seq(Msg)] /\ unsent' \in [End -> Nat]
        /\ functors' \in [End -> Seq(Functor)] /\ disturbed' \in [End -> BOOLEAN]
        /\ \A p \in End : disturbed[p] => disturbed'[p]
        /\ SendsPlain("server")
        /\ \A p \in End \ {"server"} : Keeps(p) /\ wire'[p] = w[p]
    BY <1>1, <1>2, <2>1, <2>2, <2>3, PlainSent
  <2>5. TransferTypeOK'
    BY <1>1, <1>2, <2>4 DEF TransferTypeOK
  <2>6. Goes
    BY <1>2, <2>4 DEF Goes
  <2>7. Same("client")
    BY <1>1, <1>2, <2>1, <2>4 DEF Same
  <2>8. EndInv("server")' /\ EndInv("client")'
    BY <1>1, <2>4, <2>6, <2>7, SendsPlainStep, SameStep
  <2>. QED BY <1>2, <2>5, <2>6, <2>8, Together
<1>5. CASE ~ownLoop
  <2>1. /\ functors' = [functors EXCEPT !["server"] = Append(@, CommandMsg(kind))]
        /\ Disturb("server") /\ UNCHANGED <<wire, unsent>>
    BY <1>5 DEF SendCommand
  <2>2. /\ disturbed' \in [End -> BOOLEAN] /\ \A p \in End : disturbed[p] => disturbed'[p]
        /\ UnderWay("server") => disturbed'["server"]
    BY <1>1, <2>1, DisturbFacts
  <2>3. functors \in [End -> Seq(Functor)]
        /\ Append(functors["server"], CommandMsg(kind)) \in Seq(Functor)
    BY <1>1, <1>3 DEF TransferTypeOK
  <2>4. /\ functors' \in [End -> Seq(Functor)] /\ functors'["client"] = functors["client"]
        /\ functors'["server"] = Append(functors["server"], CommandMsg(kind))
    BY <1>1, <2>1, <2>3
  <2>5. TransferTypeOK'
    BY <1>1, <1>2, <2>1, <2>2, <2>4 DEF TransferTypeOK
  <2>6. Goes
    BY <1>2, <2>2 DEF Goes
  <2>7. Same("client")
    BY <1>1, <1>2, <2>1, <2>4 DEF Same, Keeps
  <2>8. QueuesPlain
    BY <1>2, <1>3, <1>5, <2>1, <2>2, <2>4 DEF QueuesPlain
  <2>9. EndInv("server")' /\ EndInv("client")'
    BY <1>1, <2>6, <2>7, <2>8, QueuesPlainStep, SameStep
  <2>. QED BY <1>2, <2>5, <2>6, <2>9, Together
<1>. QED BY <1>4, <1>5

(* A push in the own loop.                                                 *)
LEMMA PushPreserves ==
  ASSUME TInv, NEW t \in Testcase, Push(t), fault = "none", UNCHANGED failures
  PROVE  TInv'
<1>1. TransferTypeOK /\ "server" \in End /\ "client" \in End
      /\ Peer("server") = "client" /\ Peer("client") = "server"
  BY DEF TInv, End, Peer
<1>2. UNCHANGED <<link, ownLoop, recv, pusher, fault>> /\ ownLoop /\ ~Pushing("server")
  BY DEF Push, Pushing
<1>3. PICK w \in [End -> Seq(Msg)], f \in File : w = wire /\ f = t
  BY <1>1 DEF TransferTypeOK, File
<1>4. StartTransfer("server", f, w)
  BY <1>3 DEF Push, StartTransfer, SendInLoop
<1>5. /\ wire' \in [End -> Seq(Msg)] /\ unsent' \in [End -> Nat]
      /\ functors' \in [End -> Seq(Functor)] /\ disturbed' \in [End -> BOOLEAN]
      /\ reader' \in [End -> {NoFile} \cup [file : File, at : Nat \ {0}]]
      /\ callback' \in [End -> BOOLEAN]
      /\ \A p \in End : disturbed[p] => disturbed'[p]
      /\ Starts("server")
      /\ \A p \in End \ {"server"} : Keeps(p) /\ wire'[p] = w[p]
  BY <1>1, <1>2, <1>3, <1>4, StartSent
<1>6. TransferTypeOK'
  BY <1>1, <1>2, <1>5 DEF TransferTypeOK
<1>7. Goes
  BY <1>2, <1>5 DEF Goes
<1>8. Same("client")
  BY <1>1, <1>2, <1>3, <1>5 DEF Same
<1>9. EndInv("server")' /\ EndInv("client")'
  BY <1>1, <1>5, <1>7, <1>8, StartsStep, SameStep
<1>. QED BY <1>2, <1>6, <1>7, <1>9, Together

(* A push in another loop, first step.                                     *)
LEMMA PushOpenPreserves ==
  ASSUME TInv, NEW t \in Testcase, PushOpen(t), fault = "none", UNCHANGED failures
  PROVE  TInv'
<1>1. TransferTypeOK /\ "server" \in End /\ "client" \in End
      /\ Peer("server") = "client" /\ Peer("client") = "server"
  BY DEF TInv, End, Peer
<1>2. /\ UNCHANGED <<link, ownLoop, callback, functors, wire, unsent, recv, fault>> /\ ~ownLoop
      /\ reader' = [reader EXCEPT !["server"] = [file |-> t, at |-> 1]]
      /\ pusher' = [at |-> "opened", file |-> t]
  BY DEF PushOpen
<1>3. [file |-> t, at |-> 1] \in [file : File, at : Nat \ {0}] /\ pusher' \in Pusher
  BY <1>2 DEF File, Pusher
<1>4. /\ reader' \in [End -> {NoFile} \cup [file : File, at : Nat \ {0}]]
      /\ reader'["client"] = reader["client"] /\ reader'["server"] = [file |-> t, at |-> 1]
  BY <1>1, <1>2, <1>3 DEF TransferTypeOK
<1>5. /\ disturbed' \in [End -> BOOLEAN] /\ \A p \in End : disturbed[p] => disturbed'[p]
      /\ callback["server"] \/ functors["server"] # <<>> \/ unsent["server"] > 0 =>
           disturbed'["server"]
  <2>1. disturbed \in [End -> BOOLEAN] /\ callback["server"] \in BOOLEAN
    BY <1>1 DEF TransferTypeOK
  <2>. QED BY <1>1, <2>1 DEF PushOpen
<1>6. TransferTypeOK'
  BY <1>1, <1>2, <1>3, <1>4, <1>5 DEF TransferTypeOK
<1>7. Goes
  BY <1>2, <1>5 DEF Goes
<1>8. Same("client") /\ Opens
  BY <1>1, <1>2, <1>4, <1>5 DEF Same, Keeps, Opens
<1>9. EndInv("server")' /\ EndInv("client")'
  BY <1>1, <1>7, <1>8, OpensStep, SameStep
<1>. QED BY <1>2, <1>6, <1>7, <1>9, Together

(* What a step that neither fails nor disturbs does to the rest.           *)
LEMMA QuietFacts ==
  ASSUME TInv, UNCHANGED <<ownLoop, fault, disturbed, failures>>, fault = "none"
  PROVE  Goes /\ fault' = "none"
BY DEF Goes

(* A push in another loop, the other steps.                                *)
LEMMA PusherPreserves ==
  ASSUME TInv, PushRead \/ PushSet \/ PushPost \/ PostedSend, fault = "none",
         UNCHANGED failures
  PROVE  TInv'
<1>1. TransferTypeOK /\ "server" \in End /\ "client" \in End
      /\ Peer("server") = "client" /\ Peer("client") = "server"
  BY DEF TInv, End, Peer
<1>2. Goes /\ fault' = "none"
  BY QuietFacts DEF PushRead, PushSet, PushPost, PostedSend
<1>3. CASE PushRead
  <2>1. UNCHANGED <<link, ownLoop, callback, functors, wire, unsent, recv, fault, disturbed>>
    BY <1>3 DEF PushRead
  <2>2. /\ EndInv("server")'
        /\ reader' \in [End -> {NoFile} \cup [file : File, at : Nat \ {0}]]
        /\ reader'["client"] = reader["client"] /\ pusher' \in Pusher
    BY <1>2, <1>3, PushReadStep
  <2>3. TransferTypeOK'
    BY <1>1, <2>1, <2>2 DEF TransferTypeOK
  <2>4. Same("client")
    BY <1>1, <2>1, <2>2 DEF Same, Keeps
  <2>5. EndInv("client")'
    BY <1>1, <1>2, <2>4, SameStep
  <2>. QED BY <1>2, <2>2, <2>3, <2>5, Together
<1>4. CASE PushSet
  <2>1. UNCHANGED <<link, ownLoop, reader, functors, wire, unsent, recv, fault, disturbed>>
    BY <1>4 DEF PushSet
  <2>2. /\ EndInv("server")'
        /\ callback' \in [End -> BOOLEAN] /\ callback'["client"] = callback["client"]
        /\ pusher' \in Pusher
    BY <1>2, <1>4, PushSetStep
  <2>3. TransferTypeOK'
    BY <1>1, <2>1, <2>2 DEF TransferTypeOK
  <2>4. Same("client")
    BY <1>1, <2>1, <2>2 DEF Same, Keeps
  <2>5. EndInv("client")'
    BY <1>1, <1>2, <2>4, SameStep
  <2>. QED BY <1>2, <2>2, <2>3, <2>5, Together
<1>5. CASE PushPost
  <2>1. UNCHANGED <<link, ownLoop, reader, callback, wire, unsent, recv, fault, disturbed>>
    BY <1>5 DEF PushPost
  <2>2. /\ EndInv("server")'
        /\ functors' \in [End -> Seq(Functor)] /\ functors'["client"] = functors["client"]
        /\ pusher' \in Pusher
    BY <1>2, <1>5, PushPostStep
  <2>3. TransferTypeOK'
    BY <1>1, <2>1, <2>2 DEF TransferTypeOK
  <2>4. Same("client")
    BY <1>1, <2>1, <2>2 DEF Same, Keeps
  <2>5. EndInv("client")'
    BY <1>1, <1>2, <2>4, SameStep
  <2>. QED BY <1>2, <2>2, <2>3, <2>5, Together
<1>6. CASE PostedSend
  <2>1. UNCHANGED <<link, ownLoop, reader, callback, recv, pusher, fault, disturbed>>
    BY <1>6 DEF PostedSend
  <2>2. /\ wire' \in [End -> Seq(Msg)] /\ unsent' \in [End -> Nat]
        /\ functors' \in [End -> Seq(Functor)] /\ Same("client")
    BY <1>6, PostedEffect
  <2>3. TransferTypeOK'
    BY <1>1, <2>1, <2>2 DEF TransferTypeOK
  <2>4. EndInv("server")' /\ EndInv("client")'
    BY <1>1, <1>2, <1>6, <2>2, PostedSendStep, SameStep
  <2>. QED BY <1>2, <2>3, <2>4, Together
<1>. QED BY <1>3, <1>4, <1>5, <1>6

(* The output buffer and the write-complete callback, on either side.      *)
LEMMA WriteCompletePreserves ==
  ASSUME TInv, NEW e \in End, WriteComplete(e), fault = "none", UNCHANGED failures
  PROVE  TInv'
<1>1. UNCHANGED <<link, ownLoop, recv, pusher, fault, disturbed>> /\ Completes(e)
  BY DEF WriteComplete, Completes
<1>2. Goes /\ fault' = "none"
  BY <1>1, QuietFacts
<1>3. /\ wire' \in [End -> Seq(Msg)] /\ unsent' \in [End -> Nat]
      /\ functors' \in [End -> Seq(Functor)] /\ callback' \in [End -> BOOLEAN]
      /\ reader' \in [End -> {NoFile} \cup [file : File, at : Nat \ {0}]]
      /\ \A p \in End \ {e} : Same(p)
  BY <1>1, CompleteEffect
<1>4. TransferTypeOK'
  BY <1>1, <1>3 DEF TransferTypeOK, TInv
<1>5. \A p \in End : EndInv(p)'
  BY <1>1, <1>2, <1>3, CompletesStep, SameStep
<1>. QED BY <1>2, <1>4, <1>5, Together DEF End

(* The output buffer of either side.                                       *)
LEMMA DrainPreserves ==
  ASSUME TInv, NEW e \in End, Drain(e), fault = "none", UNCHANGED failures
  PROVE  TInv'
<1>1. UNCHANGED <<link, ownLoop, reader, callback, wire, recv, pusher, fault, disturbed>>
  BY DEF Drain
<1>2. Goes /\ fault' = "none"
  BY <1>1, QuietFacts
<1>3. PICK left \in 0..(unsent[e] - 1) :
        /\ unsent' = [unsent EXCEPT ![e] = left]
        /\ functors' = [functors EXCEPT ![e] = IF left = 0 /\ callback[e] THEN Append(@, Complete) ELSE @]
  BY DEF Drain
<1>4. /\ unsent \in [End -> Nat] /\ functors \in [End -> Seq(Functor)]
      /\ Append(functors[e], Complete) \in Seq(Functor) /\ unsent[e] > 0 /\ left \in Nat
  BY FunctorFacts DEF TInv, TransferTypeOK, Drain
<1>5. /\ unsent' \in [End -> Nat] /\ functors' \in [End -> Seq(Functor)]
      /\ unsent'[e] = left
      /\ functors'[e] = IF left = 0 /\ callback[e] THEN Append(functors[e], Complete) ELSE functors[e]
      /\ \A p \in End \ {e} : unsent'[p] = unsent[p] /\ functors'[p] = functors[p]
  BY <1>3, <1>4
<1>6. TransferTypeOK'
  BY <1>1, <1>5 DEF TransferTypeOK, TInv
<1>7. Drains(e) /\ \A p \in End \ {e} : Same(p)
  BY <1>1, <1>4, <1>5 DEF Drains, Same, Keeps
<1>8. \A p \in End : EndInv(p)'
  BY <1>2, <1>7, DrainsStep, SameStep
<1>. QED BY <1>2, <1>6, <1>8, Together DEF End
-----------------------------------------------------------------------------
(* What the receiver e has before it, and what remains of it.              *)
LEMMA ArrivedFacts ==
  ASSUME TransferTypeOK, NEW e \in End, NEW m, Arrived(e, m)
  PROVE  /\ wire[Peer(e)] # <<>> /\ Head(wire[Peer(e)]) = m /\ m \in Msg
         /\ Taken(e) \in [End -> Seq(Msg)]
         /\ Taken(e)[e] = wire[e] /\ Taken(e)[Peer(e)] = Tail(wire[Peer(e)])
<1>1. /\ wire \in [End -> Seq(Msg)] /\ wire[Peer(e)] \in Seq(Msg) /\ unsent[Peer(e)] \in Nat
      /\ Peer(e) \in End /\ Peer(e) # e
  BY PeerFacts DEF TransferTypeOK
<1>2. wire[Peer(e)] # <<>> /\ Head(wire[Peer(e)]) = m
  BY <1>1 DEF Arrived
<1>3. m \in Msg /\ Tail(wire[Peer(e)]) \in Seq(Msg)
  BY <1>1, <1>2
<1>. QED BY <1>1, <1>2, <1>3 DEF Taken

(* What closing and writing do to the record of the FILE.                  *)
LEMMA RecordFacts ==
  ASSUME NEW r \in [fp : {"none", "open", "closed"}, size : Nat, got : Seq(Chunk)],
         NEW got \in Seq(Chunk)
  PROVE  /\ [r EXCEPT !.fp = "closed"] = [fp |-> "closed", size |-> r.size, got |-> r.got]
         /\ [r EXCEPT !.got = got] = [fp |-> r.fp, size |-> r.size, got |-> got]
OBVIOUS

(* onFileMsg for a chunk, on either side.                                  *)
LEMMA ChunkPreserves ==
  ASSUME TInv, NEW e \in End, NEW m, NEW opens \in BOOLEAN, fault = "none",
         ReceiveChunk(e, m, opens), Failing(m, opens), wire' = Taken(e),
         UNCHANGED <<link, ownLoop, reader, callback, functors, unsent, pusher, disturbed>>
  PROVE  TInv'
<1> DEFINE p == Peer(e)
           r == recv[e]
           r2 == recv'[e]
<1>1. /\ TransferTypeOK /\ p \in End /\ p # e /\ Peer(p) = e
      /\ failures \in Nat /\ recv \in [End -> [fp : {"none", "open", "closed"}, size : Nat, got : Seq(Chunk)]]
      /\ wire[e] \in Seq(Msg)
  BY PeerFacts DEF TInv, TransferTypeOK
<1>2. /\ wire[p] # <<>> /\ Head(wire[p]) = m /\ m \in Msg /\ m.type = "File"
      /\ wire' \in [End -> Seq(Msg)] /\ wire'[e] = wire[e] /\ wire'[p] = Tail(wire[p])
  BY <1>1, ArrivedFacts DEF ReceiveChunk
<1>3. m.block \in Chunk /\ (m.first => m.size \in Nat)
  <2>1. m \in FirstMsg \/ m \in NextMsg
    BY <1>2, MessageFacts
  <2>. QED BY <2>1 DEF FirstMsg, NextMsg
<1>4. \A got \in Seq(Chunk) : Written(got, m.block) \in Seq(Chunk)
  BY <1>3 DEF Written
<1>5. r \in [fp : {"none", "open", "closed"}, size : Nat, got : Seq(Chunk)] /\ <<>> \in Seq(Chunk)
  BY <1>1
<1>6. failures' \in Nat /\ (failures' = 0 => failures = 0) /\ (~opens => failures' # 0)
  BY <1>1 DEF Failing
<1>7. /\ recv' \in [End -> [fp : {"none", "open", "closed"}, size : Nat, got : Seq(Chunk)]]
      /\ recv'[p] = recv[p] /\ fault' \in End \cup {"none"}
      /\ \/ /\ m.first /\ r2 = [fp |-> "open", size |-> m.size, got |-> Written(<<>>, m.block)]
            /\ fault' = "none"
         \/ m.first /\ failures' # 0
         \/ /\ ~m.first /\ r.fp = "open"
            /\ r2 = [fp |-> "open", size |-> r.size, got |-> Written(r.got, m.block)]
            /\ fault' = "none"
         \/ ~m.first /\ r.fp # "open" /\ r2 = r /\ fault' = e
  <2>1. CASE m.first /\ opens
    <3>1. /\ recv' = [recv EXCEPT ![e] = [fp |-> "open", size |-> m.size, got |-> Written(<<>>, m.block)]]
          /\ fault' = fault
      BY <2>1 DEF ReceiveChunk
    <3>2. [fp |-> "open", size |-> m.size, got |-> Written(<<>>, m.block)]
            \in [fp : {"none", "open", "closed"}, size : Nat, got : Seq(Chunk)]
      BY <1>3, <1>4, <1>5, <2>1
    <3>. QED BY <1>1, <2>1, <3>1, <3>2
  <2>2. CASE m.first /\ ~opens
    <3>1. recv' = [recv EXCEPT ![e] = [@ EXCEPT !.size = m.size]] /\ fault' \in {e, fault}
      BY <2>2 DEF ReceiveChunk
    <3>2. [r EXCEPT !.size = m.size]
            \in [fp : {"none", "open", "closed"}, size : Nat, got : Seq(Chunk)]
      BY <1>3, <1>5, <2>2
    <3>. QED BY <1>1, <1>6, <2>2, <3>1, <3>2
  <2>3. CASE ~m.first /\ r.fp = "open"
    <3>1. recv' = [recv EXCEPT ![e].got = Written(@, m.block)] /\ fault' = fault
      BY <2>3 DEF ReceiveChunk
    <3>2. PICK got \in Seq(Chunk) : got = Written(recv[e].got, m.block)
      BY <1>4, <1>5
    <3>3. recv' = [recv EXCEPT ![e] = [fp |-> "open", size |-> r.size, got |-> got]]
      <4>1. recv' = [recv EXCEPT ![e].got = got]
        BY <3>1, <3>2
      <4>2. [recv[e] EXCEPT !.got = got] = [fp |-> "open", size |-> r.size, got |-> got]
        BY <1>5, <2>3, RecordFacts
      <4>. QED BY <4>1, <4>2
    <3>4. [fp |-> "open", size |-> r.size, got |-> got]
            \in [fp : {"none", "open", "closed"}, size : Nat, got : Seq(Chunk)]
      BY <1>5
    <3>5. r2 = [fp |-> "open", size |-> r.size, got |-> Written(r.got, m.block)]
      BY <1>1, <3>2, <3>3
    <3>. QED BY <1>1, <2>3, <3>1, <3>3, <3>4, <3>5
  <2>4. CASE ~m.first /\ r.fp # "open"
    BY <1>1, <2>4 DEF ReceiveChunk
  <2>. QED BY <2>1, <2>2, <2>3, <2>4
<1> HIDE DEF r, r2
<1>8. Goes
  BY <1>6 DEF Goes
<1>9. TransferTypeOK'
  BY <1>1, <1>2, <1>6, <1>7 DEF TransferTypeOK
<1>10. Keeps(e) /\ Keeps(p)
  BY DEF Keeps
<1>11. Same(e)
  BY <1>2, <1>7, <1>10 DEF Same
<1>12. Receives(p)
  BY <1>1, <1>2, <1>7, <1>10 DEF Receives, NeedsOpen, r, r2
<1>13. EndInv(e)' /\ EndInv(p)'
  BY <1>1, <1>8, <1>11, <1>12, SameStep, ReceivesStep
<1>14. fault' = "none" \/ disturbed'[Peer(fault')] \/ failures' # 0
  <2>1. CASE ~m.first /\ r.fp # "open" /\ fault' = e
    <3>1. disturbed[p] \/ failures > 0
      BY <1>1, <1>2, <2>1, NoFileIsExplained DEF NeedsOpen, r
    <3>. QED BY <1>1, <1>6, <2>1, <3>1
  <2>. QED BY <1>7, <2>1
<1>. QED BY <1>1, <1>8, <1>9, <1>13, <1>14, Together DEF End

(* A message that is no part of a file is taken, and nothing is answered.  *)
LEMMA PlainTaken ==
  ASSUME TInv, NEW e \in End, NEW m, fault = "none", Arrived(e, m),
         m.type \notin {"File", "END"}, wire' = Taken(e),
         UNCHANGED <<ownLoop, reader, callback, functors, unsent, recv, pusher, fault,
                     disturbed, failures>>
  PROVE  TInv'
<1>1. TransferTypeOK /\ Peer(e) \in End /\ Peer(e) # e /\ Peer(Peer(e)) = e
  BY PeerFacts DEF TInv
<1>2. /\ wire[Peer(e)] # <<>> /\ Head(wire[Peer(e)]) = m
      /\ wire' \in [End -> Seq(Msg)] /\ wire'[e] = wire[e] /\ wire'[Peer(e)] = Tail(wire[Peer(e)])
  BY <1>1, ArrivedFacts
<1>3. Goes /\ fault' = "none"
  BY QuietFacts
<1>4. TransferTypeOK'
  BY <1>1, <1>2 DEF TransferTypeOK
<1>5. Same(e) /\ Receives(Peer(e))
  BY <1>1, <1>2 DEF Same, Keeps, Receives
<1>6. EndInv(e)' /\ EndInv(Peer(e))'
  BY <1>1, <1>3, <1>5, SameStep, ReceivesStep
<1>. QED BY <1>1, <1>3, <1>4, <1>6, Together DEF End

(* END.                                                                    *)
LEMMA EndFacts ==
  ASSUME TInv, NEW e \in End, fault = "none", ReceiveEnd(e)
  PROVE  /\ wire[Peer(e)] # <<>> /\ Head(wire[Peer(e)]) = END_
         /\ recv' \in [End -> [fp : {"none", "open", "closed"}, size : Nat, got : Seq(Chunk)]]
         /\ recv'[Peer(e)] = recv[Peer(e)]
         /\ \/ /\ recv[e].fp = "open" /\ fault' = "none"
               /\ recv'[e] = [fp |-> "closed", size |-> recv[e].size, got |-> recv[e].got]
            \/ /\ recv[e].fp # "open" /\ recv' = recv /\ fault' = e
               /\ disturbed[Peer(e)] \/ failures # 0
<1>1. /\ TransferTypeOK /\ Peer(e) \in End /\ Peer(e) # e /\ Peer(Peer(e)) = e
      /\ recv \in [End -> [fp : {"none", "open", "closed"}, size : Nat, got : Seq(Chunk)]]
      /\ recv[e] \in [fp : {"none", "open", "closed"}, size : Nat, got : Seq(Chunk)]
  BY PeerFacts DEF TInv, TransferTypeOK
<1>2. wire[Peer(e)] # <<>> /\ Head(wire[Peer(e)]) = END_ /\ NeedsOpen(END_)
  BY <1>1, ArrivedFacts DEF ReceiveEnd, NeedsOpen, END_
<1>3. CASE recv[e].fp = "open"
  <2>1. recv' = [recv EXCEPT ![e].fp = "closed"] /\ fault' = fault
    BY <1>3 DEF ReceiveEnd
  <2>2. recv' = [recv EXCEPT ![e] = [fp |-> "closed", size |-> recv[e].size, got |-> recv[e].got]]
    BY <1>1, <2>1, RecordFacts
  <2>3. [fp |-> "closed", size |-> recv[e].size, got |-> recv[e].got]
          \in [fp : {"none", "open", "closed"}, size : Nat, got : Seq(Chunk)]
    BY <1>1
  <2>. QED BY <1>1, <1>2, <1>3, <2>1, <2>2, <2>3
<1>4. CASE recv[e].fp # "open"
  <2>1. recv' = recv /\ fault' = e
    BY <1>4 DEF ReceiveEnd
  <2>2. disturbed[Peer(e)] \/ failures > 0
    BY <1>1, <1>2, <1>4, NoFileIsExplained
  <2>. QED BY <1>1, <1>2, <1>4, <2>1, <2>2
<1>. QED BY <1>3, <1>4

(* onFileMsg of the server for END.                                        *)
LEMMA EndPreserves ==
  ASSUME TInv, ReceiveEnd("server"), fault = "none", wire' = Taken("server"),
         UNCHANGED <<ownLoop, reader, callback, functors, unsent, pusher, disturbed, failures>>
  PROVE  TInv'
<1>1. /\ TransferTypeOK /\ "server" \in End /\ "client" \in End
      /\ Peer("server") = "client" /\ Peer("client") = "server"
  BY DEF TInv, End, Peer
<1>2. /\ wire' \in [End -> Seq(Msg)] /\ wire'["server"] = wire["server"]
      /\ wire'["client"] = Tail(wire["client"])
  BY <1>1, ArrivedFacts DEF ReceiveEnd
<1>3. /\ wire["client"] # <<>> /\ Head(wire["client"]) = END_
      /\ recv' \in [End -> [fp : {"none", "open", "closed"}, size : Nat, got : Seq(Chunk)]]
      /\ recv'["client"] = recv["client"]
      /\ \/ /\ recv["server"].fp = "open" /\ fault' = "none"
            /\ recv'["server"] = [fp |-> "closed", size |-> recv["server"].size,
                                  got |-> recv["server"].got]
         \/ /\ recv["server"].fp # "open" /\ recv' = recv /\ fault' = "server"
            /\ disturbed["client"] \/ failures # 0
  BY <1>1, EndFacts
<1>4. Goes
  BY DEF Goes
<1>5. TransferTypeOK'
  BY <1>1, <1>2, <1>3 DEF TransferTypeOK
<1>6. Same("server")
  BY <1>1, <1>2, <1>3 DEF Same, Keeps
<1>7. Receives("client")
  BY <1>1, <1>2, <1>3 DEF Receives, Keeps, NeedsOpen, END_
<1>8. EndInv("server")' /\ EndInv("client")'
  BY <1>1, <1>4, <1>6, <1>7, SameStep, ReceivesStep
<1>. QED BY <1>1, <1>3, <1>4, <1>5, <1>8, Together
-----------------------------------------------------------------------------
(* The handlers of the server.                                             *)
LEMMA ServerReceivesPreserves ==
  ASSUME TInv, ServerReceives
  PROVE  TInv'
<1>1. /\ fault = "none" /\ wire' = Taken("server") /\ "server" \in End
      /\ UNCHANGED <<link, ownLoop, reader, callback, functors, unsent, pusher, disturbed>>
  BY DEF ServerReceives, Running, End
<1>2. PICK m :
        \/ \E opens \in BOOLEAN : ReceiveChunk("server", m, opens) /\ Failing(m, opens)
        \/ m = END_ /\ ReceiveEnd("server") /\ UNCHANGED failures
        \/ /\ m.type \in {"ACK", "PushACK", "HeartBeat"} /\ Arrived("server", m)
           /\ UNCHANGED <<recv, fault, failures>>
  <2>1. PICK i \in 1..Len(wire["client"]) :
          LET m == wire["client"][i]
          IN  \/ \E opens \in BOOLEAN : ReceiveChunk("server", m, opens) /\ Failing(m, opens)
              \/ m = END_ /\ ReceiveEnd("server") /\ UNCHANGED failures
              \/ /\ m.type \in {"ACK", "PushACK", "HeartBeat"} /\ Arrived("server", m)
                 /\ UNCHANGED <<recv, fault, failures>>
    BY DEF ServerReceives
  <2>2. PICK m : m = wire["client"][i]
    OBVIOUS
  <2>3. CASE \E opens \in BOOLEAN :
               ReceiveChunk("server", wire["client"][i], opens) /\ Failing(wire["client"][i], opens)
    BY <2>2, <2>3 DEF ReceiveChunk, Failing, Arrived
  <2>4. CASE m = END_ /\ ReceiveEnd("server") /\ UNCHANGED failures
    BY <2>4
  <2>5. CASE /\ m.type \in {"ACK", "PushACK", "HeartBeat"} /\ Arrived("server", wire["client"][i])
             /\ UNCHANGED <<recv, fault, failures>>
    BY <2>2, <2>5 DEF Arrived
  <2>. QED BY <2>1, <2>2, <2>3, <2>4, <2>5
<1>3. CASE \E opens \in BOOLEAN : ReceiveChunk("server", m, opens) /\ Failing(m, opens)
  BY <1>1, <1>3, ChunkPreserves
<1>4. CASE ReceiveEnd("server") /\ UNCHANGED failures
  BY <1>1, <1>4, EndPreserves
<1>5. CASE /\ m.type \in {"ACK", "PushACK", "HeartBeat"} /\ Arrived("server", m)
           /\ UNCHANGED <<recv, fault, failures>>
  BY <1>1, <1>5, PlainTaken
<1>. QED BY <1>2, <1>3, <1>4, <1>5

(* The node receives a message and sends another one.                      *)
LEMMA Answers ==
  ASSUME TInv, NEW m, NEW a \in Plain, fault = "none", Arrived("client", m),
         m.type \notin {"File", "END"}, Send("client", a, Taken("client")),
         UNCHANGED <<ownLoop, reader, callback, recv, pusher, fault, failures>>
  PROVE  TInv'
<1>1. /\ TransferTypeOK /\ "server" \in End /\ "client" \in End
      /\ Peer("server") = "client" /\ Peer("client") = "server"
  BY DEF TInv, End, Peer
<1>2. /\ wire["server"] # <<>> /\ Head(wire["server"]) = m
      /\ Taken("client") \in [End -> Seq(Msg)]
      /\ Taken("client")["client"] = wire["client"]
      /\ Taken("client")["server"] = Tail(wire["server"])
  BY <1>1, ArrivedFacts
<1>3. PICK w \in [End -> Seq(Msg)] : w = Taken("client")
  BY <1>2
<1>4. Send("client", a, w) /\ ~Pushing("client")
  BY <1>3 DEF Send, SendInLoop, Pushing
<1>5. /\ wire' \in [End -> Seq(Msg)] /\ unsent' \in [End -> Nat]
      /\ functors' \in [End -> Seq(Functor)] /\ disturbed' \in [End -> BOOLEAN]
      /\ \A p \in End : disturbed[p] => disturbed'[p]
      /\ SendsPlain("client")
      /\ \A p \in End \ {"client"} : Keeps(p) /\ wire'[p] = w[p]
  BY <1>1, <1>2, <1>3, <1>4, PlainSent
<1>6. Receives("server")
  BY <1>1, <1>2, <1>3, <1>5 DEF Receives
<1>7. Goes
  BY <1>5 DEF Goes
<1>8. TransferTypeOK'
  BY <1>1, <1>5 DEF TransferTypeOK
<1>9. EndInv("server")' /\ EndInv("client")'
  BY <1>1, <1>5, <1>6, <1>7, ReceivesStep, SendsPlainStep
<1>. QED BY <1>7, <1>8, <1>9, Together

(* The command is refused, carried out, or answered by a file.             *)
LEMMA onCommandMsgPreserves ==
  ASSUME TInv, onCommandMsg
  PROVE  TInv'
<1>1. /\ TransferTypeOK /\ "server" \in End /\ "client" \in End
      /\ Peer("server") = "client" /\ Peer("client") = "server"
  BY DEF TInv, End, Peer
<1>2. /\ fault = "none" /\ UNCHANGED <<link, ownLoop, recv, pusher, fault, failures>>
  BY DEF onCommandMsg, InLoop
<1>3. PICK kind \in Kinds :
        /\ Arrived("client", CommandMsg(kind))
        /\ CommandRefused(kind) \/ Fork(kind) \/ onResult(kind)
  BY DEF onCommandMsg
<1>4. PICK m : m = CommandMsg(kind)
  OBVIOUS
<1>5. Arrived("client", m) /\ m.type \notin {"File", "END"}
  BY <1>3, <1>4 DEF CommandMsg
<1>6. ACK(FALSE) \in Plain
  BY DEF ACK, Plain
<1>7. CASE Reply(ACK(FALSE)) /\ UNCHANGED <<reader, callback>>
  <2>1. Send("client", ACK(FALSE), Taken("client"))
    BY <1>7 DEF Reply
  <2>2. PICK a \in Plain : a = ACK(FALSE)
    BY <1>6
  <2>3. Send("client", a, Taken("client"))
    BY <2>1, <2>2
  <2>. QED BY <1>2, <1>5, <1>7, <2>3, Answers
<1>8. CASE Fork(kind)
  BY <1>1, <1>2, <1>5, <1>8, PlainTaken DEF Fork
<1>9. CASE StartTransfer("client", "result", Taken("client"))
  <2>1. /\ wire["server"] # <<>> /\ Head(wire["server"]) = m
        /\ Taken("client") \in [End -> Seq(Msg)]
        /\ Taken("client")["client"] = wire["client"]
        /\ Taken("client")["server"] = Tail(wire["server"])
    BY <1>1, <1>5, ArrivedFacts
  <2>2. PICK w \in [End -> Seq(Msg)], f \in File : w = Taken("client") /\ f = "result"
    BY <2>1 DEF File
  <2>3. StartTransfer("client", f, w) /\ ~Pushing("client")
    BY <1>9, <2>2 DEF StartTransfer, SendInLoop, Pushing
  <2>4. /\ wire' \in [End -> Seq(Msg)] /\ unsent' \in [End -> Nat]
        /\ functors' \in [End -> Seq(Functor)] /\ disturbed' \in [End -> BOOLEAN]
        /\ reader' \in [End -> {NoFile} \cup [file : File, at : Nat \ {0}]]
        /\ callback' \in [End -> BOOLEAN]
        /\ \A p \in End : disturbed[p] => disturbed'[p]
        /\ Starts("client")
        /\ \A p \in End \ {"client"} : Keeps(p) /\ wire'[p] = w[p]
    BY <1>1, <1>2, <2>1, <2>2, <2>3, StartSent
  <2>5. Receives("server")
    BY <1>1, <1>2, <1>5, <2>1, <2>2, <2>4 DEF Receives
  <2>6. Goes
    BY <1>2, <2>4 DEF Goes
  <2>7. TransferTypeOK'
    BY <1>1, <1>2, <2>4 DEF TransferTypeOK
  <2>8. EndInv("server")' /\ EndInv("client")'
    BY <1>1, <2>4, <2>5, <2>6, ReceivesStep, StartsStep
  <2>. QED BY <1>2, <2>6, <2>7, <2>8, Together
<1>10. CASE CommandRefused(kind)
  BY <1>7, <1>10 DEF CommandRefused
<1>11. CASE onResult(kind)
  BY <1>7, <1>9, <1>11 DEF onResult
<1>. QED BY <1>3, <1>8, <1>10, <1>11

(* A message of the node that answers nothing it receives in that step.    *)
LEMMA NodeSends ==
  ASSUME TInv, NEW a \in Plain, fault = "none", Send("client", a, wire),
         UNCHANGED <<ownLoop, reader, callback, recv, pusher, fault, failures>>
  PROVE  TInv'
<1>1. /\ TransferTypeOK /\ "server" \in End /\ "client" \in End
      /\ Peer("server") = "client" /\ Peer("client") = "server"
  BY DEF TInv, End, Peer
<1>2. PICK w \in [End -> Seq(Msg)] : w = wire
  BY <1>1 DEF TransferTypeOK
<1>3. Send("client", a, w) /\ ~Pushing("client")
  BY <1>2 DEF Send, SendInLoop, Pushing
<1>4. /\ wire' \in [End -> Seq(Msg)] /\ unsent' \in [End -> Nat]
      /\ functors' \in [End -> Seq(Functor)] /\ disturbed' \in [End -> BOOLEAN]
      /\ \A p \in End : disturbed[p] => disturbed'[p]
      /\ SendsPlain("client")
      /\ \A p \in End \ {"client"} : Keeps(p) /\ wire'[p] = w[p]
  BY <1>1, <1>2, <1>3, PlainSent
<1>5. Goes
  BY <1>4 DEF Goes
<1>6. TransferTypeOK'
  BY <1>1, <1>4 DEF TransferTypeOK
<1>7. Same("server")
  BY <1>1, <1>2, <1>4 DEF Same
<1>8. EndInv("server")' /\ EndInv("client")'
  BY <1>1, <1>4, <1>5, <1>7, SameStep, SendsPlainStep
<1>. QED BY <1>5, <1>6, <1>8, Together

(* onFileMsg of the node, a chunk.                                         *)
LEMMA onChunkPreserves ==
  ASSUME TInv, onChunk
  PROVE  TInv'
<1>1. /\ fault = "none" /\ wire' = Taken("client") /\ "client" \in End
      /\ UNCHANGED <<link, ownLoop, reader, callback, functors, unsent, pusher, disturbed>>
  BY DEF onChunk, InLoop, End
<1>2. PICK i \in 1..Len(wire["server"]), opens \in BOOLEAN :
        /\ ReceiveChunk("client", wire["server"][i], opens)
        /\ Failing(wire["server"][i], opens)
  BY DEF onChunk
<1>3. PICK m : m = wire["server"][i]
  OBVIOUS
<1>4. ReceiveChunk("client", m, opens) /\ Failing(m, opens)
  BY <1>2, <1>3 DEF ReceiveChunk, Failing, Arrived
<1>. QED BY <1>1, <1>4, ChunkPreserves

(* onFileMsg of the node, END.                                             *)
LEMMA onEndPreserves ==
  ASSUME TInv, onEnd
  PROVE  TInv'
<1>1. /\ TransferTypeOK /\ "server" \in End /\ "client" \in End
      /\ Peer("server") = "client" /\ Peer("client") = "server"
  BY DEF TInv, End, Peer
<1>2. /\ fault = "none" /\ ReceiveEnd("client")
      /\ UNCHANGED <<link, ownLoop, reader, callback, pusher, failures>>
  BY DEF onEnd, InLoop
<1>3. /\ wire["server"] # <<>> /\ Head(wire["server"]) = END_
      /\ recv' \in [End -> [fp : {"none", "open", "closed"}, size : Nat, got : Seq(Chunk)]]
      /\ recv'["server"] = recv["server"]
      /\ \/ /\ recv["client"].fp = "open" /\ fault' = "none"
            /\ recv'["client"] = [fp |-> "closed", size |-> recv["client"].size,
                                  got |-> recv["client"].got]
         \/ /\ recv["client"].fp # "open" /\ recv' = recv /\ fault' = "client"
            /\ disturbed["server"] \/ failures # 0
  BY <1>1, <1>2, EndFacts
<1>4. CASE fault' = "none"
  <2>1. PICK a \in Plain : a = PushACK(Completely(recv["client"]))
    <3>1. Completely(recv["client"]) \in BOOLEAN
      BY DEF Completely
    <3>2. \A b \in BOOLEAN : PushACK(b) \in Plain
      BY DEF PushACK, Plain
    <3>. QED BY <3>1, <3>2
  <2>2. /\ Taken("client") \in [End -> Seq(Msg)]
        /\ Taken("client")["client"] = wire["client"]
        /\ Taken("client")["server"] = Tail(wire["server"])
    BY <1>1, <1>2, ArrivedFacts DEF ReceiveEnd
  <2>3. PICK w \in [End -> Seq(Msg)] : w = Taken("client")
    BY <2>2
  <2>4. /\ Send("client", a, w) /\ ~Pushing("client")
        /\ recv'[Peer("client")] = recv[Peer("client")]
    BY <1>1, <1>3, <1>4, <2>1, <2>3 DEF onEnd, Reply, Send, SendInLoop, Pushing
  <2>5. /\ wire' \in [End -> Seq(Msg)] /\ unsent' \in [End -> Nat]
        /\ functors' \in [End -> Seq(Functor)] /\ disturbed' \in [End -> BOOLEAN]
        /\ \A p \in End : disturbed[p] => disturbed'[p]
        /\ SendsPlain("client")
        /\ \A p \in End \ {"client"} : Keeps(p) /\ wire'[p] = w[p]
    <3>1. TransferTypeOK /\ "client" \in End /\ w["client"] = wire["client"]
      BY <1>1, <2>2, <2>3
    <3>2. reader' = reader /\ callback' = callback /\ pusher' = pusher
      BY <1>2
    <3>. QED BY <2>4, <3>1, <3>2, PlainSent
  <2>6. Receives("server")
    <3>1. Keeps("server") /\ wire'["server"] = Tail(wire["server"])
      BY <1>1, <2>2, <2>3, <2>5
    <3>2. recv["client"].fp = "open" /\ END_.type = "END"
          /\ recv'["client"] = [fp |-> "closed", size |-> recv["client"].size,
                                 got |-> recv["client"].got]
      BY <1>3, <1>4 DEF END_
    <3>. QED BY <1>1, <1>2, <1>3, <3>1, <3>2 DEF Receives
  <2>7. Goes
    BY <1>2, <2>5 DEF Goes
  <2>8. TransferTypeOK'
    BY <1>1, <1>2, <1>3, <2>5 DEF TransferTypeOK
  <2>9. EndInv("server")' /\ EndInv("client")'
    BY <1>1, <2>5, <2>6, <2>7, ReceivesStep, SendsPlainStep
  <2>. QED BY <1>4, <2>7, <2>8, <2>9, Together
<1>5. CASE fault' # "none"
  <2>1. UNCHANGED <<wire, unsent, functors, disturbed>>
    BY <1>5 DEF onEnd
  <2>2. recv' = recv /\ fault' = "client" /\ (disturbed["server"] \/ failures # 0)
    BY <1>3, <1>5
  <2>3. Goes /\ TransferTypeOK'
    BY <1>1, <1>2, <2>1, <2>2 DEF Goes, TransferTypeOK
  <2>4. Same("server") /\ Same("client")
    BY <1>2, <2>1, <2>2 DEF Same, Keeps
  <2>5. EndInv("server")' /\ EndInv("client")'
    BY <1>1, <2>3, <2>4, SameStep
  <2>. QED BY <1>1, <1>2, <2>1, <2>2, <2>3, <2>5, Together
<1>. QED BY <1>4, <1>5

(* The steps that leave the files alone.                                   *)
LEMMA RestPreserves ==
  ASSUME TInv,
         UNCHANGED <<ownLoop, reader, callback, functors, wire, unsent, recv, pusher, fault,
                     disturbed, failures>>
  PROVE  TInv'
<1>1. TransferTypeOK /\ "server" \in End /\ "client" \in End
  BY DEF TInv, End
<1>2. Goes /\ TransferTypeOK'
  BY <1>1 DEF Goes, TransferTypeOK
<1>3. Same("server") /\ Same("client")
  BY DEF Same, Keeps
<1>4. EndInv("server")' /\ EndInv("client")'
  BY <1>1, <1>2, <1>3, SameStep
<1>5. FilesOpenWhenUsed'
  BY DEF TInv, FilesOpenWhenUsed
<1>. QED BY <1>2, <1>4, <1>5 DEF TInv, End

(* Every step.                                                             *)
LEMMA StepPreserves ==
  ASSUME TInv, [Next]_vars
  PROVE  TInv'
<1>1. "server" \in End /\ "client" \in End
  BY DEF End
<1>2. ASSUME ServerSends PROVE TInv'
  <2>1. fault = "none" /\ UNCHANGED failures
    BY <1>2 DEF ServerSends, Running
  <2>. QED BY <1>2, <2>1, SendCommandPreserves, PushPreserves, PushOpenPreserves DEF ServerSends
<1>3. ASSUME ServerGoesOn PROVE TInv'
  <2>1. fault = "none" /\ UNCHANGED failures
    BY <1>3 DEF ServerGoesOn, Running, tally
  <2>. QED BY <1>1, <1>3, <2>1, PusherPreserves, WriteCompletePreserves, DrainPreserves
         DEF ServerGoesOn
<1>4. ASSUME Count PROVE TInv'
  <2>1. ACK(TRUE) \in Plain
    BY DEF ACK, Plain
  <2>. QED BY <1>4, <2>1, NodeSends DEF Count, Running
<1>5. ASSUME onWriteCompleteClient PROVE TInv'
  BY <1>1, <1>5, WriteCompletePreserves DEF onWriteCompleteClient, InLoop
<1>6. ASSUME ClientDrains PROVE TInv'
  BY <1>1, <1>6, DrainPreserves DEF ClientDrains, InLoop, tally
<1>7. ASSUME onTimer PROVE TInv'
  <2>1. HeartBeat \in Plain
    BY DEF HeartBeat, Plain
  <2>2. fault = "none" /\ UNCHANGED <<ownLoop, reader, callback, recv, pusher, fault, failures>>
    BY <1>7 DEF onTimer, InLoop
  <2>3. CASE Send("client", HeartBeat, wire)
    BY <2>1, <2>2, <2>3, NodeSends
  <2>4. CASE UNCHANGED <<wire, unsent, functors, disturbed>>
    BY <2>2, <2>4, RestPreserves
  <2>. QED BY <1>7, <2>3, <2>4 DEF onTimer
<1>8. ASSUME CopyExits \/ SystemReturns \/ JobExits \/ SignalSteps \/ Down \/ onWriteCompleteNull
      PROVE  TInv'
  <2>1. UNCHANGED <<ownLoop, reader, callback, functors, wire, unsent, recv, pusher, fault,
                    disturbed, failures>>
    BY <1>8 DEF CopyExits, SystemReturns, JobExits, SignalSteps, Signal, StoreCount, HandlerReturns,
                Down, onWriteCompleteNull, transferVars, tally
  <2>. QED BY <2>1, RestPreserves
<1>9. ASSUME UNCHANGED vars PROVE TInv'
  BY <1>9, RestPreserves DEF vars, transferVars, tally
<1>. QED BY <1>2, <1>3, <1>4, <1>5, <1>6, <1>7, <1>8, <1>9, ServerReceivesPreserves,
            onCommandMsgPreserves, onChunkPreserves, onEndPreserves
       DEF Next, Server, MainThread

(* What was received in full, of a file that is not cut, is the file.      *)
LEMMA GotIsIntact ==
  ASSUME NEW r, r.got \in Seq(Chunk), GotFile(r), Completely(r), r.got[1].file \notin Binary
  PROVE  r.got = [i \in 1..Chunks[r.got[1].file] |-> Block(r.got[1].file, i)]
<1> DEFINE f == r.got[1].file
           n == Chunks[f]
<1>1. Len(r.got) = n /\ \A i \in 1..n : r.got[i] = Content(f, i)
  BY DEF GotFile, Completely
<1>2. \A i : Content(f, i) = Block(f, i)
  <2>1. \A i : Content(f, i) = [file |-> f, no |-> i, cut |-> f \in Binary]
    BY DEF Content, Block
  <2>2. (f \in Binary) = FALSE
    OBVIOUS
  <2>. QED BY <2>1, <2>2 DEF Block
<1>3. r.got = [i \in 1..Len(r.got) |-> r.got[i]]
  OBVIOUS
<1>. QED BY <1>1, <1>2, <1>3

(* The properties follow.                                                  *)
LEMMA InvImplies ==
  ASSUME TInv
  PROVE  FilesOpenWhenUsed /\ CompleteIsIntact
<1>1. FilesOpenWhenUsed
  BY DEF TInv
<1>2. CompleteIsIntact
  <2> SUFFICES ASSUME NEW e \in End, recv[e].fp = "closed", Completely(recv[e]), failures = 0,
                      ownLoop \/ ~disturbed[Peer(e)], recv[e].got[1].file \notin Binary
               PROVE  recv[e].got = [i \in 1..Chunks[recv[e].got[1].file] |->
                                       Block(recv[e].got[1].file, i)]
    BY DEF CompleteIsIntact
  <2>1. Peer(e) \in End /\ Peer(Peer(e)) = e
    BY PeerFacts
  <2>2. InSequence(Peer(e)) /\ Reliable(Peer(e))
    BY <2>1 DEF TInv, EndInv, Reliable
  <2>3. GotFile(recv[e]) /\ recv[e].got \in Seq(Chunk)
    BY <2>1, <2>2, EndTypes DEF InSequence, TInv
  <2>4. PICK r : r = recv[e]
    OBVIOUS
  <2>5. r.got \in Seq(Chunk) /\ GotFile(r) /\ Completely(r) /\ r.got[1].file \notin Binary
    BY <2>3, <2>4
  <2>. QED BY <2>4, <2>5, GotIsIntact
<1>. QED BY <1>1, <1>2

(* The invariant of every behaviour.                                       *)
LEMMA TInvAlways == Spec => []TInv
<1>1. Init => TInv
  BY TInitial
<1>2. TInv /\ [Next]_vars => TInv'
  BY StepPreserves
<1>. QED BY <1>1, <1>2, PTL DEF Spec

(* A chunk or END finds its FILE open on the other side, and neither side  *)
(* ends for want of one (the assert of lkpClient.cc:315, the FILE of       *)
(* lkpServer.cc:442), unless another message was sent while the file was   *)
(* on its way or a FILE could not be opened: onWriteComplete sends END     *)
(* once, behind all chunks, though it is not told what was written         *)
(* (lkpServer.cc:321).                                                     *)
THEOREM FilesOpen == Spec => []FilesOpenWhenUsed
<1>1. TInv => FilesOpenWhenUsed
  BY InvImplies
<1>. QED BY <1>1, TInvAlways, PTL

(* A file found complete by its size is the one that was sent, chunk by    *)
(* chunk (lkpClient.cc:306, lkpServer.cc:431), whatever else is sent       *)
(* meanwhile in the connection's own loop.                                 *)
THEOREM Intact == Spec => []CompleteIsIntact
<1>1. TInv => CompleteIsIntact
  BY InvImplies
<1>. QED BY <1>1, TInvAlways, PTL
=============================================================================
