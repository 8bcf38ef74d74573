---------------------------- MODULE lkpClient_proofs ----------------------------
(***************************************************************************)
(* The node runs one job at a time, and its event loop is not kept waiting *)
(* for one, but for one job more for each cp that ended; it is ready again *)
(* when the job has ended, but for what mishaps names.  And it gives no    *)
(* more answers than it was sent commands and files, as long as nothing    *)
(* else is sent during a transfer: that rests on the invariant of the      *)
(* transfer (lkpTransfer_proofs) and on a tally of what is under way.      *)
(***************************************************************************)
EXTENDS lkpTransfer_proofs, FiniteSetTheorems, FunctionTheorems

ExecTypeOK ==
  /\ main \in {"loop", "forked", "system", "reap", "exited", "crashed"}
  /\ childNum \in Nat /\ jobs \in Nat
  /\ sigPending \in BOOLEAN
  /\ handler \in [Thread -> [at : {"none", "store", "wait"}, read : Nat]]
  /\ mishaps \subseteq {"fork_failed", "early_exit"} /\ copies \in Nat

One(b) == IF b THEN 1 ELSE 0

(* The SIGCHLDs that have still to be taken off the count.                 *)
Uncounted ==
  One(sigPending) + One(handler["main"].at = "store") + One(handler["log"].at = "store")

(* A job that runs is counted, or about to be, and a SIGCHLD on its way    *)
(* takes another one off the count; each that cp sends may do so wrongly.  *)
JobIsCounted ==
  /\ jobs + Uncounted <= childNum + One(main = "forked") + copies
  /\ handler["main"].at = "wait" => jobs <= copies

(* While nothing else went wrong, the count is one job at most, and what   *)
(* will take it back is still to come.                                     *)
Due == jobs > 0 \/ sigPending \/ \E t \in Thread : handler[t].at = "store"

CountIsDue ==
  mishaps \cap {"fork_failed", "early_exit"} = {} =>
    /\ childNum <= 1
    /\ \A t \in Thread : handler[t].read <= 1
    /\ main = "forked" => childNum = 0
    /\ main = "forked" \/ childNum = 1 => Due

(* Whatever goes wrong, the count is never more than one: a job is only    *)
(* started, and a failed fork only counted, when it is 0.                  *)
OneCounted ==
  childNum <= 1 /\ (\A t \in Thread : handler[t].read <= 1) /\ (main = "forked" => childNum = 0)

IInv == ExecTypeOK /\ JobIsCounted /\ CountIsDue /\ OneCounted
-----------------------------------------------------------------------------
(* Nothing runs and nothing is counted at the beginning.                   *)
LEMMA ExecInitial == Init => IInv
<1> SUFFICES ASSUME Init PROVE IInv
  OBVIOUS
<1>1. /\ childNum = 0 /\ jobs = 0 /\ sigPending = FALSE /\ main = "loop"
      /\ handler = [t \in Thread |-> NoHandler]
      /\ mishaps = {} /\ copies = 0
  BY DEF Init
<1>2. ExecTypeOK
  BY <1>1 DEF ExecTypeOK, NoHandler
<1>3. CountIsDue
  BY <1>1 DEF CountIsDue, NoHandler
<1>4. handler["main"] = NoHandler /\ handler["log"] = NoHandler
  BY <1>1 DEF Thread
<1>5. JobIsCounted
  BY <1>1, <1>4 DEF JobIsCounted, Uncounted, One, NoHandler
<1>6. OneCounted
  BY <1>1 DEF OneCounted, NoHandler
<1>. QED BY <1>2, <1>3, <1>5, <1>6 DEF IInv

(* All of the state that the invariant speaks of is in execVars.           *)
LEMMA ExecUnchanged ==
  ASSUME IInv, UNCHANGED execVars
  PROVE  IInv'
BY DEF IInv, ExecTypeOK, JobIsCounted, Uncounted, CountIsDue, Due, OneCounted, execVars

(* A command is refused, or a job is started.                              *)
LEMMA ExecCommand ==
  ASSUME IInv, onCommandMsg
  PROVE  IInv'
<1> USE DEF IInv, ExecTypeOK, JobIsCounted, Uncounted, One, CountIsDue, Due, OneCounted, Thread
<1>1. PICK kind \in Kinds : CommandRefused(kind) \/ Fork(kind) \/ onResult(kind)
  BY DEF onCommandMsg
<1>2. UNCHANGED <<sigPending, handler>> /\ main = "loop" /\ handler["main"].at = "none"
  BY DEF onCommandMsg, InLoop
<1>3. CASE CommandRefused(kind)
  <2>1. /\ UNCHANGED <<main, jobs, copies>>
        /\ \/ UNCHANGED <<childNum, mishaps>>
           \/ /\ childNum = 0 /\ childNum' = 1
              /\ mishaps' = mishaps \cup {"fork_failed"}
    BY <1>3 DEF CommandRefused, Busy, Flag
  <2>2. JobIsCounted'
    BY <1>2, <2>1
  <2>3. ExecTypeOK'
    <3>1. mishaps' \subseteq {"fork_failed", "early_exit"}
      BY <2>1
    <3>2. childNum' \in Nat /\ jobs' \in Nat /\ copies' \in Nat
      BY <2>1
    <3>3. handler' \in [Thread -> [at : {"none", "store", "wait"}, read : Nat]]
      BY <1>2
    <3>. QED BY <1>2, <2>1, <3>1, <3>2, <3>3
  <2>4. CountIsDue'
    BY <1>2, <2>1
  <2>5. OneCounted'
    BY <1>2, <2>1
  <2>. QED BY <2>2, <2>3, <2>4, <2>5
<1>4. CASE Fork(kind)
  <2>1. /\ childNum = 0 /\ childNum' = childNum
        /\ jobs' = jobs + 1 /\ main' = "forked"
        /\ copies' = IF AllOver THEN 0 ELSE copies
        /\ UNCHANGED mishaps
    BY <1>4 DEF Fork, Busy
  <2>2. JobIsCounted'
    <3>1. CASE AllOver
      BY <1>2, <2>1, <3>1 DEF AllOver
    <3>2. CASE ~AllOver
      BY <1>2, <2>1, <3>2
    <3>. QED BY <3>1, <3>2
  <2>3. ExecTypeOK' /\ CountIsDue' /\ OneCounted'
    BY <1>2, <2>1
  <2>. QED BY <2>2, <2>3
<1>5. CASE onResult(kind)
  BY <1>2, <1>5 DEF onResult
<1>. QED BY <1>1, <1>3, <1>4, <1>5

(* childNum++.                                                             *)
LEMMA ExecCount ==
  ASSUME IInv, Count
  PROVE  IInv'
BY DEF Count, Counted, IInv, ExecTypeOK, JobIsCounted, Uncounted, One, CountIsDue, Due,
       OneCounted, Thread

(* A job ends: its signal is due.                                          *)
LEMMA ExecJobExits ==
  ASSUME IInv, JobExits
  PROVE  IInv'
BY DEF JobExits, IInv, ExecTypeOK, JobIsCounted, Uncounted, One, CountIsDue, Due, OneCounted,
       Thread

(* cp ends, which is counted.                                              *)
LEMMA ExecCopy ==
  ASSUME IInv, CopyExits \/ SystemReturns
  PROVE  IInv'
<1> USE DEF IInv, ExecTypeOK, JobIsCounted, Uncounted, One, CountIsDue, Due, OneCounted, Thread
<1>1. CASE CopyExits
  <2>1. /\ main = "system" /\ main' = "reap" /\ sigPending' = TRUE /\ copies' = copies + 1
        /\ UNCHANGED <<childNum, jobs, handler, mishaps>>
    BY <1>1 DEF CopyExits
  <2>. QED BY <2>1
<1>2. CASE SystemReturns
  BY <1>2 DEF SystemReturns
<1>. QED BY <1>1, <1>2

(* The signal handler, in either thread.                                   *)
LEMMA ExecSignal ==
  ASSUME IInv, NEW t \in Thread, Signal(t) \/ StoreCount(t) \/ HandlerReturns(t)
  PROVE  IInv'
<1> USE DEF IInv, ExecTypeOK, JobIsCounted, Uncounted, One, CountIsDue, Due, OneCounted, Thread
<1>1. CASE Signal(t)
  <2>1. /\ sigPending /\ sigPending' = FALSE /\ handler[t].at = "none"
        /\ handler' = [handler EXCEPT ![t] = [at |-> "store", read |-> childNum]]
        /\ UNCHANGED <<main, childNum, jobs, mishaps, copies>>
    BY <1>1 DEF Signal, Blocks
  <2>2. JobIsCounted'
    BY <2>1
  <2>3. ExecTypeOK'
    <3>1. handler' \in [Thread -> [at : {"none", "store", "wait"}, read : Nat]]
      BY <2>1
    <3>. QED BY <2>1, <3>1
  <2>4. handler'[t].at = "store" /\ handler'[t].read = childNum
        /\ \A u \in Thread \ {t} : handler'[u] = handler[u]
    BY <2>1
  <2>5. CountIsDue'
    BY <2>1, <2>4
  <2>6. OneCounted'
    BY <2>1, <2>4
  <2>. QED BY <2>2, <2>3, <2>5, <2>6
<1>2. CASE StoreCount(t)
  <2>1. /\ handler[t].at = "store"
        /\ handler' = [handler EXCEPT ![t].at = "wait"]
        /\ \/ childNum' = OneLess(handler[t].read)
           \/ main = "forked" /\ UNCHANGED childNum
        /\ Flag("early_exit", main = "forked")
        /\ UNCHANGED <<main, jobs, sigPending, copies>>
    BY <1>2 DEF StoreCount
  <2>2. ExecTypeOK'
    BY <2>1 DEF OneLess, Flag
  <2>3. JobIsCounted'
    BY <2>1 DEF OneLess
  <2>4. ASSUME mishaps' \cap {"fork_failed", "early_exit"} = {}
        PROVE  /\ main # "forked" /\ childNum' = 0
               /\ \A u \in Thread : handler'[u].read <= 1
    BY <2>1, <2>4 DEF Flag, OneLess
  <2>5. CountIsDue'
    BY <2>1, <2>4
  <2>6. OneCounted'
    BY <2>1 DEF OneLess
  <2>. QED BY <2>2, <2>3, <2>5, <2>6
<1>3. CASE HandlerReturns(t)
  BY <1>3 DEF HandlerReturns, NoHandler, Children
<1>. QED BY <1>1, <1>2, <1>3

(* One step per action; those of the transfer leave execVars alone.        *)
LEMMA ExecStep == IInv /\ [Next]_vars => IInv'
<1> SUFFICES ASSUME IInv, [Next]_vars PROVE IInv'
  OBVIOUS
<1>1. CASE ServerSends \/ Server
  BY <1>1, ExecUnchanged DEF ServerSends, Server, ServerGoesOn, ServerReceives
<1>2. CASE onCommandMsg
  BY <1>2, ExecCommand
<1>3. CASE Count
  BY <1>3, ExecCount
<1>4. CASE onChunk \/ onWriteCompleteClient \/ ClientDrains \/ Down
  BY <1>4, ExecUnchanged DEF onChunk, onWriteCompleteClient, ClientDrains, Down
<1>5. CASE onEnd \/ onTimer \/ onWriteCompleteNull
  <2>1. UNCHANGED <<childNum, jobs, sigPending, handler, mishaps, copies>> /\ main = "loop"
    BY <1>5 DEF onEnd, onTimer, onWriteCompleteNull, InLoop
  <2>2. main' \in {"loop", "system", "exited", "crashed"}
    BY <1>5 DEF onEnd, onTimer, onWriteCompleteNull, InLoop
  <2>. QED
    BY <2>1, <2>2 DEF IInv, ExecTypeOK, JobIsCounted, Uncounted, CountIsDue, Due, OneCounted
<1>6. CASE CopyExits \/ SystemReturns
  BY <1>6, ExecCopy
<1>7. CASE JobExits
  BY <1>7, ExecJobExits
<1>8. CASE SignalSteps
  BY <1>8, ExecSignal DEF SignalSteps
<1>9. CASE UNCHANGED vars
  BY <1>9, ExecUnchanged DEF vars
<1>. QED
  BY <1>1, <1>2, <1>3, <1>4, <1>5, <1>6, <1>7, <1>8, <1>9 DEF Next, MainThread

(* The invariant of every behaviour.                                       *)
LEMMA ExecAlways == Spec => []IInv
BY ExecInitial, ExecStep, PTL DEF Spec

(* A node runs one job, and one more at most for each cp that ended, for   *)
(* any number of commands, files and chunks (lkpClient.cc:104).            *)
THEOREM OneJobAtATime == Spec => []OneJob
<1>1. IInv => OneJob
  BY DEF IInv, ExecTypeOK, JobIsCounted, Uncounted, One, OneCounted, OneJob
<1>. QED BY ExecAlways, <1>1, PTL

(* The signal handler does not keep the event loop waiting for a job, but  *)
(* for one for each cp that ended (lkp_extent.cc:15-21).                   *)
THEOREM HeartbeatGoesOn == Spec => []LoopNotHeldUp
<1>1. IInv => LoopNotHeldUp
  BY DEF IInv, JobIsCounted, LoopNotHeldUp
<1>. QED BY ExecAlways, <1>1, PTL

(* A node at rest that refuses commands has had a fork that failed or a    *)
(* job that had ended before it was counted (lkpClient.cc:121-122).        *)
THEOREM ReadyWhenAtRest == Spec => []ReadyAtRest
<1>1. IInv => ReadyAtRest
  BY DEF IInv, ExecTypeOK, CountIsDue, Due, ReadyAtRest, AtRest, Busy, Children
<1>. QED BY ExecAlways, <1>1, PTL
-----------------------------------------------------------------------------
(* How many messages of a type a queue holds.                              *)
Places(s, type) == {i \in 1..Len(s) : s[i].type = type}
CountOf(s, type) == Cardinality(Places(s, type))

CommandsIn(s) == CountOf(s, "Command")
EndsIn(s) == CountOf(s, "END")

(* The commands on their way to the node, and what was begun and is not    *)
(* yet answered: a file that is sent to the node, one that it sends, a job *)
(* that it has just started.  An END on its way is a file not yet answered.*)
Commands(w, f) == CommandsIn(w["server"]) + CommandsIn(f["server"])
Begun(c, p, doing) ==
  One(c["server"] \/ p.at # "idle") + One(c["client"]) + One(doing = "forked")

Calm == ~disturbed["server"] /\ ~disturbed["client"]

(* Each command is one job or one answer at most, each push one answer.    *)
Tallied ==
  /\ issued \in 0..MaxCommands /\ answered \in Nat
  /\ jobs + Commands(wire, functors) <= issued
  /\ Calm => answered + Commands(wire, functors) + EndsIn(wire["server"])
                + Begun(callback, pusher, main) <= issued

(* What is in the output buffer has been sent, and the node sends no other *)
(* file than result.tar.                                                   *)
Buffers == \A e \in End : unsent[e] <= Len(wire[e])
OnlyResult == reader["client"] # NoFile => reader["client"].file = "result"

Balanced == Tallied /\ Buffers /\ OnlyResult

NInv == TInv /\ IInv /\ Balanced
-----------------------------------------------------------------------------
(* A count is a number.                                                    *)
LEMMA CountTyped ==
  ASSUME NEW S, NEW s \in Seq(S), NEW type
  PROVE  IsFiniteSet(Places(s, type)) /\ CountOf(s, type) \in Nat
<1>1. IsFiniteSet(1..Len(s))
  BY FS_Interval
<1>2. IsFiniteSet(Places(s, type))
  BY <1>1, FS_Subset DEF Places
<1>. QED BY <1>2, FS_CardinalityType DEF CountOf

(* What is appended is one more of its type.                               *)
LEMMA CountAppend ==
  ASSUME NEW S, NEW s \in Seq(S), NEW m \in S, NEW type
  PROVE  CountOf(Append(s, m), type) = CountOf(s, type) + One(m.type = type)
<1> DEFINE n == Len(s) + 1
           old == Places(s, type)
           new == Places(Append(s, m), type)
<1>1. IsFiniteSet(old) /\ n \notin old
  <2>1. IsFiniteSet(old)
    BY CountTyped
  <2>2. n \notin old
    BY DEF Places
  <2>. QED BY <2>1, <2>2
<1>2. new = IF m.type = type THEN old \cup {n} ELSE old
  BY DEF Places
<1> HIDE DEF old, new, n
<1>3. CASE m.type = type
  <2>1. Cardinality(new) = Cardinality(old) + 1
    BY <1>1, <1>2, <1>3, FS_AddElement
  <2>. QED BY <2>1, <1>3 DEF CountOf, One, old, new
<1>4. CASE m.type # type
  <2>1. Cardinality(old) \in Nat
    BY <1>1, FS_CardinalityType
  <2>. QED BY <2>1, <1>2, <1>4 DEF CountOf, One, old, new
<1>. QED BY <1>3, <1>4

(* What is taken from the head is one less.                                *)
LEMMA CountTail ==
  ASSUME NEW S, NEW s \in Seq(S), s # <<>>, NEW type
  PROVE  CountOf(s, type) = CountOf(Tail(s), type) + One(Head(s).type = type)
<1> DEFINE all == Places(s, type)
           rest == all \ {1}
           tail == Places(Tail(s), type)
           Up == [i \in tail |-> i + 1]
<1>0. Tail(s) \in Seq(S) /\ Len(Tail(s)) = Len(s) - 1
      /\ \A i \in 1..(Len(s) - 1) : Tail(s)[i] = s[i + 1]
  BY TailFacts
<1>1. IsFiniteSet(tail) /\ IsFiniteSet(all) /\ IsFiniteSet(rest)
  BY <1>0, CountTyped, FS_Subset
<1>2. ExistsBijection(tail, rest)
  <2>1. Up \in [tail -> rest]
    BY <1>0 DEF Places
  <2>2. \A i \in tail, j \in tail : Up[i] = Up[j] => i = j
    BY DEF Places
  <2>3. \A j \in rest : \E i \in tail : Up[i] = j
    <3> SUFFICES ASSUME NEW j \in rest PROVE \E i \in tail : Up[i] = j
      OBVIOUS
    <3>1. j - 1 \in tail /\ Up[j - 1] = j
      BY <1>0 DEF Places
    <3>. QED BY <3>1
  <2>4. Up \in Bijection(tail, rest)
    BY <2>1, <2>2, <2>3, Fun_IsBij
  <2>. QED BY <2>4 DEF ExistsBijection
<1>3. Cardinality(tail) = Cardinality(rest)
  BY <1>1, <1>2, FS_Bijection
<1>4. 1 \in all <=> Head(s).type = type
  BY DEF Places
<1> HIDE DEF all, tail
<1>5. CASE Head(s).type = type
  <2>1. Cardinality(rest) = Cardinality(all) - 1
    BY <1>1, <1>4, <1>5, FS_RemoveElement
  <2>2. Cardinality(all) \in Nat
    BY <1>1, FS_CardinalityType
  <2>. QED BY <1>3, <1>5, <2>1, <2>2 DEF CountOf, One, all, tail
<1>6. CASE Head(s).type # type
  <2>1. rest = all
    BY <1>4, <1>6
  <2>2. Cardinality(all) \in Nat
    BY <1>1, FS_CardinalityType
  <2>. QED BY <1>3, <1>6, <2>1, <2>2, SMTT(30) DEF CountOf, One, all, tail
<1>. QED BY <1>5, <1>6

(* The same for the two types that are counted.                            *)
LEMMA Counts ==
  ASSUME NEW S, NEW s \in Seq(S)
  PROVE  /\ CommandsIn(s) \in Nat /\ EndsIn(s) \in Nat
         /\ \A m \in S :
              /\ CommandsIn(Append(s, m)) = CommandsIn(s) + One(m.type = "Command")
              /\ EndsIn(Append(s, m)) = EndsIn(s) + One(m.type = "END")
         /\ s # <<>> =>
              /\ CommandsIn(s) = CommandsIn(Tail(s)) + One(Head(s).type = "Command")
              /\ EndsIn(s) = EndsIn(Tail(s)) + One(Head(s).type = "END")
              /\ CommandsIn(Tail(s)) \in Nat /\ EndsIn(Tail(s)) \in Nat
<1>1. \A type : CountOf(s, type) \in Nat
  BY CountTyped
<1>2. \A m \in S : \A type : CountOf(Append(s, m), type) = CountOf(s, type) + One(m.type = type)
  BY CountAppend
<1>3. s # <<>> => \A type : CountOf(s, type) = CountOf(Tail(s), type) + One(Head(s).type = type)
  BY CountTail
<1>4. s # <<>> => \A type : CountOf(Tail(s), type) \in Nat
  BY TailFacts, CountTyped
<1>5. CommandsIn(s) \in Nat /\ EndsIn(s) \in Nat
  BY <1>1, Zenon DEF CommandsIn, EndsIn
<1>6. \A m \in S :
        /\ CommandsIn(Append(s, m)) = CommandsIn(s) + One(m.type = "Command")
        /\ EndsIn(Append(s, m)) = EndsIn(s) + One(m.type = "END")
  BY <1>2, Zenon DEF CommandsIn, EndsIn
<1>7. s # <<>> =>
        /\ CommandsIn(s) = CommandsIn(Tail(s)) + One(Head(s).type = "Command")
        /\ EndsIn(s) = EndsIn(Tail(s)) + One(Head(s).type = "END")
  BY <1>3, Zenon DEF CommandsIn, EndsIn
<1>8. s # <<>> => CommandsIn(Tail(s)) \in Nat /\ EndsIn(Tail(s)) \in Nat
  BY <1>4, Zenon DEF CommandsIn, EndsIn
<1>. QED BY <1>5, <1>6, <1>7, <1>8

(* Nothing is in an empty queue.                                           *)
LEMMA CountsNone == CommandsIn(<<>>) = 0 /\ EndsIn(<<>>) = 0
<1>1. \A type : Places(<<>>, type) = {}
  BY DEF Places
<1>. QED BY <1>1, FS_EmptySet DEF CountOf, CommandsIn, EndsIn
-----------------------------------------------------------------------------
(* The two ends.                                                           *)
LEMMA TheEnds ==
  /\ "server" \in End /\ "client" \in End /\ End = {"server", "client"}
  /\ Peer("server") = "client" /\ Peer("client") = "server"
BY DEF Peer, End

(* All sums are numbers.                                                   *)
LEMMA TallyTyped ==
  ASSUME NEW w \in [End -> Seq(Msg)], NEW f \in [End -> Seq(Functor)]
  PROVE  /\ CommandsIn(w["server"]) \in Nat /\ CommandsIn(f["server"]) \in Nat
         /\ EndsIn(w["server"]) \in Nat /\ Commands(w, f) \in Nat
<1>1. PICK s \in Seq(Msg), q \in Seq(Functor) : s = w["server"] /\ q = f["server"]
  BY TheEnds
<1>2. CommandsIn(s) \in Nat /\ EndsIn(s) \in Nat /\ CommandsIn(q) \in Nat
  BY Counts
<1>. QED BY <1>1, <1>2 DEF Commands

(* The same for what is begun.                                             *)
LEMMA BegunTyped == \A c, p, doing : Begun(c, p, doing) \in Nat
<1>1. \A x : One(x) \in Nat
  BY DEF One
<1>. QED BY <1>1 DEF Begun

(* A step that issues n commands or pushes and gives k answers, by which   *)
(* the commands on their way change by dc, the ENDs by de, the jobs and    *)
(* what is begun by dj and db at most.                                     *)
Moves(n, k, dc, de, dj, db) ==
  /\ issued' = issued + n /\ (n = 1 => issued < MaxCommands)
  /\ answered' = answered + k
  /\ Commands(wire', functors') = Commands(wire, functors) + dc
  /\ EndsIn(wire'["server"]) = EndsIn(wire["server"]) + de
  /\ jobs' <= jobs + dj
  /\ Calm' => Calm
  /\ Calm => Begun(callback', pusher', main') <= Begun(callback, pusher, main) + db

(* The tally stays when nothing is added but what is issued.               *)
LEMMA TallyMoves ==
  ASSUME NInv, TransferTypeOK', IInv',
         NEW n \in {0, 1}, NEW k \in {0, 1}, NEW dc \in -1..1, NEW de \in -1..1,
         NEW dj \in -1..1, NEW db \in -1..1,
         Moves(n, k, dc, de, dj, db), dj + dc <= n, k + dc + de + db <= n
  PROVE  Tallied'
<1>1. TransferTypeOK /\ IInv /\ Tallied
  BY DEF NInv, TInv, Balanced
<1>2. PICK j \in Nat, j2 \in Nat : j = jobs /\ j2 = jobs'
  BY <1>1 DEF IInv, ExecTypeOK
<1>3. /\ wire \in [End -> Seq(Msg)] /\ functors \in [End -> Seq(Functor)]
      /\ wire' \in [End -> Seq(Msg)] /\ functors' \in [End -> Seq(Functor)]
  BY <1>1 DEF TransferTypeOK
<1>4. PICK c \in Nat, e \in Nat : c = Commands(wire, functors) /\ e = EndsIn(wire["server"])
  BY <1>3, TallyTyped
<1>5. PICK c2 \in Nat, e2 \in Nat : c2 = Commands(wire', functors') /\ e2 = EndsIn(wire'["server"])
  BY <1>3, TallyTyped
<1>6. PICK b \in Nat, b2 \in Nat :
        b = Begun(callback, pusher, main) /\ b2 = Begun(callback', pusher', main')
  BY BegunTyped
<1>7. PICK i \in Nat, a \in Nat : i = issued /\ a = answered /\ i <= MaxCommands
  BY <1>1, ClientAssumption DEF Tallied
<1>8. /\ issued' = i + n /\ (n = 1 => i < MaxCommands) /\ answered' = a + k
      /\ c2 = c + dc /\ e2 = e + de /\ j2 <= j + dj
      /\ Calm => b2 <= b + db
  BY <1>2, <1>4, <1>5, <1>6, <1>7 DEF Moves
<1>9. issued' \in 0..MaxCommands /\ answered' \in Nat
  BY <1>7, <1>8, ClientAssumption
<1>10. j2 + c2 <= i + n
  <2>1. j + c <= i
    BY <1>1, <1>2, <1>4, <1>7 DEF Tallied
  <2>. QED BY <1>8, <2>1
<1>11. ASSUME Calm' PROVE a + k + c2 + e2 + b2 <= i + n
  <2>1. Calm
    BY <1>11 DEF Moves
  <2>2. a + c + e + b <= i
    BY <1>1, <1>4, <1>6, <1>7, <2>1 DEF Tallied
  <2>3. b2 <= b + db
    BY <1>8, <2>1
  <2>. QED BY <1>8, <2>2, <2>3
<1>12. jobs' + Commands(wire', functors') <= issued'
  BY <1>2, <1>5, <1>8, <1>10
<1>13. Calm' => answered' + Commands(wire', functors') + EndsIn(wire'["server"])
                  + Begun(callback', pusher', main') <= issued'
  BY <1>5, <1>6, <1>8, <1>11
<1>. QED BY <1>9, <1>12, <1>13 DEF Tallied

(* What the server sends.                                                  *)
LEMMA ServerSent ==
  ASSUME TransferTypeOK, Buffers, NEW m \in Msg, NEW queue \in Seq(Functor), NEW set \in BOOLEAN,
         \/ SendInLoop("server", m, wire, queue, set)
         \/ Sent("server", m, queue, set) /\ wire'["client"] = wire["client"]
              /\ unsent'["client"] = unsent["client"]
  PROVE  /\ CommandsIn(wire'["server"]) = CommandsIn(wire["server"]) + One(m.type = "Command")
         /\ EndsIn(wire'["server"]) = EndsIn(wire["server"]) + One(m.type = "END")
         /\ CommandsIn(functors'["server"]) = CommandsIn(queue)
         /\ Buffers'
<1> DEFINE e == "server"
<1>0. PICK v \in [End -> Seq(Msg)] : v = wire
  BY DEF TransferTypeOK
<1>1. /\ Sent(e, m, queue, set)
      /\ wire'["client"] = wire["client"] /\ unsent'["client"] = unsent["client"]
  <2>1. CASE SendInLoop(e, m, wire, queue, set)
    <3>1. SendInLoop(e, m, v, queue, set) /\ v[e] = wire[e] /\ e \in End
      BY <1>0, <2>1, TheEnds
    <3>2. Sent(e, m, queue, set) /\ \A p \in End \ {e} : wire'[p] = v[p] /\ unsent'[p] = unsent[p]
      BY <3>1, SendEffect
    <3>. QED BY <1>0, <3>2, TheEnds
  <2>. QED BY <2>1
<1>2. PICK w \in Seq(Msg) : w = wire[e]
  BY <1>0, TheEnds
<1>3. wire'[e] = Append(w, m)
  BY <1>1, <1>2 DEF Sent
<1>4. /\ CommandsIn(Append(w, m)) = CommandsIn(w) + One(m.type = "Command")
      /\ EndsIn(Append(w, m)) = EndsIn(w) + One(m.type = "END")
  BY Counts
<1>5. CommandsIn(Append(queue, Complete)) = CommandsIn(queue)
  <2>1. CommandsIn(Append(queue, Complete)) = CommandsIn(queue) + One(Complete.type = "Command")
        /\ CommandsIn(queue) \in Nat
    BY FunctorFacts, Counts
  <2>2. Complete.type # "Command"
    BY DEF Complete
  <2>. QED BY <2>1, <2>2 DEF One
<1>6. CommandsIn(functors'[e]) = CommandsIn(queue)
  BY <1>1, <1>5 DEF Sent
<1>7. Buffers'
  <2>1. unsent'["client"] <= Len(wire'["client"])
    BY <1>1, TheEnds DEF Buffers
  <2>2. unsent'[e] <= Len(wire'[e])
    <3>1. unsent[e] \in Nat /\ unsent[e] <= Len(w)
      BY <1>2, TheEnds DEF Buffers, TransferTypeOK
    <3>2. Len(Append(w, m)) = Len(w) + 1 /\ Len(w) \in Nat
      OBVIOUS
    <3>. QED BY <1>1, <1>3, <3>1, <3>2 DEF Sent
  <2>. QED BY <2>1, <2>2, TheEnds DEF Buffers
<1>. QED BY <1>2, <1>3, <1>4, <1>6, <1>7

(* What the node sends, when w is on its way.                              *)
LEMMA NodeSent ==
  ASSUME TransferTypeOK, NEW m \in Msg, NEW w \in [End -> Seq(Msg)],
         NEW queue \in Seq(Functor), NEW set \in BOOLEAN, w["client"] = wire["client"],
         SendInLoop("client", m, w, queue, set),
         unsent["client"] <= Len(wire["client"]), unsent["server"] <= Len(w["server"])
  PROVE  /\ wire'["server"] = w["server"] /\ functors'["server"] = functors["server"]
         /\ Buffers'
<1> DEFINE e == "client"
<1>1. /\ Sent(e, m, queue, set) /\ e \in End
      /\ \A p \in End \ {e} :
           wire'[p] = w[p] /\ unsent'[p] = unsent[p] /\ functors'[p] = functors[p]
  <2>1. e \in End /\ w[e] = wire[e]
    BY TheEnds
  <2>. QED BY <2>1, SendEffect, SMTT(30)
<1>2. /\ wire'["server"] = w["server"] /\ functors'["server"] = functors["server"]
      /\ unsent'["server"] = unsent["server"]
  BY <1>1, TheEnds
<1>3. unsent'[e] <= Len(wire'[e])
  <2>1. PICK v \in Seq(Msg) : v = wire[e]
    BY <1>1 DEF TransferTypeOK
  <2>2. unsent[e] \in Nat /\ unsent[e] <= Len(v)
    BY <1>1, <2>1 DEF TransferTypeOK
  <2>3. Len(Append(v, m)) = Len(v) + 1 /\ Len(v) \in Nat
    OBVIOUS
  <2>. QED BY <1>1, <2>1, <2>2, <2>3 DEF Sent
<1>. QED BY <1>2, <1>3, TheEnds DEF Buffers

(* What is read from the wire of the other side.                           *)
LEMMA MessageTaken ==
  ASSUME TransferTypeOK, Buffers, NEW m, Arrived("client", m)
  PROVE  /\ Taken("client") \in [End -> Seq(Msg)] /\ m \in Msg
         /\ Taken("client")["client"] = wire["client"]
         /\ unsent["server"] <= Len(Taken("client")["server"])
         /\ CommandsIn(wire["server"])
              = CommandsIn(Taken("client")["server"]) + One(m.type = "Command")
         /\ EndsIn(wire["server"]) = EndsIn(Taken("client")["server"]) + One(m.type = "END")
         /\ CommandsIn(Taken("client")["server"]) \in Nat
         /\ EndsIn(Taken("client")["server"]) \in Nat
<1>1. /\ wire["server"] # <<>> /\ Head(wire["server"]) = m /\ m \in Msg
      /\ Taken("client") \in [End -> Seq(Msg)]
      /\ Taken("client")["client"] = wire["client"]
      /\ Taken("client")["server"] = Tail(wire["server"])
  <2>1. PICK e : e = "client" /\ e \in End /\ Peer(e) = "server"
    BY TheEnds
  <2>2. Arrived(e, m)
    BY <2>1
  <2>. QED BY <2>1, <2>2, ArrivedFacts
<1>2. PICK w \in Seq(Msg) : w = wire["server"]
  BY TheEnds DEF TransferTypeOK
<1>3. unsent["server"] \in Nat /\ Len(w) > unsent["server"]
  BY <1>2, TheEnds DEF TransferTypeOK, Arrived
<1>4. Len(Tail(w)) = Len(w) - 1 /\ Len(w) \in Nat
  BY <1>1, <1>2, TailFacts
<1>5. /\ CommandsIn(w) = CommandsIn(Tail(w)) + One(Head(w).type = "Command")
      /\ EndsIn(w) = EndsIn(Tail(w)) + One(Head(w).type = "END")
      /\ CommandsIn(Tail(w)) \in Nat /\ EndsIn(Tail(w)) \in Nat
  BY <1>1, <1>2, Counts
<1>6. unsent["server"] <= Len(Tail(w))
  BY <1>3, <1>4
<1> HIDE DEF Taken
<1>. QED BY <1>1, <1>2, <1>5, <1>6

(* The same at the server, where nothing is counted.                       *)
LEMMA ServerTakes ==
  ASSUME TransferTypeOK, Buffers, NEW m, Arrived("server", m)
  PROVE  /\ Taken("server")["server"] = wire["server"]
         /\ unsent["client"] <= Len(Taken("server")["client"])
<1>1. /\ wire["client"] # <<>> /\ Taken("server")["server"] = wire["server"]
      /\ Taken("server")["client"] = Tail(wire["client"])
  <2>1. PICK e : e = "server" /\ e \in End /\ Peer(e) = "client"
    BY TheEnds
  <2>2. Arrived(e, m)
    BY <2>1
  <2>. QED BY <2>1, <2>2, ArrivedFacts
<1>2. PICK w \in Seq(Msg) : w = wire["client"]
  BY TheEnds DEF TransferTypeOK
<1>3. unsent["client"] \in Nat /\ Len(w) > unsent["client"]
  BY <1>2, TheEnds DEF TransferTypeOK, Arrived
<1>4. Len(Tail(w)) = Len(w) - 1 /\ Len(w) \in Nat
  BY <1>1, <1>2, TailFacts
<1>5. unsent["client"] <= Len(Tail(w))
  BY <1>3, <1>4
<1>. QED BY <1>1, <1>2, <1>5
-----------------------------------------------------------------------------
(* What the invariant says of the state that is counted.                   *)
LEMMA NFacts ==
  ASSUME NInv
  PROVE  /\ TInv /\ TransferTypeOK /\ Buffers /\ OnlyResult
         /\ answered \in Nat /\ jobs \in Nat /\ issued \in Nat
         /\ functors["server"] \in Seq(Functor) /\ functors["client"] \in Seq(Functor)
         /\ callback["server"] \in BOOLEAN /\ callback["client"] \in BOOLEAN
         /\ unsent["server"] <= Len(wire["server"]) /\ unsent["client"] <= Len(wire["client"])
         /\ CommandsIn(wire["server"]) \in Nat /\ CommandsIn(functors["server"]) \in Nat
         /\ EndsIn(wire["server"]) \in Nat /\ Commands(wire, functors) \in Nat
         /\ Begun(callback, pusher, main) \in Nat
<1>1. TInv /\ TransferTypeOK /\ Buffers /\ OnlyResult /\ Tallied /\ ExecTypeOK
  BY DEF NInv, TInv, IInv, Balanced
<1>2. wire \in [End -> Seq(Msg)] /\ functors \in [End -> Seq(Functor)]
      /\ callback \in [End -> BOOLEAN]
  BY <1>1 DEF TransferTypeOK
<1>3. CommandsIn(wire["server"]) \in Nat /\ CommandsIn(functors["server"]) \in Nat
      /\ EndsIn(wire["server"]) \in Nat /\ Commands(wire, functors) \in Nat
  BY <1>2, TallyTyped
<1>4. Begun(callback, pusher, main) \in Nat
  BY BegunTyped
<1>5. answered \in Nat /\ jobs \in Nat /\ issued \in Nat
  BY <1>1, ClientAssumption DEF Tallied, ExecTypeOK
<1>. QED BY <1>1, <1>2, <1>3, <1>4, <1>5, TheEnds DEF Buffers

(* A disturbance is not forgotten.                                         *)
LEMMA CalmWas ==
  ASSUME TransferTypeOK,
         Disturb("server") \/ Disturb("client") \/ UNCHANGED disturbed
  PROVE  Calm' => Calm
<1>1. CASE Disturb("server")
  BY <1>1, DisturbFacts, TheEnds DEF Calm
<1>2. CASE Disturb("client")
  BY <1>2, DisturbFacts, TheEnds DEF Calm
<1>3. CASE UNCHANGED disturbed
  BY <1>3 DEF Calm
<1>. QED BY <1>1, <1>2, <1>3

(* The server sends a command to the node.                                 *)
LEMMA SendCommandBalanced ==
  ASSUME NInv, TransferTypeOK', IInv', NEW kind \in Kinds, SendCommand(kind),
         issued < MaxCommands, issued' = issued + 1, UNCHANGED <<main, jobs, answered>>
  PROVE  Balanced'
<1> DEFINE m == CommandMsg(kind)
<1>1. /\ m \in Msg /\ m \in Functor /\ m.type = "Command"
  BY FunctorFacts, MessageFacts DEF CommandMsg
<1>2. UNCHANGED <<callback, pusher, reader>> /\ Disturb("server")
  BY DEF SendCommand, Send
<1>3. Calm' => Calm
  BY <1>2, NFacts, CalmWas
<1>4. /\ CommandsIn(wire'["server"]) + CommandsIn(functors'["server"])
           = CommandsIn(wire["server"]) + CommandsIn(functors["server"]) + 1
      /\ EndsIn(wire'["server"]) = EndsIn(wire["server"])
      /\ Buffers'
  <2>1. CASE ownLoop
    <3>1. SendInLoop("server", m, wire, functors["server"], callback["server"])
      BY <2>1 DEF SendCommand, Send
    <3>2. PICK q \in Seq(Functor), set \in BOOLEAN :
            q = functors["server"] /\ set = callback["server"]
      BY NFacts
    <3>3. SendInLoop("server", m, wire, q, set)
      BY <3>1, <3>2
    <3> HIDE DEF m
    <3>4. /\ CommandsIn(wire'["server"]) = CommandsIn(wire["server"]) + One(m.type = "Command")
          /\ EndsIn(wire'["server"]) = EndsIn(wire["server"]) + One(m.type = "END")
          /\ CommandsIn(functors'["server"]) = CommandsIn(q)
          /\ Buffers'
      BY <1>1, <3>3, NFacts, ServerSent
    <3>. QED BY <1>1, <3>2, <3>4, NFacts DEF One
  <2>2. CASE ~ownLoop
    <3>1. /\ functors' = [functors EXCEPT !["server"] = Append(@, m)]
          /\ UNCHANGED <<wire, unsent>>
      BY <2>2 DEF SendCommand
    <3>2. PICK q \in Seq(Functor) : q = functors["server"]
      BY NFacts
    <3>3. functors'["server"] = Append(q, m)
      BY <3>1, <3>2, NFacts, TheEnds DEF TransferTypeOK
    <3> HIDE DEF m
    <3>4. CommandsIn(Append(q, m)) = CommandsIn(q) + One(m.type = "Command")
      BY <1>1, Counts
    <3>5. Buffers'
      BY <3>1, NFacts DEF Buffers
    <3>. QED BY <1>1, <3>1, <3>2, <3>3, <3>4, <3>5, NFacts, SMTT(30) DEF One
  <2>. QED BY <2>1, <2>2
<1>5. Moves(1, 0, 1, 0, 0, 0)
  <2>1. Commands(wire', functors') = Commands(wire, functors) + 1
        /\ EndsIn(wire'["server"]) = EndsIn(wire["server"]) + 0
    BY <1>4, NFacts DEF Commands
  <2>2. jobs' <= jobs + 0 /\ answered' = answered + 0
    BY NFacts
  <2>3. Begun(callback', pusher', main') <= Begun(callback, pusher, main) + 0
    BY <1>2, NFacts
  <2>. QED BY <1>3, <2>1, <2>2, <2>3 DEF Moves
<1>6. OnlyResult'
  BY <1>2, NFacts DEF OnlyResult
<1>7. Tallied'
  BY <1>5, TallyMoves
<1>. QED BY <1>4, <1>6, <1>7 DEF Balanced

(* A push, in the connection's loop and in another.                        *)
LEMMA PushBalanced ==
  ASSUME NInv, TransferTypeOK', IInv', NEW t \in Testcase, Push(t) \/ PushOpen(t),
         issued < MaxCommands, issued' = issued + 1, UNCHANGED <<main, jobs, answered>>
  PROVE  Balanced'
<1>1. callback'["client"] = callback["client"] /\ reader'["client"] = reader["client"]
  BY NFacts, TheEnds DEF Push, PushOpen, StartTransfer, TransferTypeOK
<1>2. Calm' => Calm
  <2>1. CASE Push(t)
    BY <2>1, NFacts, CalmWas DEF Push, StartTransfer
  <2>2. CASE PushOpen(t)
    BY <2>2, NFacts, TheEnds DEF PushOpen, Calm, TransferTypeOK
  <2>. QED BY <2>1, <2>2
<1>3. /\ CommandsIn(wire'["server"]) = CommandsIn(wire["server"])
      /\ EndsIn(wire'["server"]) = EndsIn(wire["server"])
      /\ CommandsIn(functors'["server"]) = CommandsIn(functors["server"])
      /\ Buffers'
  <2>1. CASE Push(t)
    <3>1. PICK m : m = First(t, Content(t, 1))
      OBVIOUS
    <3>2. m \in Msg /\ m.type = "File"
      <4>1. t \in File /\ 1 \in Nat
        BY DEF File
      <4>2. Content(t, 1) \in Chunk
        BY <4>1, ChunkFacts
      <4>3. First(t, Content(t, 1)) \in FirstMsg
        BY <4>1, <4>2, ChunkFacts
      <4>. QED BY <3>1, <4>3, MessageFacts
    <3>3. PICK q \in Seq(Functor), set \in BOOLEAN : q = functors["server"] /\ set = TRUE
      BY NFacts
    <3>4. SendInLoop("server", m, wire, q, set)
      BY <2>1, <3>1, <3>3 DEF Push, StartTransfer
    <3>5. /\ CommandsIn(wire'["server"]) = CommandsIn(wire["server"]) + One(m.type = "Command")
          /\ EndsIn(wire'["server"]) = EndsIn(wire["server"]) + One(m.type = "END")
          /\ CommandsIn(functors'["server"]) = CommandsIn(q)
          /\ Buffers'
      BY <3>2, <3>4, NFacts, ServerSent
    <3>. QED BY <3>2, <3>3, <3>5, NFacts DEF One
  <2>2. CASE PushOpen(t)
    BY <2>2, NFacts DEF PushOpen, Buffers
  <2>. QED BY <2>1, <2>2
<1>4. Moves(1, 0, 0, 0, 0, 1)
  <2>1. Commands(wire', functors') = Commands(wire, functors) + 0
        /\ EndsIn(wire'["server"]) = EndsIn(wire["server"]) + 0
    BY <1>3, NFacts DEF Commands
  <2>2. jobs' <= jobs + 0 /\ answered' = answered + 0
    BY NFacts
  <2>3. Begun(callback', pusher', main') <= Begun(callback, pusher, main) + 1
    BY <1>1 DEF Begun, One
  <2>. QED BY <1>2, <2>1, <2>2, <2>3 DEF Moves
<1>5. OnlyResult'
  BY <1>1, NFacts DEF OnlyResult
<1>6. Tallied'
  BY <1>4, TallyMoves
<1>. QED BY <1>3, <1>5, <1>6 DEF Balanced
-----------------------------------------------------------------------------
(* What One is.                                                            *)
LEMMA OneIs == \A x : One(x) \in Nat /\ (x => One(x) = 1) /\ (~x => One(x) = 0)
BY DEF One

(* When nothing was disturbed the callback is set while it is queued, and  *)
(* no push has begun.                                                      *)
LEMMA CallbackIsSet ==
  ASSUME TInv, NEW e \in End, Completes(e), ~disturbed[e]
  PROVE  callback[e] /\ ~Pushing(e)
<1>1. Undisturbed(e) /\ functors[e] \in Seq(Functor)
  BY EndTypes DEF TInv, EndInv
<1>2. functors[e] # <<>> /\ functors[e][1] = Complete
  BY CompleteEffect
<1>3. 1 \in 1..Len(functors[e])
  BY <1>1, <1>2
<1>4. ~Resting(e)
  BY <1>2, <1>3, FunctorFacts DEF Resting
<1>5. ~Buffered(e)
  BY <1>2 DEF Buffered
<1>6. ~Pushing(e)
  BY <1>1, <1>2 DEF Undisturbed, PushIsAlone, Pushing
<1>7. callback[e]
  BY <1>1, <1>4, <1>5, <1>6 DEF Undisturbed, Queued, Posted
<1>. QED BY <1>6, <1>7

(* The callback of the server sends the next chunk, or END and is done.    *)
LEMMA ServerCompletes ==
  ASSUME NInv, TransferTypeOK', IInv', WriteComplete("server"),
         UNCHANGED <<main, jobs, issued, answered>>
  PROVE  Balanced'
<1>1. PICK e : e = "server" /\ e \in End /\ Completes(e)
  BY TheEnds DEF WriteComplete, Completes
<1>2. PICK m \in Msg, q \in Seq(Functor), set \in BOOLEAN :
        m = NextOf(e) /\ q = functors[e] /\ set = callback'[e]
  BY <1>1, CompleteEffect, NFacts
<1>3. /\ q # <<>> /\ q[1] = Complete
      /\ Sent(e, m, Tail(q), set) /\ \A p \in End \ {e} : Same(p)
      /\ callback'[e] = (callback[e] /\ More(e))
  BY <1>1, <1>2, CompleteEffect, NFacts
<1>4. /\ wire'["client"] = wire["client"] /\ unsent'["client"] = unsent["client"]
      /\ callback'["client"] = callback["client"] /\ reader'["client"] = reader["client"]
  BY <1>1, <1>3, TheEnds DEF Same, Keeps
<1>5. /\ pusher' = pusher /\ UNCHANGED disturbed
  BY <1>1 DEF Completes
<1>6. Tail(q) \in Seq(Functor) /\ CommandsIn(Tail(q)) = CommandsIn(q)
  <2>1. CommandsIn(q) = CommandsIn(Tail(q)) + One(Head(q).type = "Command")
        /\ CommandsIn(Tail(q)) \in Nat
    BY <1>3, Counts
  <2>2. Head(q).type # "Command"
    BY <1>3 DEF Complete
  <2>. QED BY <1>3, <2>1, <2>2, TailFacts DEF One
<1>7. /\ CommandsIn(wire'["server"]) = CommandsIn(wire["server"]) + One(m.type = "Command")
      /\ EndsIn(wire'["server"]) = EndsIn(wire["server"]) + One(m.type = "END")
      /\ CommandsIn(functors'["server"]) = CommandsIn(Tail(q))
      /\ Buffers'
  BY <1>1, <1>3, <1>4, <1>6, NFacts, ServerSent
<1>8. IF More(e) THEN m.type = "File" ELSE m.type = "END"
  BY <1>2 DEF NextOf, Next_, END_
<1>9. Calm' => Calm
  BY <1>5, NFacts, CalmWas
<1>10. Commands(wire', functors') = Commands(wire, functors) + 0
  BY <1>1, <1>2, <1>6, <1>7, <1>8, NFacts DEF Commands, One
<1>11. OnlyResult'
  BY <1>4, NFacts DEF OnlyResult
<1>12. jobs' <= jobs + 0 /\ answered' = answered + 0 /\ issued' = issued + 0
  BY NFacts
<1>13. CASE More(e)
  <2>1. EndsIn(wire'["server"]) = EndsIn(wire["server"]) + 0
    BY <1>7, <1>8, <1>13, NFacts DEF One
  <2>2. Begun(callback', pusher', main') <= Begun(callback, pusher, main) + 0
    <3>1. callback'["server"] = callback["server"]
      BY <1>1, <1>3, <1>13, NFacts
    <3>. QED BY <1>4, <1>5, <3>1, NFacts DEF Begun
  <2>3. Moves(0, 0, 0, 0, 0, 0)
    BY <1>9, <1>10, <1>12, <2>1, <2>2 DEF Moves
  <2>4. Tallied'
    BY <2>3, TallyMoves
  <2>. QED BY <1>7, <1>11, <2>4 DEF Balanced
<1>14. CASE ~More(e)
  <2>1. EndsIn(wire'["server"]) = EndsIn(wire["server"]) + 1
    BY <1>7, <1>8, <1>14, NFacts DEF One
  <2>2. ASSUME Calm
        PROVE  Begun(callback', pusher', main') <= Begun(callback, pusher, main) + (-1)
    <3>1. callback[e] /\ pusher.at = "idle"
      BY <1>1, <2>2, NFacts, CallbackIsSet DEF Calm, Pushing
    <3>2. ~(callback'["server"] \/ pusher'.at # "idle")
      BY <1>1, <1>3, <1>5, <1>14, <3>1
    <3>3. callback["server"] \/ pusher.at # "idle"
      BY <1>1, <3>1
    <3>4. One(callback'["server"] \/ pusher'.at # "idle") = 0
      BY <3>2, OneIs, Zenon
    <3>5. One(callback["server"] \/ pusher.at # "idle") = 1
      BY <3>3, OneIs, Zenon
    <3>6. PICK x \in Nat, y \in Nat : x = One(callback["client"]) /\ y = One(main = "forked")
      BY OneIs
    <3>7. Begun(callback, pusher, main) = 1 + x + y
      BY <3>5, <3>6 DEF Begun
    <3>8. Begun(callback', pusher', main') = 0 + x + y
      BY <1>4, <1>5, <3>4, <3>6 DEF Begun
    <3>. QED BY <3>6, <3>7, <3>8
  <2>3. Moves(0, 0, 0, 1, 0, -1)
    BY <1>9, <1>10, <1>12, <2>1, <2>2 DEF Moves
  <2>4. Tallied'
    BY <2>3, TallyMoves
  <2>. QED BY <1>7, <1>11, <2>4 DEF Balanced
<1>. QED BY <1>13, <1>14

(* END of the node is the answer, and its callback is done.                *)
LEMMA NodeCompletes ==
  ASSUME NInv, TransferTypeOK', IInv', onWriteCompleteClient
  PROVE  Balanced'
<1>1. PICK e : e = "client" /\ e \in End /\ Completes(e)
  BY TheEnds DEF onWriteCompleteClient, WriteComplete, Completes
<1>2. PICK m \in Msg, q \in Seq(Functor), set \in BOOLEAN :
        m = NextOf(e) /\ q = Tail(functors[e]) /\ set = callback'[e]
  <2>1. Tail(functors[e]) \in Seq(Functor)
    BY <1>1, CompleteEffect, NFacts, TailFacts
  <2>. QED BY <1>1, <2>1, CompleteEffect, NFacts
<1>3. /\ Sent(e, m, q, set) /\ \A p \in End \ {e} : Same(p)
      /\ callback'[e] = (callback[e] /\ More(e))
      /\ reader[e] \in [file : File, at : Nat \ {0}]
      /\ reader'[e] = [file |-> reader[e].file,
                       at |-> IF More(e) THEN reader[e].at + 1 ELSE reader[e].at]
  BY <1>1, <1>2, CompleteEffect, NFacts
<1>4. /\ wire'["server"] = wire["server"] /\ unsent'["server"] = unsent["server"]
      /\ functors'["server"] = functors["server"] /\ callback'["server"] = callback["server"]
  BY <1>1, <1>3, TheEnds DEF Same, Keeps
<1>5. /\ UNCHANGED <<pusher, disturbed, main, jobs, issued>>
      /\ answered' = answered + (IF reader["client"].at > Chunks["result"] THEN 1 ELSE 0)
  BY <1>1 DEF Completes, onWriteCompleteClient, execVars
<1>6. Buffers'
  <2>1. PICK v \in Seq(Msg) : v = wire[e]
    BY <1>1, NFacts DEF TransferTypeOK
  <2>2. unsent[e] \in Nat /\ unsent[e] <= Len(v)
    BY <1>1, <2>1, NFacts DEF TransferTypeOK
  <2>3. Len(Append(v, m)) = Len(v) + 1 /\ Len(v) \in Nat
    OBVIOUS
  <2>4. unsent'[e] <= Len(wire'[e])
    BY <1>3, <2>1, <2>2, <2>3 DEF Sent
  <2>. QED BY <1>1, <1>4, <2>4, NFacts, TheEnds DEF Buffers
<1>7. reader["client"].file = "result" /\ reader'["client"].file = "result"
  <2>1. reader[e] # NoFile
    BY <1>3, TransferAssumption DEF NoFile
  <2>. QED BY <1>1, <1>3, <2>1, NFacts DEF OnlyResult
<1>8. OnlyResult'
  BY <1>7 DEF OnlyResult
<1>9. answered' = answered + (IF More(e) THEN 0 ELSE 1)
  <2>1. Chunks["result"] \in Nat /\ reader["client"].at \in Nat
    BY <1>1, <1>3, TransferAssumption DEF File
  <2>2. More(e) <=> ~(reader["client"].at > Chunks["result"])
    BY <1>1, <1>7, <2>1 DEF More
  <2>3. CASE More(e)
    BY <1>5, <2>2, <2>3
  <2>4. CASE ~More(e)
    BY <1>5, <2>2, <2>4
  <2>. QED BY <2>3, <2>4
<1>10. /\ Calm' => Calm
       /\ Commands(wire', functors') = Commands(wire, functors) + 0
       /\ EndsIn(wire'["server"]) = EndsIn(wire["server"]) + 0
       /\ jobs' <= jobs + 0 /\ issued' = issued + 0
  <2>1. Calm' => Calm
    BY <1>5, NFacts, CalmWas
  <2>2. Commands(wire', functors') = Commands(wire, functors) + 0
    BY <1>4, <1>5, NFacts DEF Commands
  <2>3. EndsIn(wire'["server"]) = EndsIn(wire["server"]) + 0
    BY <1>4, <1>5, NFacts
  <2>4. jobs' <= jobs + 0 /\ issued' = issued + 0
    BY <1>4, <1>5, NFacts
  <2>. QED BY <2>1, <2>2, <2>3, <2>4
<1>11. CASE More(e)
  <2>1. Begun(callback', pusher', main') <= Begun(callback, pusher, main) + 0
    <3>1. callback'["client"] = callback["client"]
      BY <1>1, <1>3, <1>11, NFacts
    <3>. QED BY <1>4, <1>5, <3>1, NFacts DEF Begun
  <2>2. Moves(0, 0, 0, 0, 0, 0)
    BY <1>9, <1>10, <1>11, <2>1 DEF Moves
  <2>3. Tallied'
    BY <2>2, TallyMoves
  <2>. QED BY <1>6, <1>8, <2>3 DEF Balanced
<1>12. CASE ~More(e)
  <2>1. ASSUME Calm
        PROVE  Begun(callback', pusher', main') <= Begun(callback, pusher, main) + (-1)
    <3>1. callback[e]
      BY <1>1, <2>1, NFacts, CallbackIsSet DEF Calm
    <3>2. ~callback'["client"] /\ callback["client"]
      BY <1>1, <1>3, <1>12, <3>1
    <3>4. One(callback'["client"]) = 0 /\ One(callback["client"]) = 1
      BY <3>2, OneIs, Zenon
    <3>5. PICK x \in Nat, y \in Nat :
            x = One(callback["server"] \/ pusher.at # "idle") /\ y = One(main = "forked")
      BY OneIs
    <3>6. Begun(callback, pusher, main) = x + 1 + y
      BY <3>4, <3>5 DEF Begun
    <3>7. Begun(callback', pusher', main') = x + 0 + y
      BY <1>4, <1>5, <3>4, <3>5 DEF Begun
    <3>. QED BY <3>5, <3>6, <3>7
  <2>2. Moves(0, 1, 0, 0, 0, -1)
    BY <1>9, <1>10, <1>12, <2>1 DEF Moves
  <2>3. Tallied'
    BY <2>2, TallyMoves
  <2>. QED BY <1>6, <1>8, <2>3 DEF Balanced
<1>. QED BY <1>11, <1>12
-----------------------------------------------------------------------------
(* A step that adds nothing to what is counted.                            *)
LEMMA NothingAdded ==
  ASSUME NInv, TransferTypeOK', IInv', issued' = issued, answered' = answered,
         Commands(wire', functors') = Commands(wire, functors),
         EndsIn(wire'["server"]) = EndsIn(wire["server"]),
         Begun(callback', pusher', main') <= Begun(callback, pusher, main),
         jobs' <= jobs, Calm' => Calm, Buffers', OnlyResult'
  PROVE  Balanced'
<1>1. /\ Commands(wire', functors') = Commands(wire, functors) + 0
      /\ EndsIn(wire'["server"]) = EndsIn(wire["server"]) + 0
      /\ issued' = issued + 0 /\ answered' = answered + 0 /\ jobs' <= jobs + 0
  BY NFacts
<1>2. Begun(callback', pusher', main') <= Begun(callback, pusher, main) + 0
  BY NFacts
<1>3. Moves(0, 0, 0, 0, 0, 0)
  BY <1>1, <1>2 DEF Moves
<1>4. Tallied'
  BY <1>3, TallyMoves
<1>. QED BY <1>4 DEF Balanced

(* A push in another loop goes on.                                         *)
LEMMA PusherBalanced ==
  ASSUME NInv, TransferTypeOK', IInv', PushRead \/ PushSet \/ PushPost,
         UNCHANGED <<main, jobs, issued, answered>>
  PROVE  Balanced'
<1>1. /\ UNCHANGED <<wire, unsent, disturbed>> /\ callback'["client"] = callback["client"]
      /\ reader'["client"] = reader["client"]
      /\ callback["server"] \/ pusher.at # "idle"
  <2>1. callback \in [End -> BOOLEAN]
        /\ reader \in [End -> {NoFile} \cup [file : File, at : Nat \ {0}]]
    BY NFacts DEF TransferTypeOK
  <2>2. CASE PushRead
    <3>1. /\ UNCHANGED <<wire, unsent, disturbed, callback>>
          /\ pusher.at = "opened" /\ pusher'.at = "read"
      BY <2>2 DEF PushRead
    <3>2. reader'["client"] = reader["client"]
      BY <2>1, <2>2, TheEnds DEF PushRead
    <3>. QED BY <3>1, <3>2
  <2>3. CASE PushSet
    <3>1. UNCHANGED <<wire, unsent, disturbed, reader>> /\ pusher.at = "read"
      BY <2>3 DEF PushSet
    <3>2. callback'["client"] = callback["client"]
      BY <2>1, <2>3, TheEnds DEF PushSet
    <3>. QED BY <3>1, <3>2
  <2>4. CASE PushPost
    BY <2>4 DEF PushPost
  <2>. QED BY <2>2, <2>3, <2>4
<1>2. CommandsIn(functors'["server"]) = CommandsIn(functors["server"])
  <2>1. CASE PushRead \/ PushSet
    BY <2>1 DEF PushRead, PushSet
  <2>2. CASE PushPost
    <3>1. PICK m : m = First(pusher.file, Content(pusher.file, pusher.chunk))
      OBVIOUS
    <3>2. m \in Functor /\ m.type # "Command"
      <4>1. pusher.file \in File /\ pusher.chunk \in Nat
        BY <2>2, NFacts DEF PushPost, TransferTypeOK, Pusher, File
      <4>2. Content(pusher.file, pusher.chunk) \in Chunk
        BY <4>1, ChunkFacts
      <4>3. m \in FirstMsg
        BY <3>1, <4>1, <4>2, ChunkFacts
      <4>. QED BY <4>3, MessageFacts, FunctorFacts
    <3>3. PICK q \in Seq(Functor) : q = functors["server"]
      BY NFacts
    <3>4. functors'["server"] = Append(q, m)
      BY <2>2, <3>1, <3>3, NFacts, TheEnds DEF PushPost, TransferTypeOK
    <3>5. CommandsIn(Append(q, m)) = CommandsIn(q) + One(m.type = "Command")
      BY <3>2, Counts
    <3>. QED BY <3>2, <3>3, <3>4, <3>5, NFacts DEF One
  <2>. QED BY <2>1, <2>2
<1>3. Commands(wire', functors') = Commands(wire, functors)
      /\ EndsIn(wire'["server"]) = EndsIn(wire["server"])
  BY <1>1, <1>2 DEF Commands
<1>4. Begun(callback', pusher', main') <= Begun(callback, pusher, main)
  <2>1. One(callback'["server"] \/ pusher'.at # "idle") <= 1
    BY DEF One
  <2>2. One(callback["server"] \/ pusher.at # "idle") = 1
    BY <1>1, OneIs, Zenon
  <2>3. PICK b \in Nat, c \in Nat, d \in Nat :
          /\ b = One(callback'["server"] \/ pusher'.at # "idle")
          /\ c = One(callback["client"]) /\ d = One(main = "forked")
    BY OneIs
  <2>4. Begun(callback', pusher', main') = b + c + d
    BY <1>1, <2>3 DEF Begun
  <2>5. Begun(callback, pusher, main) = 1 + c + d
    BY <2>2, <2>3 DEF Begun
  <2>. QED BY <2>1, <2>3, <2>4, <2>5
<1>5. jobs' <= jobs
  BY NFacts
<1>6. Buffers' /\ OnlyResult' /\ (Calm' => Calm)
  BY <1>1, NFacts, CalmWas DEF Buffers, OnlyResult
<1>7. issued' = issued /\ answered' = answered
  OBVIOUS
<1>. QED BY <1>3, <1>4, <1>5, <1>6, <1>7, NothingAdded

(* The send that was asked for is done.                                    *)
LEMMA PostedSendBalanced ==
  ASSUME NInv, TransferTypeOK', IInv', PostedSend,
         UNCHANGED <<main, jobs, issued, answered>>
  PROVE  Balanced'
<1>1. PICK q \in Seq(Functor), set \in BOOLEAN : q = functors["server"] /\ set = callback["server"]
  BY NFacts
<1>2. PICK m : m = Head(q)
  OBVIOUS
<1>3. /\ q # <<>> /\ m \in Functor /\ m \in Msg /\ Sent("server", m, Tail(q), set)
      /\ Same("client")
  BY <1>1, <1>2, NFacts, PostedEffect
<1>4. /\ UNCHANGED <<reader, callback, pusher, disturbed>>
      /\ wire'["client"] = wire["client"] /\ unsent'["client"] = unsent["client"]
  BY <1>3 DEF PostedSend, Same, Keeps
<1>5. CommandsIn(q) = CommandsIn(Tail(q)) + One(m.type = "Command")
      /\ CommandsIn(Tail(q)) \in Nat /\ Tail(q) \in Seq(Functor)
  BY <1>2, <1>3, Counts, TailFacts
<1>6. /\ CommandsIn(wire'["server"]) = CommandsIn(wire["server"]) + One(m.type = "Command")
      /\ EndsIn(wire'["server"]) = EndsIn(wire["server"]) + One(m.type = "END")
      /\ CommandsIn(functors'["server"]) = CommandsIn(Tail(q))
      /\ Buffers'
  BY <1>3, <1>4, <1>5, NFacts, ServerSent
<1>7. m.type # "END"
  BY <1>3, MessageFacts, FunctorFacts DEF Functor, CommandMsgs, FirstMsg
<1>8. PICK o \in Nat : o = One(m.type = "Command")
  BY OneIs
<1>9. Commands(wire', functors') = Commands(wire, functors)
      /\ EndsIn(wire'["server"]) = EndsIn(wire["server"])
  <2>1. One(m.type = "END") = 0
    BY <1>7, OneIs, Zenon
  <2>. QED BY <1>1, <1>5, <1>6, <1>8, <2>1, NFacts, SMTT(30) DEF Commands
<1>10. Begun(callback', pusher', main') <= Begun(callback, pusher, main) /\ jobs' <= jobs
  BY <1>4, NFacts
<1>11. OnlyResult' /\ (Calm' => Calm)
  BY <1>4, NFacts, CalmWas DEF OnlyResult
<1>12. issued' = issued /\ answered' = answered
  OBVIOUS
<1>. QED BY <1>6, <1>9, <1>10, <1>11, <1>12, NothingAdded

(* The socket takes more.                                                  *)
LEMMA DrainBalanced ==
  ASSUME NInv, TransferTypeOK', IInv', NEW e \in End, Drain(e),
         UNCHANGED <<main, jobs, issued, answered>>
  PROVE  Balanced'
<1>1. UNCHANGED <<reader, callback, wire, pusher, disturbed>>
  BY DEF Drain
<1>2. PICK left \in 0..(unsent[e] - 1) :
        /\ unsent' = [unsent EXCEPT ![e] = left]
        /\ functors' = [functors EXCEPT ![e] = IF left = 0 /\ callback[e] THEN Append(@, Complete)
                                               ELSE @]
  BY DEF Drain
<1>3. Buffers'
  <2>1. unsent[e] \in Nat /\ unsent \in [End -> Nat]
    BY NFacts DEF TransferTypeOK
  <2>2. \A p \in End : unsent'[p] <= unsent[p] /\ unsent'[p] \in Nat /\ unsent[p] \in Nat
    BY <1>2, <2>1
  <2>3. \A p \in End : Len(wire[p]) \in Nat /\ unsent[p] <= Len(wire[p])
    BY NFacts DEF Buffers, TransferTypeOK
  <2>4. ASSUME NEW p \in End PROVE unsent'[p] <= Len(wire'[p])
    BY <1>1, <2>2, <2>3
  <2>. QED BY <2>4 DEF Buffers
<1>4. CommandsIn(functors'["server"]) = CommandsIn(functors["server"])
  <2>1. PICK q \in Seq(Functor) : q = functors["server"]
    BY NFacts
  <2>2. functors'["server"] = q \/ functors'["server"] = Append(q, Complete)
    <3>1. functors \in [End -> Seq(Functor)] /\ "server" \in End
      BY NFacts, TheEnds DEF TransferTypeOK
    <3>2. functors'["server"] = IF "server" = e /\ left = 0 /\ callback[e] THEN Append(q, Complete)
                                                                        ELSE q
      BY <1>2, <2>1, <3>1
    <3>. QED BY <3>2
  <2>3. CommandsIn(Append(q, Complete)) = CommandsIn(q) + One(Complete.type = "Command")
        /\ CommandsIn(q) \in Nat
    BY FunctorFacts, Counts
  <2>4. One(Complete.type = "Command") = 0
    BY OneIs DEF Complete
  <2>5. CommandsIn(Append(q, Complete)) = CommandsIn(q)
    BY <2>3, <2>4
  <2>. QED BY <2>1, <2>2, <2>5
<1>5. Commands(wire', functors') = Commands(wire, functors)
      /\ EndsIn(wire'["server"]) = EndsIn(wire["server"])
  BY <1>1, <1>4 DEF Commands
<1>6. Begun(callback', pusher', main') <= Begun(callback, pusher, main) /\ jobs' <= jobs
  BY <1>1, NFacts
<1>7. OnlyResult' /\ (Calm' => Calm)
  BY <1>1, NFacts, CalmWas DEF OnlyResult
<1>8. issued' = issued /\ answered' = answered
  OBVIOUS
<1>. QED BY <1>3, <1>5, <1>6, <1>7, <1>8, NothingAdded

(* Nothing that is counted changes but jobs that end.                      *)
LEMMA RestBalanced ==
  ASSUME NInv, TransferTypeOK', IInv',
         UNCHANGED <<reader, callback, functors, wire, unsent, pusher, disturbed, issued,
                     answered>>,
         jobs' <= jobs, main' = "forked" => main = "forked"
  PROVE  Balanced'
<1>1. Begun(callback', pusher', main') <= Begun(callback, pusher, main)
  <2>1. PICK x \in Nat, y \in Nat :
          x = One(callback["server"] \/ pusher.at # "idle") /\ y = One(callback["client"])
    BY OneIs
  <2>2. PICK z \in Nat, z2 \in Nat : z = One(main = "forked") /\ z2 = One(main' = "forked")
    BY OneIs
  <2>3. z2 <= z
    BY <2>2 DEF One
  <2>4. Begun(callback, pusher, main) = x + y + z /\ Begun(callback', pusher', main') = x + y + z2
    BY <2>1, <2>2 DEF Begun
  <2>. QED BY <2>3, <2>4
<1>2. Commands(wire', functors') = Commands(wire, functors)
      /\ EndsIn(wire'["server"]) = EndsIn(wire["server"])
  OBVIOUS
<1>3. Buffers' /\ OnlyResult' /\ (Calm' => Calm)
  BY NFacts, CalmWas DEF Buffers, OnlyResult
<1>4. issued' = issued /\ answered' = answered
  OBVIOUS
<1>. QED BY <1>1, <1>2, <1>3, <1>4, NothingAdded

(* The server reads a message.                                             *)
LEMMA ServerReceivesBalanced ==
  ASSUME NInv, TransferTypeOK', IInv', ServerReceives
  PROVE  Balanced'
<1>1. /\ wire' = Taken("server")
      /\ UNCHANGED <<reader, callback, functors, unsent, pusher, disturbed, issued, answered, main,
                     jobs>>
  BY DEF ServerReceives, execVars
<1>2. PICK m : Arrived("server", m)
  BY DEF ServerReceives, ReceiveChunk, ReceiveEnd
<1>3. wire'["server"] = wire["server"] /\ unsent["client"] <= Len(wire'["client"])
  BY <1>1, <1>2, NFacts, ServerTakes
<1>4. Buffers'
  BY <1>1, <1>3, NFacts, TheEnds DEF Buffers
<1>5. Commands(wire', functors') = Commands(wire, functors)
      /\ EndsIn(wire'["server"]) = EndsIn(wire["server"])
  BY <1>1, <1>3 DEF Commands
<1>6. Begun(callback', pusher', main') <= Begun(callback, pusher, main) /\ jobs' <= jobs
  BY <1>1, NFacts
<1>7. OnlyResult' /\ (Calm' => Calm)
  BY <1>1, NFacts, CalmWas DEF OnlyResult
<1>8. issued' = issued /\ answered' = answered
  BY <1>1
<1>. QED BY <1>4, <1>5, <1>6, <1>7, <1>8, NothingAdded
-----------------------------------------------------------------------------
(* The node sends a message that is none of a file, w being on its way.    *)
LEMMA NodeSays ==
  ASSUME NInv, NEW a \in Plain, NEW w \in [End -> Seq(Msg)], w["client"] = wire["client"],
         unsent["server"] <= Len(w["server"]), Send("client", a, w)
  PROVE  /\ wire'["server"] = w["server"] /\ functors'["server"] = functors["server"]
         /\ Buffers' /\ (Calm' => Calm)
<1>1. PICK q \in Seq(Functor), set \in BOOLEAN : q = functors["client"] /\ set = callback["client"]
  BY NFacts
<1>2. SendInLoop("client", a, w, q, set) /\ Disturb("client")
  BY <1>1 DEF Send
<1>3. a \in Msg
  BY MessageFacts
<1>4. Calm' => Calm
  BY <1>2, NFacts, CalmWas
<1>5. /\ wire'["server"] = w["server"] /\ functors'["server"] = functors["server"]
      /\ Buffers'
  BY <1>2, <1>3, NFacts, NodeSent
<1>. QED BY <1>4, <1>5

(* What the node has taken from the wire.                                  *)
LEMMA NodeTakes ==
  ASSUME NInv, NEW m, Arrived("client", m)
  PROVE  \E w \in [End -> Seq(Msg)] :
           /\ w = Taken("client") /\ w["client"] = wire["client"]
           /\ unsent["server"] <= Len(w["server"])
           /\ CommandsIn(w["server"]) \in Nat /\ EndsIn(w["server"]) \in Nat
           /\ CommandsIn(wire["server"]) = CommandsIn(w["server"]) + One(m.type = "Command")
           /\ EndsIn(wire["server"]) = EndsIn(w["server"]) + One(m.type = "END")
BY NFacts, MessageTaken

(* A command that was taken is one less.                                   *)
LEMMA CommandTaken ==
  ASSUME NInv, NEW kind \in Kinds, Arrived("client", CommandMsg(kind))
  PROVE  \E w \in [End -> Seq(Msg)] :
           /\ w = Taken("client") /\ w["client"] = wire["client"]
           /\ unsent["server"] <= Len(w["server"]) /\ CommandsIn(w["server"]) \in Nat
           /\ CommandsIn(wire["server"]) = CommandsIn(w["server"]) + 1
           /\ EndsIn(w["server"]) = EndsIn(wire["server"])
<1>1. PICK m : m = CommandMsg(kind)
  OBVIOUS
<1>2. Arrived("client", m) /\ m.type = "Command"
  BY <1>1 DEF CommandMsg
<1>3. PICK w \in [End -> Seq(Msg)] :
        /\ w = Taken("client") /\ w["client"] = wire["client"]
        /\ unsent["server"] <= Len(w["server"])
        /\ CommandsIn(w["server"]) \in Nat /\ EndsIn(w["server"]) \in Nat
        /\ CommandsIn(wire["server"]) = CommandsIn(w["server"]) + One(m.type = "Command")
        /\ EndsIn(wire["server"]) = EndsIn(w["server"]) + One(m.type = "END")
  BY <1>2, NodeTakes
<1>4. One(m.type = "Command") = 1 /\ One(m.type = "END") = 0
  BY <1>2 DEF One
<1>. QED BY <1>3, <1>4

(* A command is answered.                                                  *)
LEMMA CommandAnswered ==
  ASSUME NInv, TransferTypeOK', IInv', NEW kind \in Kinds, Arrived("client", CommandMsg(kind)),
         Reply(ACK(FALSE)), UNCHANGED <<reader, callback, pusher, main, jobs, issued>>
  PROVE  Balanced'
<1>1. PICK w \in [End -> Seq(Msg)] :
        /\ w = Taken("client") /\ w["client"] = wire["client"]
        /\ unsent["server"] <= Len(w["server"]) /\ CommandsIn(w["server"]) \in Nat
        /\ CommandsIn(wire["server"]) = CommandsIn(w["server"]) + 1
        /\ EndsIn(w["server"]) = EndsIn(wire["server"])
  BY CommandTaken
<1>2. PICK a \in Plain : a = ACK(FALSE)
  BY DEF ACK, Plain
<1>3. Send("client", a, w) /\ answered' = answered + 1
  BY <1>1, <1>2 DEF Reply
<1>4. /\ wire'["server"] = w["server"] /\ functors'["server"] = functors["server"]
      /\ Buffers' /\ (Calm' => Calm)
  BY <1>1, <1>3, NodeSays
<1>5. Commands(wire', functors') = Commands(wire, functors) + (-1)
      /\ EndsIn(wire'["server"]) = EndsIn(wire["server"]) + 0
  BY <1>1, <1>4, NFacts, SMTT(30) DEF Commands
<1>6. Begun(callback', pusher', main') <= Begun(callback, pusher, main) + 0 /\ jobs' <= jobs + 0
      /\ issued' = issued + 0
  BY NFacts
<1>7. Moves(0, 1, -1, 0, 0, 0)
  BY <1>3, <1>4, <1>5, <1>6 DEF Moves
<1>8. Tallied'
  BY <1>7, TallyMoves
<1>9. OnlyResult'
  BY NFacts DEF OnlyResult
<1>. QED BY <1>4, <1>8, <1>9 DEF Balanced

(* A job is started for a command, which is yet to be counted.             *)
LEMMA ForkBalanced ==
  ASSUME NInv, TransferTypeOK', IInv', NEW kind \in Kinds, Arrived("client", CommandMsg(kind)),
         Fork(kind), main = "loop", UNCHANGED <<pusher, issued>>
  PROVE  Balanced'
<1>1. PICK w \in [End -> Seq(Msg)] :
        /\ w = Taken("client") /\ w["client"] = wire["client"]
        /\ unsent["server"] <= Len(w["server"]) /\ CommandsIn(w["server"]) \in Nat
        /\ CommandsIn(wire["server"]) = CommandsIn(w["server"]) + 1
        /\ EndsIn(w["server"]) = EndsIn(wire["server"])
  BY CommandTaken
<1>2. /\ wire' = w /\ jobs' = jobs + 1 /\ main' = "forked"
      /\ UNCHANGED <<reader, callback, unsent, functors, disturbed, answered>>
  BY <1>1 DEF Fork
<1>3. Commands(wire', functors') = Commands(wire, functors) + (-1)
      /\ EndsIn(wire'["server"]) = EndsIn(wire["server"]) + 0
  BY <1>1, <1>2, NFacts, SMTT(30) DEF Commands
<1>4. Begun(callback', pusher', main') <= Begun(callback, pusher, main) + 1
  <2>1. PICK x \in Nat, y \in Nat :
          x = One(callback["server"] \/ pusher.at # "idle") /\ y = One(callback["client"])
    BY OneIs
  <2>2. One(main = "forked") = 0 /\ One(main' = "forked") = 1
    BY <1>2 DEF One
  <2>3. Begun(callback, pusher, main) = x + y + 0 /\ Begun(callback', pusher', main') = x + y + 1
    BY <1>2, <2>1, <2>2 DEF Begun
  <2>. QED BY <2>1, <2>3
<1>5. (Calm' => Calm) /\ Buffers' /\ OnlyResult'
  BY <1>1, <1>2, NFacts, CalmWas, TheEnds DEF Buffers, OnlyResult
<1>6. jobs' <= jobs + 1 /\ issued' = issued + 0 /\ answered' = answered + 0
  BY <1>2, NFacts
<1>7. Moves(0, 0, -1, 0, 1, 1)
  BY <1>3, <1>4, <1>5, <1>6 DEF Moves
<1>8. Tallied'
  BY <1>7, TallyMoves
<1>. QED BY <1>5, <1>8 DEF Balanced

(* result.tar is sent for a command.                                       *)
LEMMA ResultBalanced ==
  ASSUME NInv, TransferTypeOK', IInv', NEW kind \in Kinds, Arrived("client", CommandMsg(kind)),
         StartTransfer("client", "result", Taken("client")),
         UNCHANGED <<pusher, main, jobs, issued, answered>>
  PROVE  Balanced'
<1>1. PICK w \in [End -> Seq(Msg)] :
        /\ w = Taken("client") /\ w["client"] = wire["client"]
        /\ unsent["server"] <= Len(w["server"]) /\ CommandsIn(w["server"]) \in Nat
        /\ CommandsIn(wire["server"]) = CommandsIn(w["server"]) + 1
        /\ EndsIn(w["server"]) = EndsIn(wire["server"])
  BY CommandTaken
<1>2. PICK a : a = First("result", Content("result", 1))
  OBVIOUS
<1>3. a \in Msg
  <2>1. "result" \in File /\ 1 \in Nat
    BY DEF File
  <2>2. PICK f \in File : f = "result"
    BY <2>1
  <2>3. Content(f, 1) \in Chunk
    BY <2>1, ChunkFacts
  <2>4. First(f, Content(f, 1)) \in FirstMsg
    BY <2>1, <2>3, ChunkFacts
  <2>. QED BY <1>2, <2>2, <2>4, MessageFacts
<1>4. PICK q \in Seq(Functor), set \in BOOLEAN : q = functors["client"] /\ set = TRUE
  BY NFacts
<1>5. SendInLoop("client", a, w, q, set) /\ Disturb("client")
  BY <1>1, <1>2, <1>4 DEF StartTransfer
<1>6. /\ wire'["server"] = w["server"] /\ functors'["server"] = functors["server"]
      /\ Buffers'
  BY <1>1, <1>3, <1>5, NFacts, NodeSent
<1>7. Calm' => Calm
  BY <1>5, NFacts, CalmWas
<1>8. Commands(wire', functors') = Commands(wire, functors) + (-1)
       /\ EndsIn(wire'["server"]) = EndsIn(wire["server"]) + 0
  BY <1>1, <1>6, NFacts, SMTT(30) DEF Commands
<1>9. callback'["server"] = callback["server"] /\ reader'["client"].file = "result"
  BY NFacts, TheEnds DEF StartTransfer, TransferTypeOK
<1>10. Begun(callback', pusher', main') <= Begun(callback, pusher, main) + 1
  <2>1. PICK x \in Nat, z \in Nat :
          x = One(callback["server"] \/ pusher.at # "idle") /\ z = One(main = "forked")
    BY OneIs
  <2>2. PICK y \in Nat, y2 \in Nat : y = One(callback["client"]) /\ y2 = One(callback'["client"])
    BY OneIs
  <2>3. y2 <= y + 1
    BY <2>2 DEF One
  <2>4. Begun(callback, pusher, main) = x + y + z /\ Begun(callback', pusher', main') = x + y2 + z
    BY <1>9, <2>1, <2>2 DEF Begun
  <2>. QED BY <2>3, <2>4
<1>11. jobs' <= jobs + 0 /\ issued' = issued + 0 /\ answered' = answered + 0
  BY NFacts
<1>12. Moves(0, 0, -1, 0, 0, 1)
  BY <1>7, <1>8, <1>10, <1>11 DEF Moves
<1>13. Tallied'
  BY <1>12, TallyMoves
<1>14. OnlyResult'
  BY <1>9 DEF OnlyResult
<1>. QED BY <1>6, <1>13, <1>14 DEF Balanced

(* What may become of a command.                                           *)
LEMMA onCommandMsgBalanced ==
  ASSUME NInv, TransferTypeOK', IInv', onCommandMsg
  PROVE  Balanced'
<1>1. PICK kind \in Kinds :
        /\ Arrived("client", CommandMsg(kind))
        /\ CommandRefused(kind) \/ Fork(kind) \/ onResult(kind)
  BY DEF onCommandMsg
<1>2. UNCHANGED <<pusher, issued>> /\ main = "loop"
  BY DEF onCommandMsg, InLoop
<1>3. CASE CommandRefused(kind)
  BY <1>1, <1>2, <1>3, CommandAnswered DEF CommandRefused
<1>4. CASE Fork(kind)
  BY <1>1, <1>2, <1>4, ForkBalanced
<1>5. CASE onResult(kind)
  <2>1. UNCHANGED <<main, jobs>>
    BY <1>5 DEF onResult
  <2>2. CASE StartTransfer("client", "result", Taken("client")) /\ UNCHANGED answered
    BY <1>1, <1>2, <2>1, <2>2, ResultBalanced
  <2>3. CASE Reply(ACK(FALSE)) /\ UNCHANGED <<reader, callback>>
    BY <1>1, <1>2, <2>1, <2>3, CommandAnswered
  <2>. QED BY <1>5, <2>2, <2>3 DEF onResult
<1>. QED BY <1>1, <1>3, <1>4, <1>5
-----------------------------------------------------------------------------
(* The job is counted and the command answered.                            *)
LEMMA CountBalanced ==
  ASSUME NInv, TransferTypeOK', IInv', Count
  PROVE  Balanced'
<1>1. /\ Send("client", ACK(TRUE), wire) /\ main = "forked" /\ main' = "loop"
      /\ UNCHANGED <<reader, callback, pusher, jobs, issued>> /\ answered' = answered + 1
  BY DEF Count
<1>2. PICK w \in [End -> Seq(Msg)], a \in Plain : w = wire /\ a = ACK(TRUE)
  BY NFacts DEF ACK, Plain, TransferTypeOK
<1>3. /\ wire'["server"] = w["server"] /\ functors'["server"] = functors["server"]
      /\ Buffers' /\ (Calm' => Calm)
  BY <1>1, <1>2, NFacts, NodeSays
<1>4. Commands(wire', functors') = Commands(wire, functors) + 0
      /\ EndsIn(wire'["server"]) = EndsIn(wire["server"]) + 0
  BY <1>2, <1>3, NFacts DEF Commands
<1>5. Begun(callback', pusher', main') <= Begun(callback, pusher, main) + (-1)
  <2>1. PICK x \in Nat, y \in Nat :
          x = One(callback["server"] \/ pusher.at # "idle") /\ y = One(callback["client"])
    BY OneIs
  <2>2. One(main = "forked") = 1 /\ One(main' = "forked") = 0
    BY <1>1 DEF One
  <2>3. Begun(callback, pusher, main) = x + y + 1 /\ Begun(callback', pusher', main') = x + y + 0
    BY <1>1, <2>1, <2>2 DEF Begun
  <2>. QED BY <2>1, <2>3
<1>6. jobs' <= jobs + 0 /\ issued' = issued + 0
  BY <1>1, NFacts
<1>7. Moves(0, 1, 0, 0, 0, -1)
  BY <1>1, <1>3, <1>4, <1>5, <1>6 DEF Moves
<1>8. Tallied'
  BY <1>7, TallyMoves
<1>9. OnlyResult'
  BY <1>1, NFacts DEF OnlyResult
<1>. QED BY <1>3, <1>8, <1>9 DEF Balanced

(* The node receives a chunk.                                              *)
LEMMA onChunkBalanced ==
  ASSUME NInv, TransferTypeOK', IInv', onChunk
  PROVE  Balanced'
<1>1. /\ wire' = Taken("client")
      /\ UNCHANGED <<reader, callback, functors, unsent, pusher, disturbed, main, jobs, issued,
                     answered>>
  BY DEF onChunk, execVars
<1>2. PICK m : Arrived("client", m) /\ m.type = "File"
  BY DEF onChunk, ReceiveChunk
<1>3. PICK w \in [End -> Seq(Msg)] :
        /\ w = Taken("client") /\ w["client"] = wire["client"]
        /\ unsent["server"] <= Len(w["server"])
        /\ CommandsIn(w["server"]) \in Nat /\ EndsIn(w["server"]) \in Nat
        /\ CommandsIn(wire["server"]) = CommandsIn(w["server"]) + One(m.type = "Command")
        /\ EndsIn(wire["server"]) = EndsIn(w["server"]) + One(m.type = "END")
  BY <1>2, NodeTakes
<1>4. One(m.type = "Command") = 0 /\ One(m.type = "END") = 0
  BY <1>2 DEF One
<1>5. Commands(wire', functors') = Commands(wire, functors)
      /\ EndsIn(wire'["server"]) = EndsIn(wire["server"])
  BY <1>1, <1>3, <1>4 DEF Commands
<1>6. (Calm' => Calm) /\ Buffers' /\ OnlyResult'
  BY <1>1, <1>3, NFacts, CalmWas, TheEnds DEF Buffers, OnlyResult
<1>7. Begun(callback', pusher', main') <= Begun(callback, pusher, main) /\ jobs' <= jobs
      /\ issued' = issued /\ answered' = answered
  BY <1>1, NFacts
<1>. QED BY <1>5, <1>6, <1>7, NothingAdded

(* END is answered, or finds no FILE and the node ends.                    *)
LEMMA onEndBalanced ==
  ASSUME NInv, TransferTypeOK', IInv', onEnd
  PROVE  Balanced'
<1>1. /\ Arrived("client", END_) /\ main = "loop" /\ main' # "forked"
      /\ UNCHANGED <<reader, callback, pusher, jobs, issued>>
  BY DEF onEnd, ReceiveEnd, InLoop
<1>2. CASE UNCHANGED <<wire, unsent, functors, disturbed, answered, main>>
  <2>1. jobs' <= jobs /\ (main' = "forked" => main = "forked")
    BY <1>1, NFacts
  <2>. QED BY <1>1, <1>2, <2>1, RestBalanced
<1>3. CASE Reply(PushACK(Completely(recv["client"])))
  <2>1. PICK m : m = END_ /\ Arrived("client", m) /\ m.type = "END"
    BY <1>1 DEF END_
  <2>2. PICK w \in [End -> Seq(Msg)] :
          /\ w = Taken("client") /\ w["client"] = wire["client"]
          /\ unsent["server"] <= Len(w["server"])
          /\ CommandsIn(w["server"]) \in Nat /\ EndsIn(w["server"]) \in Nat
          /\ CommandsIn(wire["server"]) = CommandsIn(w["server"]) + One(m.type = "Command")
          /\ EndsIn(wire["server"]) = EndsIn(w["server"]) + One(m.type = "END")
    BY <2>1, NodeTakes
  <2>3. One(m.type = "Command") = 0 /\ One(m.type = "END") = 1
    BY <2>1 DEF One
  <2>4. PICK a \in Plain : a = PushACK(Completely(recv["client"]))
    <3>1. Completely(recv["client"]) \in BOOLEAN
      BY DEF Completely
    <3>2. \A status \in BOOLEAN : PushACK(status) \in Plain
      BY DEF PushACK, Plain
    <3>. QED BY <3>1, <3>2, Zenon
  <2>5. Send("client", a, w) /\ answered' = answered + 1
    BY <1>3, <2>2, <2>4 DEF Reply
  <2>6. /\ wire'["server"] = w["server"] /\ functors'["server"] = functors["server"]
        /\ Buffers' /\ (Calm' => Calm)
    BY <2>2, <2>5, NodeSays
  <2>7. Commands(wire', functors') = Commands(wire, functors) + 0
        /\ EndsIn(wire'["server"]) = EndsIn(wire["server"]) + (-1)
    <3>1. CommandsIn(wire'["server"]) = CommandsIn(wire["server"])
      BY <2>2, <2>3, <2>6
    <3>2. EndsIn(wire'["server"]) = EndsIn(wire["server"]) + (-1)
      BY <2>2, <2>3, <2>6
    <3>. QED BY <2>6, <3>1, <3>2, NFacts DEF Commands
  <2>8. Begun(callback', pusher', main') <= Begun(callback, pusher, main) + 0
    <3>1. (main' = "forked") = (main = "forked")
      BY <1>1
    <3>. QED BY <1>1, <3>1, NFacts DEF Begun
  <2>9. jobs' <= jobs + 0 /\ issued' = issued + 0
    BY <1>1, NFacts
  <2>10. Moves(0, 1, 0, -1, 0, 0)
    BY <2>5, <2>6, <2>7, <2>8, <2>9 DEF Moves
  <2>11. Tallied'
    BY <2>10, TallyMoves
  <2>12. OnlyResult'
    BY <1>1, NFacts DEF OnlyResult
  <2>. QED BY <2>6, <2>11, <2>12 DEF Balanced
<1>. QED BY <1>2, <1>3 DEF onEnd

(* A heartbeat, or the end of the node.                                    *)
LEMMA onTimerBalanced ==
  ASSUME NInv, TransferTypeOK', IInv', onTimer
  PROVE  Balanced'
<1>1. UNCHANGED <<reader, callback, pusher, jobs, issued, answered>> /\ main = "loop"
  BY DEF onTimer, InLoop
<1>2. CASE Send("client", HeartBeat, wire) /\ UNCHANGED main
  <2>1. PICK w \in [End -> Seq(Msg)], a \in Plain : w = wire /\ a = HeartBeat
    BY NFacts DEF HeartBeat, Plain, TransferTypeOK
  <2>2. /\ wire'["server"] = w["server"] /\ functors'["server"] = functors["server"]
        /\ Buffers' /\ (Calm' => Calm)
    BY <1>2, <2>1, NFacts, NodeSays
  <2>3. Commands(wire', functors') = Commands(wire, functors)
        /\ EndsIn(wire'["server"]) = EndsIn(wire["server"])
    BY <2>1, <2>2 DEF Commands
  <2>4. Begun(callback', pusher', main') <= Begun(callback, pusher, main) /\ jobs' <= jobs
        /\ issued' = issued /\ answered' = answered
    BY <1>1, <1>2, NFacts
  <2>5. OnlyResult'
    BY <1>1, NFacts DEF OnlyResult
  <2>. QED BY <2>2, <2>3, <2>4, <2>5, NothingAdded
<1>3. CASE main' = "exited" /\ UNCHANGED <<wire, unsent, functors, disturbed>>
  <2>1. jobs' <= jobs
    BY <1>1, NFacts
  <2>. QED BY <1>1, <1>3, <2>1, RestBalanced
<1>. QED BY <1>2, <1>3 DEF onTimer

(* Signals, jobs and cp, which the connection has nothing to do with.      *)
LEMMA SignalsBalanced ==
  ASSUME NInv, TransferTypeOK', IInv',
         CopyExits \/ SystemReturns \/ JobExits \/ SignalSteps \/ Down \/ onWriteCompleteNull
           \/ UNCHANGED vars
  PROVE  Balanced'
<1>1. UNCHANGED <<reader, callback, functors, wire, unsent, pusher, disturbed, issued, answered>>
  BY DEF CopyExits, SystemReturns, JobExits, SignalSteps, Signal, StoreCount, HandlerReturns,
         Down, onWriteCompleteNull, vars, transferVars, tally
<1>2. main' = "forked" => main = "forked"
  BY DEF CopyExits, SystemReturns, JobExits, SignalSteps, Signal, StoreCount, HandlerReturns,
         Down, onWriteCompleteNull, vars, execVars
<1>3. jobs' = jobs \/ jobs' = jobs - 1
  BY DEF CopyExits, SystemReturns, JobExits, SignalSteps, Signal, StoreCount, HandlerReturns,
         Down, onWriteCompleteNull, vars, execVars
<1>4. jobs' <= jobs
  BY <1>3, NFacts
<1>. QED BY <1>1, <1>2, <1>4, RestBalanced

(* One step per action.                                                    *)
LEMMA BalanceStep ==
  ASSUME NInv, TransferTypeOK', IInv', [Next]_vars
  PROVE  Balanced'
<1>1. ASSUME ServerSends PROVE Balanced'
  <2>1. issued < MaxCommands /\ issued' = issued + 1 /\ UNCHANGED <<main, jobs, answered>>
    BY <1>1 DEF ServerSends, execVars
  <2>. QED BY <1>1, <2>1, SendCommandBalanced, PushBalanced DEF ServerSends
<1>2. ASSUME ServerGoesOn PROVE Balanced'
  <2>1. UNCHANGED <<main, jobs, issued, answered>>
    BY <1>2 DEF ServerGoesOn, execVars, tally
  <2>. QED BY <1>2, <2>1, TheEnds, PusherBalanced, PostedSendBalanced, ServerCompletes,
              DrainBalanced
         DEF ServerGoesOn
<1>3. ASSUME ClientDrains PROVE Balanced'
  <2>1. UNCHANGED <<main, jobs, issued, answered>> /\ Drain("client")
    BY <1>3 DEF ClientDrains, execVars, tally
  <2>. QED BY <2>1, TheEnds, DrainBalanced
<1>. QED BY <1>1, <1>2, <1>3, ServerReceivesBalanced, onCommandMsgBalanced, CountBalanced,
            onChunkBalanced, onEndBalanced, NodeCompletes, onTimerBalanced, SignalsBalanced
       DEF Next, Server, MainThread

(* Nothing has been sent at the beginning.                                 *)
LEMMA BalanceInitial == Init => Balanced
<1> SUFFICES ASSUME Init PROVE Balanced
  OBVIOUS
<1>1. /\ issued = 0 /\ answered = 0 /\ jobs = 0 /\ main = "loop" /\ pusher.at = "idle"
      /\ wire["server"] = <<>> /\ wire["client"] = <<>> /\ functors["server"] = <<>>
      /\ unsent["server"] = 0 /\ unsent["client"] = 0
      /\ ~callback["server"] /\ ~callback["client"] /\ reader["client"] = NoFile
  BY TheEnds DEF Init, TransferInit
<1>2. Commands(wire, functors) = 0 /\ EndsIn(wire["server"]) = 0
  BY <1>1, CountsNone DEF Commands
<1>3. Begun(callback, pusher, main) = 0
  <2>1. /\ One(callback["server"] \/ pusher.at # "idle") = 0
        /\ One(callback["client"]) = 0 /\ One(main = "forked") = 0
    BY <1>1 DEF One
  <2>. QED BY <2>1 DEF Begun
<1>4. Tallied
  BY <1>1, <1>2, <1>3, ClientAssumption DEF Tallied
<1>5. Buffers
  BY <1>1, TheEnds DEF Buffers
<1>. QED BY <1>1, <1>4, <1>5 DEF Balanced, OnlyResult

(* The invariant of every behaviour.                                       *)
LEMMA NInvAlways == Spec => []NInv
<1>1. Init => NInv
  BY TInitial, ExecInitial, BalanceInitial DEF NInv
<1>2. NInv /\ [Next]_vars => NInv'
  <2> SUFFICES ASSUME NInv, [Next]_vars PROVE NInv'
    OBVIOUS
  <2>1. TInv' /\ IInv'
    BY StepPreserves, ExecStep DEF NInv
  <2>2. Balanced'
    BY <2>1, BalanceStep DEF TInv
  <2>. QED BY <2>1, <2>2 DEF NInv
<1>. QED BY <1>1, <1>2, PTL DEF Spec

(* The types, and the bounds that the counters keep: the output buffer     *)
(* holds no more than was sent, a node never counts more than one job, and *)
(* there are no more jobs than commands (lkpClient.cc:104-122).            *)
THEOREM ClientTypeOK == Spec => []TypeOK
<1>1. NInv => TypeOK
  <2> SUFFICES ASSUME NInv PROVE TypeOK
    OBVIOUS
  <2>1. /\ TransferTypeOK /\ Buffers /\ IInv /\ Tallied
    BY DEF NInv, TInv, Balanced
  <2>2. ASSUME NEW e \in End
        PROVE  recv[e].fp \in {"none", "open", "closed"} /\ unsent[e] \in 0..Len(wire[e])
    <3>1. unsent[e] \in Nat /\ Len(wire[e]) \in Nat /\ unsent[e] <= Len(wire[e])
      BY <2>1 DEF TransferTypeOK, Buffers
    <3>. QED BY <2>1, <3>1, EndTypes
  <2>3. fault \in End \cup {"none"}
    BY <2>1 DEF TransferTypeOK
  <2>4. main \in {"loop", "forked", "system", "reap", "exited", "crashed"}
        /\ \A t \in Thread : handler[t].at \in {"none", "store", "wait"}
    BY <2>1 DEF IInv, ExecTypeOK
  <2>5. childNum \in 0..(MaxCommands + 1)
    BY <2>1, ClientAssumption DEF IInv, ExecTypeOK, OneCounted
  <2>6. jobs \in 0..MaxCommands
    <3>1. PICK c \in Nat, i \in 0..MaxCommands, j \in Nat :
            c = Commands(wire, functors) /\ i = issued /\ j = jobs
      BY <2>1, NFacts DEF Tallied
    <3>2. j + c <= i
      BY <2>1, <3>1 DEF Tallied
    <3>. QED BY <3>1, <3>2, ClientAssumption
  <2>7. mishaps \subseteq {"fork_failed", "early_exit"} /\ copies \in Nat
    BY <2>1 DEF IInv, ExecTypeOK
  <2>. QED BY <2>2, <2>3, <2>4, <2>5, <2>6, <2>7 DEF TypeOK
<1>. QED BY <1>1, NInvAlways, PTL

(* A node never gives more answers than commands and pushes were sent to   *)
(* it, unless one was sent while a transfer was under way: a job answers   *)
(* when it is counted, a file with its END, at either end, and the         *)
(* callback is off before END goes out (lkpServer.cc:321-355,              *)
(* lkpClient.cc:229-250).                                                  *)
THEOREM NoSecondAnswer == Spec => []NoExtraAnswer
<1>1. NInv => NoExtraAnswer
  <2> SUFFICES ASSUME NInv, ~disturbed["server"], ~disturbed["client"]
               PROVE  ~(answered > issued)
    BY DEF NoExtraAnswer
  <2>1. PICK c \in Nat, e \in Nat, b \in Nat, a \in Nat, i \in Nat :
          /\ c = Commands(wire, functors) /\ e = EndsIn(wire["server"])
          /\ b = Begun(callback, pusher, main) /\ a = answered /\ i = issued
    BY NFacts
  <2>2. a + c + e + b <= i
    BY <2>1 DEF NInv, Balanced, Tallied, Calm
  <2>. QED BY <2>1, <2>2
<1>. QED BY <1>1, NInvAlways, PTL
=============================================================================
