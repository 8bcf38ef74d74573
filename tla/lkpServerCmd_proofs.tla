-------------------------- MODULE lkpServerCmd_proofs --------------------------
(***************************************************************************)
(* Types of the command dispatch for any IO loops; and, when all handlers  *)
(* run in one IO loop, that replies are counted right and every command    *)
(* gets one Return, with the true counts.                                  *)
(***************************************************************************)
EXTENDS lkpServerCmd, FiniteSetTheorems, TLAPS

ReplySteps == {"acks", "ok_load", "ok_store", "info", "check"}

(* What a loop is executing, with the variables of the handler.            *)
Handler ==
  [at : {"idle"}]
    \cup [at : {"send", "count"}, kind : Kinds, to : Node \cup {All}]
    \cup [at : ReplySteps, kind : Kinds, ok : BOOLEAN, infoID : Node \cup {ProtoDefaultID},
          reg : Nat]

History == [no : 0..MaxCommands, sent : SUBSET Node, answered : SUBSET Node,
            okd : SUBSET Node, late : Nat, lateOK : Nat, disturbed : BOOLEAN]

ReturnMsg == [kind : Kinds, num : Nat, ok : Nat, info : SUBSET (Node \cup {ProtoDefaultID}),
              shown : BOOLEAN]

(* TypeOK with what the handlers keep in their local variables, and the    *)
(* finiteness of what is counted.                                          *)
CmdTypeOK ==
  /\ members \subseteq Node /\ reachable \subseteq members /\ IsFiniteSet(members)
  /\ clientNum_ \in Nat /\ clientOKNum_ \in Nat /\ ackTimes_ \in Nat
  /\ node_info \subseteq Node \cup {ProtoDefaultID}
  /\ run \in [Loop -> Handler]
  /\ inFlight \subseteq [node : Node, no : 1..MaxCommands, kind : Kinds]
  /\ cliWaits \in BOOLEAN /\ up \in BOOLEAN
  /\ returns \in Seq(ReturnMsg)
  /\ hist \in History
  /\ run[CliLoop].at = "send" => hist.no >= 1
-----------------------------------------------------------------------------
(* The loops that handlers run in.                                         *)
LEMMA LoopFacts == CliLoop \in Loop /\ \A n \in Node : LoopOf[n] \in Loop
BY DEF Loop

(* The state of a server that has just started has its types.              *)
LEMMA TypeInitial == Init => CmdTypeOK
<1> SUFFICES ASSUME Init PROVE CmdTypeOK
  OBVIOUS
<1>1. IsFiniteSet({})
  BY FS_EmptySet
<1>2. run \in [Loop -> Handler] /\ run[CliLoop].at # "send"
  BY LoopFacts DEF Init, Idle, Handler
<1>3. hist \in History
  BY CmdAssumption DEF Init, Fresh, History
<1>4. /\ members = {} /\ reachable = {} /\ node_info = {} /\ inFlight = {} /\ returns = <<>>
      /\ clientNum_ = 0 /\ clientOKNum_ = 0 /\ ackTimes_ = 0
      /\ cliWaits \in BOOLEAN /\ up \in BOOLEAN
  BY DEF Init
<1>. QED BY <1>1, <1>2, <1>3, <1>4 DEF CmdTypeOK

(* A command is read.                                                      *)
LEMMA TypeCommand ==
  ASSUME CmdTypeOK, NEW kind \in Kinds, NEW to \in Node \cup {All}, onCommandMsg(kind, to)
  PROVE  CmdTypeOK'
<1> USE DEF CmdTypeOK
<1>1. Cardinality(members) \in Nat
  BY FS_CardinalityType
<1>2. hist' \in History /\ hist'.no >= 1
  <2>1. hist.no \in 0..MaxCommands /\ hist.no < MaxCommands
    BY DEF onCommandMsg, History
  <2>2. Fresh(hist.no + 1) \in History
    BY <2>1, CmdAssumption DEF Fresh, History
  <2>3. PICK b \in BOOLEAN : hist' = [Fresh(hist.no + 1) EXCEPT !.disturbed = b]
    BY DEF onCommandMsg
  <2>4. hist' = [no |-> hist.no + 1, sent |-> {}, answered |-> {}, okd |-> {},
                late |-> 0, lateOK |-> 0, disturbed |-> b]
    BY <2>3 DEF Fresh
  <2>. QED BY <2>1, <2>4, CmdAssumption DEF History
<1>3. run' \in [Loop -> Handler]
  BY LoopFacts DEF onCommandMsg, Handler
<1>4. returns' \in Seq(ReturnMsg)
  <2>1. [kind |-> kind, num |-> Cardinality(members), ok |-> Cardinality(members),
         info |-> members, shown |-> TRUE] \in ReturnMsg
    BY <1>1 DEF ReturnMsg
  <2>2. <<>> \in Seq(ReturnMsg) /\ \A r \in ReturnMsg : <<r>> \in Seq(ReturnMsg)
    OBVIOUS
  <2>3. CASE kind = "LIST"
    BY <2>1, <2>2, <2>3 DEF onCommandMsg
  <2>4. CASE kind # "LIST"
    BY <2>2, <2>4 DEF onCommandMsg
  <2>. QED BY <2>3, <2>4
<1>. QED BY <1>2, <1>3, <1>4 DEF onCommandMsg, ResetCounters, poolVars

(* It is sent, and the number of answers to expect is set.                 *)
LEMMA TypeSend ==
  ASSUME CmdTypeOK, CommandStep
  PROVE  CmdTypeOK'
<1> USE DEF CmdTypeOK
<1>1. \A to : ExpectedReplies(to) \in Nat
  BY FS_CardinalityType DEF ExpectedReplies
<1>2. ASSUME NEW dest, NEW kind \in Kinds, SendTo(dest, kind), hist.no >= 1
      PROVE  /\ inFlight' \subseteq [node : Node, no : 1..MaxCommands, kind : Kinds]
             /\ hist' \in History /\ hist'.no = hist.no
  <2>1. hist.no \in 1..MaxCommands
    BY <1>2, CmdAssumption DEF History
  <2>. QED BY <1>2, <2>1, SMTT(30) DEF SendTo, History
<1>3. CASE SendCommand
  <2>1. /\ run[CliLoop].at = "send" /\ run[CliLoop].kind \in Kinds
        /\ run[CliLoop].to \in Node \cup {All}
    BY <1>3, LoopFacts DEF SendCommand, Handler, ReplySteps
  <2>2. run' \in [Loop -> Handler] /\ run'[CliLoop].at = "count"
    BY <1>3, <2>1, LoopFacts DEF SendCommand, Handler
  <2>. QED BY <1>2, <1>3, <2>1, <2>2 DEF SendCommand, poolVars, counters
<1>4. CASE SetClientNum
  <2>1. run' \in [Loop -> Handler] /\ run'[CliLoop].at = "idle"
    BY <1>4, LoopFacts DEF SetClientNum, Handler, Idle
  <2>. QED BY <1>1, <1>4, <2>1 DEF SetClientNum, poolVars
<1>5. ASSUME NEW b \in BOOLEAN, pushToClient(b) PROVE CmdTypeOK'
  <2>1. run[CliLoop].at = "send" /\ "PUSH" \in Kinds
    BY <1>5, LoopFacts DEF pushToClient, Handler, ReplySteps
  <2>2. run' \in [Loop -> Handler] /\ run'[CliLoop].at = "idle"
    BY <1>5, LoopFacts DEF pushToClient, Handler, Idle
  <2>. QED BY <1>1, <1>2, <1>5, <2>1, <2>2 DEF pushToClient, poolVars
<1>. QED BY <1>3, <1>4, <1>5 DEF CommandStep

(* What a reply says is typed.                                             *)
LEMMA RepliesType ==
  ASSUME NEW m \in [node : Node, no : 1..MaxCommands, kind : Kinds], NEW r \in Replies(m)
  PROVE  r.ok \in BOOLEAN /\ r.infoID \in Node \cup {ProtoDefaultID}
<1>1. \E b \in BOOLEAN, id \in Node \cup {ProtoDefaultID} : r = [ok |-> b, infoID |-> id]
  <2>1. m.node \in Node
    OBVIOUS
  <2>2. CASE m.kind = "RESULT"
    BY <2>1, <2>2 DEF Replies
  <2>3. CASE m.kind # "RESULT"
    BY <2>1, <2>3 DEF Replies
  <2>. QED BY <2>2, <2>3
<1>2. PICK b \in BOOLEAN, id \in Node \cup {ProtoDefaultID} : r = [ok |-> b, infoID |-> id]
  BY <1>1
<1>3. r.ok = b /\ r.infoID = id
  BY <1>2
<1>. QED BY <1>3, Zenon

(* A reply is taken up.                                                    *)
LEMMA TypeReply ==
  ASSUME CmdTypeOK, NEW m \in inFlight, NEW r \in Replies(m), TakeReply(m, r)
  PROVE  CmdTypeOK'
<1> USE DEF CmdTypeOK
<1>1. /\ m.node \in Node /\ m.kind \in Kinds
      /\ r.ok \in BOOLEAN /\ r.infoID \in Node \cup {ProtoDefaultID}
  BY RepliesType
<1>2. run' \in [Loop -> Handler] /\ (run'[CliLoop].at = "send" => run[CliLoop].at = "send")
  BY <1>1, LoopFacts DEF TakeReply, Handler, ReplySteps
<1>3. hist' \in History /\ hist'.no = hist.no
  <2>1. CASE m.no = hist.no
    BY <1>1, <2>1 DEF TakeReply, History
  <2>2. CASE m.no # hist.no
    <3>1. \A n \in Nat : n + 1 \in Nat
      OBVIOUS
    <3>2. hist' = [hist EXCEPT !.late = @ + 1, !.lateOK = IF r.ok THEN @ + 1 ELSE @]
      BY <2>2 DEF TakeReply
    <3>. QED BY <3>1, <3>2 DEF History
  <2>. QED BY <2>1, <2>2
<1>. QED BY <1>2, <1>3 DEF TakeReply, poolVars, counters

(* One step of the handler of a reply.                                     *)
LEMMA TypeHandler ==
  ASSUME CmdTypeOK, NEW l \in Loop, HandlerStep(l)
  PROVE  CmdTypeOK'
<1> USE DEF CmdTypeOK
<1>1. run[l].at \in ReplySteps
  BY DEF HandlerStep, StoreAckTimes, LoadOKNum, StoreOKNum, update_info, CheckAckTimes, ReplySteps
<1>2. run[l] \in [at : ReplySteps, kind : Kinds, ok : BOOLEAN,
                  infoID : Node \cup {ProtoDefaultID}, reg : Nat]
  BY <1>1 DEF Handler, ReplySteps
<1>3. CASE StoreAckTimes(l)
  <2>1. run' \in [Loop -> Handler] /\ (run'[CliLoop].at = "send" => run[CliLoop].at = "send")
    BY <1>2, <1>3, LoopFacts DEF StoreAckTimes, Handler, ReplySteps
  <2>. QED BY <1>2, <1>3, <2>1 DEF StoreAckTimes, poolVars
<1>4. CASE LoadOKNum(l)
  <2>1. run' \in [Loop -> Handler] /\ (run'[CliLoop].at = "send" => run[CliLoop].at = "send")
    BY <1>2, <1>4, LoopFacts DEF LoadOKNum, Handler, ReplySteps
  <2>. QED BY <1>4, <2>1 DEF LoadOKNum, poolVars, counters
<1>5. CASE StoreOKNum(l)
  <2>1. run' \in [Loop -> Handler] /\ (run'[CliLoop].at = "send" => run[CliLoop].at = "send")
    BY <1>2, <1>5, LoopFacts DEF StoreOKNum, Handler, ReplySteps
  <2>. QED BY <1>2, <1>5, <2>1 DEF StoreOKNum, poolVars
<1>6. CASE update_info(l)
  <2>1. run' \in [Loop -> Handler] /\ (run'[CliLoop].at = "send" => run[CliLoop].at = "send")
    BY <1>2, <1>6, LoopFacts DEF update_info, Handler, ReplySteps
  <2>. QED BY <1>2, <1>6, <2>1 DEF update_info, poolVars
<1>7. CASE CheckAckTimes(l)
  <2>1. run' \in [Loop -> Handler] /\ (run'[CliLoop].at = "send" => run[CliLoop].at = "send")
    BY <1>7, LoopFacts DEF CheckAckTimes, Handler, Idle
  <2>2. returns' \in Seq(ReturnMsg) /\ cliWaits' \in BOOLEAN
    <3>1. [kind |-> run[l].kind, num |-> clientNum_, ok |-> clientOKNum_, info |-> node_info,
           shown |-> cliWaits] \in ReturnMsg
      BY <1>2 DEF ReturnMsg
    <3>3. \A r \in ReturnMsg : Append(returns, r) \in Seq(ReturnMsg)
      OBVIOUS
    <3>4. CASE AllReplied
      <4>1. /\ cliWaits' = FALSE
            /\ returns' = Append(returns, [kind |-> run[l].kind, num |-> clientNum_,
                   ok |-> clientOKNum_, info |-> node_info, shown |-> cliWaits])
        BY <1>7, <3>4 DEF CheckAckTimes, SendReturn
      <4>. QED BY <3>1, <3>3, <4>1
    <3>5. CASE ~AllReplied
      BY <1>7, <3>5 DEF CheckAckTimes
    <3>. QED BY <3>4, <3>5
  <2>. QED BY <1>7, <2>1, <2>2 DEF CheckAckTimes, poolVars, counters
<1>. QED BY <1>3, <1>4, <1>5, <1>6, <1>7 DEF HandlerStep

(* Nodes come and go, and the command line gives up.                       *)
LEMMA TypeNodes ==
  ASSUME CmdTypeOK,
         CliTimeout \/ \E n \in Node : Join(n) \/ Disconnect(n) \/ Delete(n)
  PROVE  CmdTypeOK'
<1> USE DEF CmdTypeOK
<1>1. CASE CliTimeout
  BY <1>1 DEF CliTimeout, poolVars, counters
<1>2. ASSUME NEW n \in Node, Join(n) \/ Disconnect(n) \/ Delete(n) PROVE CmdTypeOK'
  <2>1. hist' \in History /\ hist'.no = hist.no
    BY <1>2 DEF Join, Disconnect, Delete, Disturb, History
  <2>2. IsFiniteSet(members')
    BY <1>2, FS_AddElement, FS_RemoveElement DEF Join, Disconnect, Delete
  <2>. QED BY <1>2, <2>1, <2>2 DEF Join, Disconnect, Delete, counters
<1>. QED BY <1>1, <1>2

(* Every step of every handler keeps the types.                            *)
LEMMA TypeStep == CmdTypeOK /\ [Next]_vars => CmdTypeOK'
<1> SUFFICES ASSUME CmdTypeOK, [Next]_vars PROVE CmdTypeOK'
  OBVIOUS
<1>1. ASSUME NEW kind \in Kinds, NEW to \in Node \cup {All}, onCommandMsg(kind, to)
      PROVE  CmdTypeOK'
  BY <1>1, TypeCommand
<1>2. CASE CommandStep
  BY <1>2, TypeSend
<1>3. ASSUME NEW n \in Node, NodeReplies(n) PROVE CmdTypeOK'
  BY <1>3, TypeReply DEF NodeReplies
<1>4. ASSUME NEW n \in Node, Join(n) \/ Disconnect(n) \/ Delete(n) PROVE CmdTypeOK'
  BY <1>4, TypeNodes
<1>5. ASSUME NEW l \in Loop, HandlerStep(l) PROVE CmdTypeOK'
  BY <1>5, TypeHandler
<1>6. CASE CliTimeout
  BY <1>6, TypeNodes
<1>7. CASE UNCHANGED vars
  BY <1>7 DEF vars, poolVars, counters, CmdTypeOK
<1>. QED BY <1>1, <1>2, <1>3, <1>4, <1>5, <1>6, <1>7 DEF Next

(* So the types hold always.                                               *)
LEMMA CmdTypeAlways == Spec => []CmdTypeOK
BY TypeInitial, TypeStep, PTL DEF Spec

(* The state of the command dispatch is well typed, for any nodes, IO      *)
(* loops and number of commands (lkpServer.cc:258-415).                    *)
THEOREM CmdTypeCorrect == Spec => []TypeOK
<1>1. CmdTypeOK => TypeOK
  BY DEF CmdTypeOK, TypeOK, Handler, ReplySteps, History
<1>. QED BY CmdTypeAlways, <1>1, PTL
-----------------------------------------------------------------------------
(* Every connection is in one IO loop: ServerThreadsNum is 0 or 1.          *)
SerialLoops == \A n \in Node : LoopOf[n] = CliLoop

(* What that loop is executing.                                            *)
Now == run[CliLoop]

Sending == Now.at \in {"send", "count"}

(* What the handler under way still has to add to the two counters, and    *)
(* whether the reply it has added to ackTimes_ waits for the comparison.   *)
AckPending == IF Now.at = "acks" THEN 1 ELSE 0

OKPending ==
  IF Now.at \in {"ok_load", "ok_store"} \/ (Now.at = "acks" /\ Now.ok) THEN 1 ELSE 0

Unchecked == IF Now.at \in {"ok_load", "ok_store", "info", "check"} THEN 1 ELSE 0

(* A counter that was loaded has not changed since.                        *)
RegisterIsFresh ==
  /\ Now.at = "acks" => Now.reg = ackTimes_
  /\ Now.at = "ok_store" => Now.reg = clientOKNum_

(* A node replies once, to a command it was sent.                          *)
OneReplyEach ==
  /\ \A m \in inFlight :
       m.no <= hist.no /\ (m.no = hist.no => m.node \in hist.sent \ hist.answered)
  /\ \A m1, m2 \in inFlight : m1.no = m2.no /\ m1.node = m2.node => m1 = m2
  /\ hist.okd \subseteq hist.answered /\ hist.answered \subseteq hist.sent
  /\ IsFiniteSet(hist.sent)

(* Until the number of answers is set, none has been taken up.             *)
NothingYet ==
  /\ Sending => /\ hist.answered = {} /\ returns = <<>>
                /\ ackTimes_ = 0 /\ clientOKNum_ = 0
  /\ Now.at = "send" => hist.sent = {}

(* The counters, with what the handler under way will add, are the replies *)
(* to this command and the late ones to earlier commands.                  *)
Counted ==
  /\ ackTimes_ + AckPending = Cardinality(hist.answered) + hist.late
  /\ clientOKNum_ + OKPending = Cardinality(hist.okd) + hist.lateOK

(* After the Return the count has reached clientNum_ and only grows.       *)
CountIsPast ==
  /\ AtMostOneReturn
  /\ returns # <<>> => ackTimes_ >= clientNum_ + Unchecked

(* As long as no node comes or goes, clientNum_ is the number of nodes the *)
(* command went to, and without a Return the count has not reached it.     *)
CountIsShort ==
  ~hist.disturbed =>
    /\ members = reachable
    /\ Now.at = "count" => hist.sent = Destination(Now.to)
    /\ ~Sending /\ hist.sent # {} =>
         /\ clientNum_ = Cardinality(hist.sent)
         /\ returns = <<>> => ackTimes_ < clientNum_ + Unchecked

(* The inductive invariant: it follows the handler under way, because      *)
(* CountsAreReplies and ReturnWhenAllAnswered speak of its end only.        *)
SerialInv ==
  /\ CmdTypeOK
  /\ RegisterIsFresh
  /\ OneReplyEach
  /\ NothingYet
  /\ Counted
  /\ CountIsPast
  /\ CountIsShort
-----------------------------------------------------------------------------
(* What is counted is finite, and numbers what it should.                  *)
LEMMA CardinalityFacts ==
  ASSUME CmdTypeOK, OneReplyEach
  PROVE  /\ IsFiniteSet(hist.sent) /\ IsFiniteSet(hist.answered) /\ IsFiniteSet(hist.okd)
         /\ Cardinality(hist.sent) \in Nat /\ Cardinality(hist.answered) \in Nat
         /\ Cardinality(hist.okd) \in Nat
         /\ hist.sent # {} => Cardinality(hist.sent) >= 1
         /\ hist.late \in Nat /\ hist.lateOK \in Nat
<1>1. IsFiniteSet(hist.sent) /\ IsFiniteSet(hist.answered) /\ IsFiniteSet(hist.okd)
  BY FS_Subset DEF OneReplyEach
<1>. QED BY <1>1, FS_CardinalityType, FS_EmptySet DEF CmdTypeOK, History

(* A server that has just started counts nothing.                          *)
LEMMA SerialInitial == Init => SerialInv
<1> SUFFICES ASSUME Init PROVE SerialInv
  OBVIOUS
<1>1. Now = Idle /\ hist = Fresh(0) /\ returns = <<>> /\ members = {} /\ reachable = {}
      /\ inFlight = {} /\ ackTimes_ = 0 /\ clientOKNum_ = 0 /\ clientNum_ = 0
  BY LoopFacts DEF Init, Now
<1>2. Cardinality({}) = 0 /\ IsFiniteSet({})
  BY FS_EmptySet
<1>3. RegisterIsFresh /\ NothingYet /\ OneReplyEach
  BY <1>1, <1>2 DEF RegisterIsFresh, NothingYet, Sending, OneReplyEach, Idle, Fresh
<1>4. Counted /\ CountIsPast /\ CountIsShort
  BY <1>1, <1>2 DEF Counted, CountIsPast, CountIsShort, AckPending, OKPending, Unchecked,
     Sending, Idle, Fresh, AtMostOneReturn
<1>. QED BY <1>3, <1>4, TypeInitial DEF SerialInv

(* LIST was answered, and nothing else.                                    *)
OnlyList == \E r : returns = <<r>> /\ r.kind = "LIST"

(* A command is read: everything starts from zero, and what is still in    *)
(* flight belongs to earlier commands.                                     *)
LEMMA SerialCommand ==
  ASSUME SerialInv, NEW kind \in Kinds, NEW to \in Node \cup {All}, onCommandMsg(kind, to)
  PROVE  SerialInv'
<1> USE DEF SerialInv
<1>1. CmdTypeOK'
  BY TypeCommand
<1>2. PICK b \in BOOLEAN : /\ b = (members # reachable)
                           /\ hist' = [Fresh(hist.no + 1) EXCEPT !.disturbed = b]
  BY DEF onCommandMsg
<1>3. hist' = [no |-> hist.no + 1, sent |-> {}, answered |-> {}, okd |-> {},
               late |-> 0, lateOK |-> 0, disturbed |-> b]
  BY <1>2 DEF Fresh
<1>4. /\ clientNum_' = 0 /\ clientOKNum_' = 0 /\ ackTimes_' = 0
      /\ UNCHANGED <<members, reachable, inFlight>>
  BY DEF onCommandMsg, ResetCounters, poolVars
<1>5. /\ Now'.at \in {"idle", "send"}
      /\ Now'.at = "send" => returns' = <<>>
      /\ returns' = <<>> \/ OnlyList'
  <2>1. CASE kind = "LIST"
    <3>1. Now' = Idle
      BY <2>1 DEF onCommandMsg, Now
    <3>2. OnlyList'
      BY <2>1 DEF onCommandMsg, OnlyList
    <3>. QED BY <3>1, <3>2 DEF Idle
  <2>2. CASE kind # "LIST"
    <3>1. /\ returns' = <<>>
          /\ run' = [run EXCEPT ![CliLoop] = [at |-> "send", kind |-> kind, to |-> to]]
      BY <2>2 DEF onCommandMsg
    <3>2. Now' = [at |-> "send", kind |-> kind, to |-> to]
      BY <3>1, LoopFacts DEF Now, CmdTypeOK
    <3>. QED BY <2>2, <3>1, <3>2
  <2>. QED BY <2>1, <2>2
<1>6. Cardinality({}) = 0 /\ IsFiniteSet({})
  BY FS_EmptySet
<1>7. RegisterIsFresh'
  BY <1>5 DEF RegisterIsFresh
<1>8. OneReplyEach'
  BY <1>3, <1>4, <1>6 DEF OneReplyEach, CmdTypeOK, History
<1>9. NothingYet'
  BY <1>3, <1>4, <1>5 DEF NothingYet, Sending
<1>10. Counted'
  BY <1>3, <1>4, <1>5, <1>6 DEF Counted, AckPending, OKPending
<1>11. CountIsPast'
  <2>1. CASE returns' = <<>>
    BY <2>1 DEF CountIsPast, AtMostOneReturn
  <2>2. ASSUME NEW r, returns' = <<r>>, r.kind = "LIST" PROVE CountIsPast'
    <3>1. Len(<<r>>) = 1
      OBVIOUS
    <3>2. Unchecked' = 0
      BY <1>5 DEF Unchecked
    <3>. QED BY <1>4, <2>2, <3>1, <3>2 DEF CountIsPast, AtMostOneReturn
  <2>. QED BY <1>5, <2>1, <2>2 DEF OnlyList
<1>12. CountIsShort'
  <2>1. ~hist'.disturbed => members = reachable
    BY <1>2, <1>3, Zenon
  <2>. QED BY <1>3, <1>4, <1>5, <2>1 DEF CountIsShort
<1>. QED BY <1>1, <1>7, <1>8, <1>9, <1>10, <1>11, <1>12

(* What a command puts in flight.                                          *)
Messages(dest, kind) == {[node |-> n, no |-> hist.no, kind |-> kind] : n \in dest}

(* Sending a command puts one message to each node in flight.              *)
LEMMA SentOnce ==
  ASSUME CmdTypeOK, OneReplyEach, NEW dest, NEW kind, dest \subseteq members,
         hist.sent = {}, hist'.sent = dest, hist'.no = hist.no,
         hist'.answered = hist.answered, hist'.okd = hist.okd,
         inFlight' = inFlight \cup Messages(dest, kind)
  PROVE  OneReplyEach'
<1>1. IsFiniteSet(dest)
  BY FS_Subset DEF CmdTypeOK
<1>2. hist.answered = {} /\ hist.okd = {} /\ \A m \in inFlight : m.no # hist.no
  BY DEF OneReplyEach
<1>3. hist.no \in Nat
  BY CmdAssumption DEF CmdTypeOK, History
<1>. QED BY <1>1, <1>2, <1>3 DEF OneReplyEach, Messages

(* clientNum_ is set to the number of nodes that are addressed, unless an  *)
(* unknown one is.                                                         *)
LEMMA DestinationCount ==
  ASSUME CmdTypeOK, NEW to, Destination(to) # {}
  PROVE  ExpectedReplies(to) = Cardinality(Destination(to))
<1>1. CASE to = All
  BY <1>1 DEF ExpectedReplies, Destination
<1>2. CASE to # All
  <2>1. Destination(to) = {to}
    BY <1>2 DEF Destination
  <2>. QED BY <1>2, <2>1, FS_Singleton DEF ExpectedReplies
<1>. QED BY <1>1, <1>2

(* The command goes out, and the number of answers to expect is set: no    *)
(* reply is taken up before the handler ends.                              *)
LEMMA SerialSend ==
  ASSUME SerialLoops, SerialInv, SendCommand
  PROVE  SerialInv'
<1> USE DEF SerialInv
<1>1. CmdTypeOK'
  BY TypeSend DEF CommandStep
<1>2. /\ Now.at = "send" /\ hist.sent = {} /\ hist.answered = {} /\ hist.okd = {}
      /\ returns = <<>> /\ ackTimes_ = 0 /\ clientOKNum_ = 0
  BY DEF SendCommand, Now, NothingYet, Sending, OneReplyEach
<1>3. Now' = [at |-> "count", kind |-> Now.kind, to |-> Now.to]
  BY LoopFacts DEF SendCommand, Now, CmdTypeOK
<1>4. UNCHANGED <<members, reachable, clientNum_, clientOKNum_, ackTimes_, returns>>
  BY DEF SendCommand, poolVars, counters
<1>5. /\ hist'.sent = Destination(Now.to) \cap reachable /\ hist'.no = hist.no
      /\ hist'.answered = hist.answered /\ hist'.okd = hist.okd
      /\ hist'.late = hist.late /\ hist'.lateOK = hist.lateOK
      /\ hist'.disturbed = hist.disturbed
      /\ inFlight' = inFlight \cup Messages(Destination(Now.to) \cap reachable, Now.kind)
  BY DEF Messages, SendCommand, SendTo, Now, CmdTypeOK, History
<1>6. OneReplyEach'
  <2>1. Destination(Now.to) \cap reachable \subseteq members
    BY DEF CmdTypeOK
  <2>. QED BY <1>2, <1>5, <2>1, SentOnce
<1>7. RegisterIsFresh' /\ NothingYet'
  BY <1>2, <1>3, <1>4, <1>5 DEF RegisterIsFresh, NothingYet, Sending
<1>8. Counted'
  BY <1>2, <1>3, <1>4, <1>5, FS_EmptySet DEF Counted, AckPending, OKPending
<1>9. CountIsPast'
  BY <1>2, <1>4 DEF CountIsPast, AtMostOneReturn
<1>10. CountIsShort'
  BY <1>2, <1>3, <1>4, <1>5 DEF CountIsShort, Destination, Sending, CmdTypeOK
<1>. QED BY <1>1, <1>6, <1>7, <1>8, <1>9, <1>10

(* UPDATE, RUN and RESULT: the number of answers is set after sending.     *)
LEMMA SerialSetClientNum ==
  ASSUME SerialLoops, SerialInv, SetClientNum
  PROVE  SerialInv'
<1> USE DEF SerialInv
<1>1. CmdTypeOK'
  BY TypeSend DEF CommandStep
<1>2. /\ Now.at = "count" /\ hist.answered = {} /\ hist.okd = {}
      /\ returns = <<>> /\ ackTimes_ = 0 /\ clientOKNum_ = 0
  BY DEF SetClientNum, Now, NothingYet, Sending, OneReplyEach
<1>3. Now' = Idle /\ clientNum_' = ExpectedReplies(Now.to)
  BY LoopFacts DEF SetClientNum, Now, CmdTypeOK
<1>4. UNCHANGED <<members, reachable, clientOKNum_, ackTimes_, returns, hist, inFlight>>
  BY DEF SetClientNum, poolVars
<1>5. OneReplyEach'
  BY <1>4 DEF OneReplyEach
<1>6. RegisterIsFresh' /\ NothingYet'
  BY <1>3 DEF RegisterIsFresh, NothingYet, Sending, Idle
<1>7. Counted'
  BY <1>2, <1>3, <1>4, FS_EmptySet DEF Counted, AckPending, OKPending, Idle
<1>8. CountIsPast'
  BY <1>2, <1>4 DEF CountIsPast, AtMostOneReturn
<1>9. CountIsShort'
  <2>1. ASSUME ~hist.disturbed, hist.sent # {}
        PROVE  ExpectedReplies(Now.to) = Cardinality(hist.sent)
    BY <1>2, <2>1, DestinationCount DEF CountIsShort
  <2>. QED BY <1>1, <1>2, <1>3, <1>4, <2>1, CardinalityFacts
           DEF CountIsShort, Sending, Unchecked, Idle, CmdTypeOK
<1>. QED BY <1>1, <1>5, <1>6, <1>7, <1>8, <1>9

(* PUSH: the number of answers is set before sending.                      *)
LEMMA SerialPush ==
  ASSUME SerialLoops, SerialInv, NEW b \in BOOLEAN, pushToClient(b)
  PROVE  SerialInv'
<1> USE DEF SerialInv
<1>1. CmdTypeOK'
  BY TypeSend DEF CommandStep
<1>2. /\ Now.at = "send" /\ hist.sent = {} /\ hist.answered = {} /\ hist.okd = {}
      /\ returns = <<>> /\ ackTimes_ = 0 /\ clientOKNum_ = 0
  BY DEF pushToClient, Now, NothingYet, Sending, OneReplyEach
<1>3. Now' = Idle /\ clientNum_' = ExpectedReplies(Now.to)
  BY LoopFacts DEF pushToClient, Now, CmdTypeOK
<1>4. UNCHANGED <<members, reachable, clientOKNum_, ackTimes_, returns>>
  BY DEF pushToClient, poolVars
<1>5. \/ UNCHANGED <<hist, inFlight>>
      \/ /\ hist'.sent = Destination(Now.to) \cap reachable /\ hist'.no = hist.no
         /\ hist'.answered = hist.answered /\ hist'.okd = hist.okd
         /\ hist'.late = hist.late /\ hist'.lateOK = hist.lateOK
         /\ hist'.disturbed = hist.disturbed
         /\ inFlight' = inFlight \cup Messages(Destination(Now.to) \cap reachable, "PUSH")
  BY DEF Messages, pushToClient, SendTo, Now, CmdTypeOK, History
<1>6. /\ OneReplyEach' /\ hist'.answered = {} /\ hist'.okd = {}
      /\ hist'.late = hist.late /\ hist'.lateOK = hist.lateOK
      /\ hist'.disturbed = hist.disturbed
      /\ hist'.sent = {} \/ hist'.sent = Destination(Now.to) \cap reachable
  <2>1. CASE UNCHANGED <<hist, inFlight>>
    BY <1>2, <2>1 DEF OneReplyEach
  <2>2. CASE ~UNCHANGED <<hist, inFlight>>
    <3>1. Destination(Now.to) \cap reachable \subseteq members
      BY DEF CmdTypeOK
    <3>2. OneReplyEach'
      BY <1>2, <1>5, <2>2, <3>1, SentOnce
    <3>. QED BY <1>2, <1>5, <2>2, <3>2
  <2>. QED BY <2>1, <2>2
<1>7. RegisterIsFresh' /\ NothingYet'
  BY <1>3 DEF RegisterIsFresh, NothingYet, Sending, Idle
<1>8. Counted'
  BY <1>2, <1>3, <1>4, <1>6, FS_EmptySet DEF Counted, AckPending, OKPending, Idle
<1>9. CountIsPast'
  BY <1>2, <1>4 DEF CountIsPast, AtMostOneReturn
<1>10. CountIsShort'
  <2>1. ASSUME ~hist.disturbed, hist'.sent # {}
        PROVE  hist'.sent = Destination(Now.to) /\ members = reachable
    BY <1>6, <2>1 DEF CountIsShort, Destination
  <2>2. ASSUME ~hist.disturbed, hist'.sent # {}
        PROVE  /\ ExpectedReplies(Now.to) = Cardinality(hist'.sent)
               /\ Cardinality(hist'.sent) \in Nat /\ Cardinality(hist'.sent) >= 1
    <3>1. IsFiniteSet(hist'.sent)
      BY <1>6 DEF OneReplyEach
    <3>. QED BY <2>1, <2>2, <3>1, DestinationCount, FS_CardinalityType, FS_EmptySet
  <2>3. Now'.at = "idle"
    BY <1>3 DEF Idle
  <2>4. ~hist.disturbed => members' = reachable'
    BY <1>4 DEF CountIsShort
  <2>. QED BY <1>2, <1>3, <1>4, <1>6, <2>2, <2>3, <2>4 DEF CountIsShort, Sending, Unchecked
<1>. QED BY <1>1, <1>6, <1>7, <1>8, <1>9, <1>10

(* The fields a handler of a reply keeps.                                  *)
LEMMA HandlerFields ==
  ASSUME CmdTypeOK, Now.at \in ReplySteps
  PROVE  Now \in [at : ReplySteps, kind : Kinds, ok : BOOLEAN,
                  infoID : Node \cup {ProtoDefaultID}, reg : Nat]
BY LoopFacts DEF CmdTypeOK, Handler, ReplySteps, Now

(* A reply is taken up: it counts for this command, or for an earlier one. *)
LEMMA SerialReply ==
  ASSUME SerialLoops, SerialInv, NEW m \in inFlight, NEW r \in Replies(m), TakeReply(m, r)
  PROVE  SerialInv'
<1> USE DEF SerialInv
<1>1. CmdTypeOK'
  BY TypeReply
<1>2. m.node \in Node /\ r.ok \in BOOLEAN
  BY RepliesType DEF CmdTypeOK
<1>3. Now = Idle /\ LoopOf[m.node] = CliLoop
  BY <1>2 DEF TakeReply, Now, SerialLoops
<1>4. Now' = [at |-> "acks", kind |-> m.kind, ok |-> r.ok, infoID |-> r.infoID, reg |-> ackTimes_]
  BY <1>3, LoopFacts DEF TakeReply, Now, CmdTypeOK
<1>5. /\ inFlight' = inFlight \ {m}
      /\ UNCHANGED <<members, reachable, clientNum_, clientOKNum_, ackTimes_, returns>>
  BY DEF TakeReply, poolVars, counters
<1>6. /\ Now.at = "idle" /\ Now'.at = "acks" /\ Now'.ok = r.ok /\ Now'.reg = ackTimes_
      /\ ackTimes_ \in Nat /\ clientOKNum_ \in Nat /\ clientNum_ \in Nat
  BY <1>3, <1>4 DEF Idle, CmdTypeOK
<1>7. /\ hist'.sent = hist.sent /\ hist'.no = hist.no /\ hist'.disturbed = hist.disturbed
      /\ m.no = hist.no => /\ hist'.answered = hist.answered \cup {m.node}
                           /\ hist'.okd = IF r.ok THEN hist.okd \cup {m.node} ELSE hist.okd
                           /\ hist'.late = hist.late /\ hist'.lateOK = hist.lateOK
      /\ m.no # hist.no => /\ hist'.answered = hist.answered /\ hist'.okd = hist.okd
                           /\ hist'.late = hist.late + 1
                           /\ hist'.lateOK = hist.lateOK + (IF r.ok THEN 1 ELSE 0)
  BY DEF TakeReply, CmdTypeOK, History
<1>8. RegisterIsFresh' /\ NothingYet'
  BY <1>5, <1>6 DEF RegisterIsFresh, NothingYet, Sending
<1>9. OneReplyEach'
  <2>1. m.no = hist.no => m.node \in hist.sent
    BY DEF OneReplyEach
  <2>2. \A n \in inFlight' : n \in inFlight /\ ~(n.no = m.no /\ n.node = m.node)
    BY <1>5 DEF OneReplyEach
  <2>3. CASE m.no = hist.no
    BY <1>5, <1>7, <2>1, <2>2, <2>3 DEF OneReplyEach
  <2>4. CASE m.no # hist.no
    BY <1>5, <1>7, <2>2, <2>4 DEF OneReplyEach
  <2>. QED BY <2>3, <2>4
<1>10. Counted'
  <2>1. AckPending = 0 /\ OKPending = 0 /\ AckPending' = 1 /\ OKPending' = IF r.ok THEN 1 ELSE 0
    BY <1>6 DEF AckPending, OKPending
  <2>2. CASE m.no = hist.no
    <3>1. m.node \notin hist.answered /\ m.node \notin hist.okd
      BY <2>2 DEF OneReplyEach
    <3>2. /\ Cardinality(hist.answered \cup {m.node}) = Cardinality(hist.answered) + 1
          /\ Cardinality(hist.okd \cup {m.node}) = Cardinality(hist.okd) + 1
      BY <3>1, CardinalityFacts, FS_AddElement
    <3>3. Cardinality(hist'.answered) = Cardinality(hist.answered) + 1
      BY <1>7, <2>2, <3>2
    <3>4. Cardinality(hist'.okd) = Cardinality(hist.okd) + (IF r.ok THEN 1 ELSE 0)
      <4>1. CASE r.ok
        BY <1>7, <2>2, <3>2, <4>1
      <4>2. CASE ~r.ok
        BY <1>7, <2>2, <4>2, CardinalityFacts
      <4>. QED BY <4>1, <4>2
    <3>. QED BY <1>2, <1>5, <1>6, <1>7, <2>1, <2>2, <3>3, <3>4, CardinalityFacts DEF Counted
  <2>3. CASE m.no # hist.no
    BY <1>5, <1>6, <1>7, <2>1, <2>3, CardinalityFacts DEF Counted
  <2>. QED BY <2>2, <2>3
<1>11. CountIsPast'
  BY <1>5, <1>6 DEF CountIsPast, AtMostOneReturn, Unchecked
<1>12. CountIsShort'
  BY <1>5, <1>6, <1>7 DEF CountIsShort, Unchecked, Sending
<1>. QED BY <1>1, <1>8, <1>9, <1>10, <1>11, <1>12

(* One step of the handler of a reply, up to the comparison.               *)
LEMMA SerialCounts ==
  ASSUME SerialLoops, SerialInv,
         StoreAckTimes(CliLoop) \/ LoadOKNum(CliLoop) \/ StoreOKNum(CliLoop) \/ update_info(CliLoop)
  PROVE  SerialInv'
<1> USE DEF SerialInv
<1>1. CmdTypeOK'
  BY LoopFacts, TypeHandler DEF HandlerStep
<1>2. /\ UNCHANGED <<members, reachable, clientNum_, returns, hist, inFlight>>
      /\ ackTimes_ \in Nat /\ clientOKNum_ \in Nat /\ clientNum_ \in Nat
  BY DEF StoreAckTimes, LoadOKNum, StoreOKNum, update_info, poolVars, counters, CmdTypeOK
<1>3. OneReplyEach'
  BY <1>2 DEF OneReplyEach
<1>4. CASE StoreAckTimes(CliLoop)
  <2>1. Now.at = "acks" /\ Now.reg = ackTimes_
    BY <1>4 DEF StoreAckTimes, Now, RegisterIsFresh
  <2>2. ackTimes_' = ackTimes_ + 1 /\ clientOKNum_' = clientOKNum_
    BY <1>4, <2>1 DEF StoreAckTimes, Now
  <2>3. Now'.at = IF Now.ok THEN "ok_load" ELSE "info"
    BY <1>4, LoopFacts, HandlerFields DEF StoreAckTimes, Now, CmdTypeOK
  <2>. QED BY <1>1, <1>2, <1>3, <2>1, <2>2, <2>3, CardinalityFacts
           DEF RegisterIsFresh, NothingYet, Sending, Counted, AckPending, OKPending, Unchecked,
               CountIsPast, AtMostOneReturn, CountIsShort
<1>5. CASE LoadOKNum(CliLoop)
  <2>1. Now.at = "ok_load" /\ ackTimes_' = ackTimes_ /\ clientOKNum_' = clientOKNum_
    BY <1>5 DEF LoadOKNum, Now, counters
  <2>2. Now'.at = "ok_store" /\ Now'.reg = clientOKNum_
    BY <1>5, LoopFacts, HandlerFields DEF LoadOKNum, Now, CmdTypeOK
  <2>. QED BY <1>1, <1>2, <1>3, <2>1, <2>2, CardinalityFacts
           DEF RegisterIsFresh, NothingYet, Sending, Counted, AckPending, OKPending, Unchecked,
               CountIsPast, AtMostOneReturn, CountIsShort
<1>6. CASE StoreOKNum(CliLoop)
  <2>1. Now.at = "ok_store" /\ Now.reg = clientOKNum_
    BY <1>6 DEF StoreOKNum, Now, RegisterIsFresh
  <2>2. ackTimes_' = ackTimes_ /\ clientOKNum_' = clientOKNum_ + 1
    BY <1>6, <2>1 DEF StoreOKNum, Now
  <2>3. Now'.at = "check"
    BY <1>6, LoopFacts, HandlerFields DEF StoreOKNum, Now, CmdTypeOK
  <2>. QED BY <1>1, <1>2, <1>3, <2>1, <2>2, <2>3, CardinalityFacts
           DEF RegisterIsFresh, NothingYet, Sending, Counted, AckPending, OKPending, Unchecked,
               CountIsPast, AtMostOneReturn, CountIsShort
<1>7. CASE update_info(CliLoop)
  <2>1. Now.at = "info" /\ ackTimes_' = ackTimes_ /\ clientOKNum_' = clientOKNum_
    BY <1>7 DEF update_info, Now
  <2>2. Now'.at = "check"
    BY <1>7, LoopFacts, HandlerFields DEF update_info, Now, CmdTypeOK
  <2>. QED BY <1>1, <1>2, <1>3, <2>1, <2>2, CardinalityFacts
           DEF RegisterIsFresh, NothingYet, Sending, Counted, AckPending, OKPending, Unchecked,
               CountIsPast, AtMostOneReturn, CountIsShort
<1>. QED BY <1>4, <1>5, <1>6, <1>7

(* The comparison: the Return is sent when the count meets clientNum_.     *)
LEMMA SerialCheck ==
  ASSUME SerialLoops, SerialInv, CheckAckTimes(CliLoop)
  PROVE  SerialInv'
<1> USE DEF SerialInv
<1>1. CmdTypeOK'
  BY LoopFacts, TypeHandler DEF HandlerStep
<1>2. /\ UNCHANGED <<members, reachable, clientNum_, clientOKNum_, ackTimes_, hist, inFlight>>
      /\ ackTimes_ \in Nat /\ clientOKNum_ \in Nat /\ clientNum_ \in Nat
  BY DEF CheckAckTimes, poolVars, counters, CmdTypeOK
<1>3. Now.at = "check" /\ Now' = Idle
  BY LoopFacts DEF CheckAckTimes, Now, CmdTypeOK
<1>4. Now'.at = "idle"
  BY <1>3 DEF Idle
<1>5. RegisterIsFresh' /\ NothingYet' /\ OneReplyEach'
  BY <1>2, <1>4 DEF RegisterIsFresh, NothingYet, Sending, OneReplyEach
<1>6. Counted'
  BY <1>2, <1>3, <1>4, CardinalityFacts DEF Counted, AckPending, OKPending
<1>7. CASE AllReplied
  <2>1. returns = <<>>
    BY <1>2, <1>3, <1>7 DEF CountIsPast, Unchecked, AllReplied
  <2>2. PICK ret : returns' = <<ret>>
    <3>1. returns' = Append(returns, [kind |-> run[CliLoop].kind, num |-> clientNum_,
             ok |-> clientOKNum_, info |-> node_info, shown |-> cliWaits])
      BY <1>2, <1>7 DEF CheckAckTimes, SendReturn
    <3>2. \A x : Append(<<>>, x) = <<x>>
      OBVIOUS
    <3>. QED BY <2>1, <3>1, <3>2
  <2>3. Len(<<ret>>) = 1 /\ <<ret>>[1] = ret /\ <<ret>> # <<>>
    OBVIOUS
  <2>4. CountIsPast'
    BY <1>2, <1>4, <1>7, <2>2, <2>3 DEF CountIsPast, AtMostOneReturn, Unchecked, AllReplied
  <2>5. CountIsShort'
    BY <1>2, <1>3, <1>4, <2>2, <2>3 DEF CountIsShort, Sending
  <2>. QED BY <1>1, <1>5, <1>6, <2>4, <2>5
<1>8. CASE ~AllReplied
  <2>1. returns' = returns
    BY <1>8 DEF CheckAckTimes
  <2>2. CountIsPast' /\ CountIsShort'
    BY <1>2, <1>3, <1>4, <1>8, <2>1, CardinalityFacts
       DEF CountIsPast, AtMostOneReturn, CountIsShort, Sending, Unchecked, AllReplied
  <2>. QED BY <1>1, <1>5, <1>6, <2>2
<1>. QED BY <1>7, <1>8

(* Nodes come and go, and the command line gives up: the counting is not   *)
(* touched, and no promise is made for a command that is disturbed.        *)
LEMMA SerialNodes ==
  ASSUME SerialInv, CliTimeout \/ \E n \in Node : Join(n) \/ Disconnect(n) \/ Delete(n)
  PROVE  SerialInv'
<1> USE DEF SerialInv
<1>1. CmdTypeOK'
  BY TypeNodes
<1>2. /\ UNCHANGED <<clientNum_, clientOKNum_, ackTimes_, run, returns>>
      /\ inFlight' \subseteq inFlight
      /\ hist'.sent = hist.sent /\ hist'.no = hist.no /\ hist'.answered = hist.answered
      /\ hist'.okd = hist.okd /\ hist'.late = hist.late /\ hist'.lateOK = hist.lateOK
      /\ hist'.disturbed \/ UNCHANGED <<members, reachable, hist>>
  BY DEF CliTimeout, Join, Disconnect, Delete, Disturb, counters, poolVars, CmdTypeOK, History
<1>3. Now' = Now
  BY <1>2 DEF Now
<1>4. RegisterIsFresh' /\ NothingYet' /\ OneReplyEach'
  BY <1>2, <1>3 DEF RegisterIsFresh, NothingYet, Sending, OneReplyEach
<1>5. Counted' /\ CountIsPast'
  BY <1>2, <1>3 DEF Counted, CountIsPast, AckPending, OKPending, Unchecked, AtMostOneReturn
<1>6. CountIsShort'
  BY <1>2, <1>3 DEF CountIsShort, Sending, Unchecked, Destination
<1>. QED BY <1>1, <1>4, <1>5, <1>6

(* Every step of the only loop keeps the invariant.                        *)
LEMMA SerialStep == SerialLoops /\ SerialInv /\ [Next]_vars => SerialInv'
<1> SUFFICES ASSUME SerialLoops, SerialInv, [Next]_vars PROVE SerialInv'
  OBVIOUS
<1>1. ASSUME NEW kind \in Kinds, NEW to \in Node \cup {All}, onCommandMsg(kind, to)
      PROVE  SerialInv'
  BY <1>1, SerialCommand
<1>2. CASE CommandStep
  BY <1>2, SerialSend, SerialSetClientNum, SerialPush DEF CommandStep
<1>3. ASSUME NEW n \in Node, NodeReplies(n) PROVE SerialInv'
  BY <1>3, SerialReply DEF NodeReplies
<1>4. ASSUME NEW n \in Node, Join(n) \/ Disconnect(n) \/ Delete(n) PROVE SerialInv'
  BY <1>4, SerialNodes
<1>5. ASSUME NEW l \in Loop, HandlerStep(l) PROVE SerialInv'
  <2>1. l = CliLoop
    BY DEF SerialLoops, Loop
  <2>. QED BY <1>5, <2>1, SerialCounts, SerialCheck DEF HandlerStep
<1>6. CASE CliTimeout
  BY <1>6, SerialNodes
<1>7. CASE UNCHANGED vars
  <2>1. CmdTypeOK'
    BY <1>7, TypeStep DEF SerialInv
  <2>. QED BY <1>7, <2>1
       DEF SerialInv, vars, poolVars, counters, RegisterIsFresh, OneReplyEach, NothingYet, Counted,
           CountIsPast, AtMostOneReturn, CountIsShort, Now, Sending,
           AckPending, OKPending, Unchecked, Destination
<1>. QED BY <1>1, <1>2, <1>3, <1>4, <1>5, <1>6, <1>7 DEF Next

(* So the invariant holds always.                                          *)
LEMMA SerialAlways ==
  ASSUME SerialLoops
  PROVE  Spec => []SerialInv
<1>1. SerialInv /\ [Next]_vars => SerialInv'
  BY SerialStep
<1>. QED BY SerialInitial, <1>1, PTL DEF Spec

(* Between two handlers, only the last of which matters, nothing is pending.*)
LEMMA QuietIsIdle == Quiet => Now.at = "idle"
BY LoopFacts DEF Quiet, Now, Idle

(* When all handlers run in one IO loop, the counters at the end of every  *)
(* handler are the replies to this command and the late ones to earlier    *)
(* commands, whatever nodes come and go (lkpServer.cc:321-415).            *)
THEOREM RepliesAreCounted ==
  ASSUME SerialLoops
  PROVE  Spec => []CountsAreReplies
<1>1. SerialInv => CountsAreReplies
  BY QuietIsIdle, CardinalityFacts
     DEF SerialInv, CmdTypeOK, Counted, AckPending, OKPending, CountsAreReplies
<1>. QED BY SerialAlways, <1>1, PTL

(* Then a Return that is sent claims as many nodes as have answered and as *)
(* have succeeded, and one more for every late reply.                      *)
THEOREM ReturnsAreHonest ==
  ASSUME SerialLoops
  PROVE  Spec => ReturnIsHonest
<1> DEFINE Honest(r) == r.kind # "LIST" =>
                          /\ r.num = Cardinality(hist.answered) + hist.late
                          /\ r.ok = Cardinality(hist.okd) + hist.lateOK
<1>1. SerialInv /\ [Next]_vars => [\A r \in Sent : Honest(r)]_vars
  <2> SUFFICES ASSUME SerialInv, Next, NEW r \in Sent PROVE Honest(r)
    BY DEF vars
  <2> USE DEF SerialInv
  <2>1. CASE UNCHANGED returns
    BY <2>1 DEF Sent
  <2>2. ASSUME NEW kind \in Kinds, NEW to \in Node \cup {All}, onCommandMsg(kind, to)
        PROVE  Honest(r)
    <3>1. returns' = <<>> \/ OnlyList'
      BY <2>2 DEF onCommandMsg, OnlyList
    <3>. QED BY <3>1 DEF Sent, OnlyList
  <2>3. ASSUME NEW l \in Loop, CheckAckTimes(l) PROVE Honest(r)
    <3>1. l = CliLoop
      BY DEF SerialLoops, Loop
    <3> DEFINE ret == [kind |-> run[l].kind, num |-> clientNum_, ok |-> clientOKNum_,
                       info |-> node_info, shown |-> cliWaits]
    <3>2. AllReplied /\ returns' = Append(returns, ret)
      <4>1. CASE AllReplied
        BY <2>3, <4>1 DEF CheckAckTimes, SendReturn
      <4>2. CASE ~AllReplied
        <5>1. UNCHANGED returns
          BY <2>3, <4>2 DEF CheckAckTimes
        <5>. QED BY <5>1 DEF Sent
      <4>. QED BY <4>1, <4>2
    <3>3. r = ret
      <4>1. returns \in Seq(ReturnMsg)
        BY DEF CmdTypeOK
      <4>. HIDE DEF ret
      <4>. QED BY <3>2, <4>1 DEF Sent
    <3>4. r.num = clientNum_ /\ r.ok = clientOKNum_
      BY <3>3
    <3>5. Now.at = "check"
      BY <2>3, <3>1 DEF CheckAckTimes, Now
    <3>. QED BY <3>2, <3>4, <3>5, CardinalityFacts
             DEF AllReplied, Counted, AckPending, OKPending, CmdTypeOK
  <2>4. Next => \/ UNCHANGED returns
                \/ \E kind \in Kinds, to \in Node \cup {All} : onCommandMsg(kind, to)
                \/ \E l \in Loop : CheckAckTimes(l)
    BY DEF Next, CommandStep, SendCommand, SetClientNum, pushToClient, NodeReplies, TakeReply,
           Join, Disconnect, Delete, HandlerStep, StoreAckTimes, LoadOKNum, StoreOKNum,
           update_info, CliTimeout, counters
  <2>. QED BY <2>1, <2>2, <2>3, <2>4
<1>. QED BY SerialAlways, <1>1, PTL DEF Spec, ReturnIsHonest

(* A command gets one Return at most, whatever replies come late: the      *)
(* count only moves away from clientNum_ (lkpServer.cc:371, 402, 455).     *)
THEOREM OneReturnPerCommand ==
  ASSUME SerialLoops
  PROVE  Spec => []AtMostOneReturn
<1>1. SerialInv => AtMostOneReturn
  BY DEF SerialInv, CountIsPast
<1>. QED BY SerialAlways, <1>1, PTL

(* And it gets that one as soon as every node it went to has answered,     *)
(* unless nodes came or went meanwhile (lkpProto.proto:63).                *)
THEOREM AnsweredCommandsReturn ==
  ASSUME SerialLoops
  PROVE  Spec => []ReturnWhenAllAnswered
<1>1. SerialInv => ReturnWhenAllAnswered
  <2> SUFFICES ASSUME SerialInv, Quiet, AllAnswered, ~hist.disturbed PROVE Len(returns) = 1
    BY DEF ReturnWhenAllAnswered
  <2> USE DEF SerialInv
  <2>1. Now.at = "idle"
    BY QuietIsIdle
  <2>2. hist.sent = hist.answered /\ hist.sent # {}
    BY DEF OneReplyEach, AllAnswered
  <2>3. clientNum_ = Cardinality(hist.answered) /\ ackTimes_ >= Cardinality(hist.answered)
    BY <2>1, <2>2, CardinalityFacts DEF CountIsShort, Sending, Counted, AckPending, CmdTypeOK
  <2>4. returns # <<>>
    BY <2>1, <2>2, <2>3, CardinalityFacts DEF CountIsShort, Sending, Unchecked, CmdTypeOK
  <2>5. \A seq \in Seq(ReturnMsg) : seq # <<>> => Len(seq) \in Nat /\ Len(seq) >= 1
    OBVIOUS
  <2>6. returns \in Seq(ReturnMsg) /\ Len(returns) <= 1
    BY DEF CountIsPast, AtMostOneReturn, CmdTypeOK
  <2>7. Len(returns) \in Nat /\ Len(returns) >= 1
    BY <2>4, <2>5, <2>6, Zenon
  <2>8. \A n \in Nat : n <= 1 /\ n >= 1 => n = 1
    OBVIOUS
  <2>. QED BY <2>6, <2>7, <2>8, Zenon
<1>. QED BY SerialAlways, <1>1, PTL
=============================================================================
