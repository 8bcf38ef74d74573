---------------------------- MODULE lkpServerCmd ----------------------------
(***************************************************************************)
(* How the server carries out a command and counts the replies:            *)
(* onCommandMsg with BroadToClients and pushToClient, and the handlers of  *)
(* the three replies, onCommandACK, onPushACK and the END case of          *)
(* onFileMsg, which count on the same three integers.                      *)
(*                                                                         *)
(* muduo runs the handlers of a connection in the IO loop the connection   *)
(* was assigned to.  Handlers in one loop exclude each other, handlers in  *)
(* different loops interleave, and no lock protects the counters: each     *)
(* load and store of an increment is a step, and so is setting clientNum_; *)
(* the stores of 0 that onCommandMsg begins with are one step.  Operations *)
(* on the pool are atomic.  A node is identified with the ID it is         *)
(* registered under, and the list of nodes changes as lkpMembership allows.*)
(***************************************************************************)
EXTENDS Integers, Sequences, FiniteSets

CONSTANTS
  Node,        \* the node IDs
  Kinds,       \* the commands that are given
  CliLoop,     \* the IO loop of the command line's connection
  LoopOf,      \* the IO loop of every node's connection
  MaxCommands  \* bound: number of commands given in a behaviour

ASSUME CmdAssumption ==
  /\ Node \subseteq Nat
  /\ Kinds \subseteq {"UPDATE", "RUN", "RESULT", "PUSH", "LIST"}
  /\ MaxCommands \in Nat

VARIABLES
  members,     \* the nodes in clientPool_
  reachable,   \* the nodes whose connection is connected
  clientNum_, clientOKNum_, ackTimes_,
  node_info,   \* IDs an error message is recorded under
  run,         \* what each IO loop is executing
  inFlight,    \* commands sent to a node whose reply the server has not handled
  cliWaits,    \* the command line of the last command is still connected
  returns,     \* the Returns produced since the last command came in
  up,          \* the server process has not crashed
  hist         \* history of the last command, see Fresh

poolVars == <<members, reachable>>
counters == <<clientNum_, clientOKNum_, ackTimes_, node_info>>
vars == <<poolVars, counters, run, inFlight, cliWaits, returns, up, hist>>

Loop == {CliLoop} \cup {LoopOf[n] : n \in Node}
All == -1             \* send_to_all: a node_id, being uint32, is never below 0
Idle == [at |-> "idle"]
ProtoDefaultID == 0   \* the value of a node_id that was not set

(* no: number of the command; sent: the nodes it went to; answered, okd:   *)
(* the nodes whose reply, whose good reply, to it was taken up; late,      *)
(* lateOK: how many replies, good replies, to earlier commands were taken  *)
(* up meanwhile; disturbed: a node joined or left meanwhile, or was        *)
(* registered but closed from the start.                                   *)
Fresh(no) == [no |-> no, sent |-> {}, answered |-> {}, okd |-> {},
              late |-> 0, lateOK |-> 0, disturbed |-> FALSE]

TypeOK ==
  /\ members \subseteq Node /\ reachable \subseteq members
  /\ {clientNum_, clientOKNum_, ackTimes_} \subseteq Nat
  /\ node_info \subseteq Node \cup {ProtoDefaultID}
  /\ \A l \in Loop : run[l].at \in
       {"idle", "send", "count", "acks", "ok_load", "ok_store", "info", "check"}
  /\ inFlight \subseteq [node : Node, no : 1..MaxCommands, kind : Kinds]
  /\ cliWaits \in BOOLEAN /\ up \in BOOLEAN
  /\ hist.no \in 0..MaxCommands

Init ==
  /\ members = {} /\ reachable = {}
  /\ clientNum_ = 0 /\ clientOKNum_ = 0 /\ ackTimes_ = 0
  /\ node_info = {}
  /\ run = [l \in Loop |-> Idle]
  /\ inFlight = {}
  /\ cliWaits = FALSE
  /\ returns = <<>>
  /\ up = TRUE
  /\ hist = Fresh(0)

(* SendToCmdClient: the command line prints the Return and exits.          *)
SendReturn(kind, num, ok, info) ==
  /\ returns' = Append(returns,
       [kind |-> kind, num |-> num, ok |-> ok, info |-> info, shown |-> cliWaits])
  /\ cliWaits' = FALSE
-----------------------------------------------------------------------------
(* Mutants: one of the counters keeps its value from the last command.     *)
ResetButAckTimes ==
  clientNum_' = 0 /\ clientOKNum_' = 0 /\ node_info' = {} /\ UNCHANGED ackTimes_

ResetButOKNum ==
  clientNum_' = 0 /\ ackTimes_' = 0 /\ node_info' = {} /\ UNCHANGED clientOKNum_

ResetCounters == clientNum_' = 0 /\ clientOKNum_' = 0 /\ ackTimes_' = 0 /\ node_info' = {}

(* A command line connects and its command arrives.  onCommandMsg resets   *)
(* the counters first; LIST is answered at once.  The "ERROR 1" Return     *)
(* that is filled in for an unknown ID is never sent.                      *)
onCommandMsg(kind, to) ==
  /\ up /\ run[CliLoop] = Idle /\ ~cliWaits /\ hist.no < MaxCommands
  /\ ResetCounters
  /\ hist' = [Fresh(hist.no + 1) EXCEPT !.disturbed = (members # reachable)]
  /\ IF kind = "LIST"
       THEN /\ returns' = <<[kind |-> kind, num |-> Cardinality(members),
                             ok |-> Cardinality(members), info |-> members, shown |-> TRUE]>>
            /\ cliWaits' = FALSE
            /\ UNCHANGED run
       ELSE /\ returns' = <<>>
            /\ cliWaits' = TRUE
            /\ run' = [run EXCEPT ![CliLoop] = [at |-> "send", kind |-> kind, to |-> to]]
  /\ UNCHANGED <<poolVars, inFlight, up>>

(* The command, or the file it pushes, goes out to the nodes in dest;      *)
(* SendToClient sends nothing on a connection that is not connected.       *)
SendTo(dest, kind) ==
  /\ inFlight' = inFlight \cup
       {[node |-> n, no |-> hist.no, kind |-> kind] : n \in dest \cap reachable}
  /\ hist' = [hist EXCEPT !.sent = dest \cap reachable]

Destination(to) == IF to = All THEN members ELSE {to} \cap members

(* Mutant: clientNum_ is the number of nodes for a single node too.        *)
ExpectAllReplies(to) == Cardinality(members)

ExpectedReplies(to) == IF to = All THEN Cardinality(members) ELSE 1

(* UPDATE, RUN and RESULT are sent first and clientNum_ is set after.      *)
SendCommand ==
  LET h == run[CliLoop]
  IN  /\ up /\ h.at = "send" /\ h.kind # "PUSH"
      /\ SendTo(Destination(h.to), h.kind)
      /\ run' = [run EXCEPT ![CliLoop] = [at |-> "count", kind |-> h.kind, to |-> h.to]]
      /\ UNCHANGED <<poolVars, counters, cliWaits, returns, up>>

SetClientNum ==
  LET h == run[CliLoop]
  IN  /\ up /\ h.at = "count"
      /\ clientNum_' = ExpectedReplies(h.to)
      /\ run' = [run EXCEPT ![CliLoop] = Idle]
      /\ UNCHANGED <<poolVars, clientOKNum_, ackTimes_, node_info, inFlight, cliWaits,
                     returns, up, hist>>

(* pushToClient sets clientNum_ first.  Without the file it returns; with  *)
(* it, an unknown ID makes it call through a null connection.              *)
pushToClient(fileExists) ==
  LET h == run[CliLoop]
  IN  /\ up /\ h.at = "send" /\ h.kind = "PUSH"
      /\ clientNum_' = ExpectedReplies(h.to)
      /\ run' = [run EXCEPT ![CliLoop] = Idle]
      /\ \/ /\ ~fileExists
            /\ UNCHANGED <<inFlight, hist, up>>
         \/ /\ fileExists /\ h.to # All /\ h.to \notin members
            /\ up' = FALSE
            /\ UNCHANGED <<inFlight, hist>>
         \/ /\ fileExists /\ (h.to = All \/ h.to \in members)
            /\ SendTo(Destination(h.to), "PUSH")
            /\ UNCHANGED up
      /\ UNCHANGED <<poolVars, clientOKNum_, ackTimes_, node_info, cliWaits, returns>>
-----------------------------------------------------------------------------
(* A reply of a node is taken up: onCommandACK (any command but PUSH, good *)
(* or bad), onPushACK, or onFileMsg for the END of a RESULT.  infoID is    *)
(* the node_id its error would be recorded under: an END carries none.     *)
(* ackTimes_++ begins with loading the counter.                            *)
Replies(m) ==
  {[ok |-> FALSE, infoID |-> m.node]} \cup
  IF m.kind = "RESULT"
    THEN {[ok |-> b, infoID |-> ProtoDefaultID] : b \in BOOLEAN}
    ELSE {[ok |-> TRUE, infoID |-> m.node]}

TakeReply(m, reply) ==
  LET l == LoopOf[m.node]
  IN  /\ up /\ run[l] = Idle
      /\ inFlight' = inFlight \ {m}
      /\ run' = [run EXCEPT ![l] = [at |-> "acks", kind |-> m.kind, ok |-> reply.ok,
                                    infoID |-> reply.infoID, reg |-> ackTimes_]]
      /\ hist' = IF m.no = hist.no
                   THEN [hist EXCEPT !.answered = @ \cup {m.node},
                                     !.okd = IF reply.ok THEN @ \cup {m.node} ELSE @]
                   ELSE [hist EXCEPT !.late = @ + 1, !.lateOK = IF reply.ok THEN @ + 1 ELSE @]
      /\ UNCHANGED <<poolVars, counters, cliWaits, returns, up>>

StoreAckTimes(l) ==
  /\ up /\ run[l].at = "acks"
  /\ ackTimes_' = run[l].reg + 1
  /\ run' = [run EXCEPT ![l].at = IF run[l].ok THEN "ok_load" ELSE "info"]
  /\ UNCHANGED <<poolVars, clientNum_, clientOKNum_, node_info, inFlight, cliWaits,
                 returns, up, hist>>

LoadOKNum(l) ==
  /\ up /\ run[l].at = "ok_load"
  /\ run' = [run EXCEPT ![l].at = "ok_store", ![l].reg = clientOKNum_]
  /\ UNCHANGED <<poolVars, counters, inFlight, cliWaits, returns, up, hist>>

StoreOKNum(l) ==
  /\ up /\ run[l].at = "ok_store"
  /\ clientOKNum_' = run[l].reg + 1
  /\ run' = [run EXCEPT ![l].at = "check"]
  /\ UNCHANGED <<poolVars, clientNum_, ackTimes_, node_info, inFlight, cliWaits,
                 returns, up, hist>>

update_info(l) ==
  /\ up /\ run[l].at = "info"
  /\ node_info' = node_info \cup {run[l].infoID}
  /\ run' = [run EXCEPT ![l].at = "check"]
  /\ UNCHANGED <<poolVars, clientNum_, clientOKNum_, ackTimes_, inFlight, cliWaits,
                 returns, up, hist>>

(* Mutants: also after the last reply; or only when every node succeeded.  *)
EnoughReplies == ackTimes_ >= clientNum_

AllSucceeded == clientOKNum_ = clientNum_

AllReplied == ackTimes_ = clientNum_

(* The reply that makes the counts equal sends the Return.                 *)
CheckAckTimes(l) ==
  /\ up /\ run[l].at = "check"
  /\ run' = [run EXCEPT ![l] = Idle]
  /\ UNCHANGED hist
  /\ IF AllReplied
       THEN SendReturn(run[l].kind, clientNum_, clientOKNum_, node_info)
       ELSE UNCHANGED <<returns, cliWaits>>
  /\ UNCHANGED <<poolVars, counters, inFlight, up>>
-----------------------------------------------------------------------------
(* onTimer of the command line: after five seconds it gives up and exits.  *)
CliTimeout ==
  /\ cliWaits /\ cliWaits' = FALSE
  /\ UNCHANGED <<poolVars, counters, run, inFlight, returns, up, hist>>

Disturb == hist' = [hist EXCEPT !.disturbed = TRUE]

(* onConnection, UP: the node is registered.                               *)
Join(n) ==
  /\ up /\ run[LoopOf[n]] = Idle /\ n \notin members
  /\ members' = members \cup {n} /\ reachable' = reachable \cup {n}
  /\ Disturb
  /\ UNCHANGED <<counters, run, inFlight, cliWaits, returns, up>>

(* The node's connection is no longer connected: it was shut down after    *)
(* the timeout, or the node closed.  Some of the replies under way on it   *)
(* may still be read before the close, the others are lost.  The node      *)
(* stays registered until the pool deletes it.                             *)
Disconnect(n) ==
  /\ up /\ n \in reachable
  /\ reachable' = reachable \ {n}
  /\ \E lost \in SUBSET {m \in inFlight : m.node = n} : inFlight' = inFlight \ lost
  /\ Disturb
  /\ UNCHANGED <<members, counters, run, cliWaits, returns, up>>

(* Mutant: a node is deleted while its connection is up.                   *)
DeleteReachable(n) ==
  /\ up /\ n \in members
  /\ members' = members \ {n}
  /\ Disturb
  /\ UNCHANGED <<reachable, counters, run, inFlight, cliWaits, returns, up>>

(* The pool deletes a node whose connection has ended.                     *)
Delete(n) ==
  /\ up /\ n \in members \ reachable
  /\ members' = members \ {n}
  /\ Disturb
  /\ UNCHANGED <<reachable, counters, run, inFlight, cliWaits, returns, up>>
-----------------------------------------------------------------------------
HandlerStep(l) ==
  \/ StoreAckTimes(l) \/ LoadOKNum(l) \/ StoreOKNum(l) \/ update_info(l)
  \/ CheckAckTimes(l)

CommandStep == SendCommand \/ SetClientNum \/ \E b \in BOOLEAN : pushToClient(b)

NodeReplies(n) == \E m \in inFlight : m.node = n /\ \E r \in Replies(m) : TakeReply(m, r)

Next ==
  \/ \E kind \in Kinds : \E to \in Node \cup {All} : onCommandMsg(kind, to)
  \/ CommandStep
  \/ \E n \in Node : NodeReplies(n) \/ Join(n) \/ Disconnect(n) \/ Delete(n)
  \/ \E l \in Loop : HandlerStep(l)
  \/ CliTimeout

(* Each loop runs the handler it has begun to its end, and a node that is  *)
(* reachable answers what it was sent (lkpClient.cc:97-261, 296-352).      *)
Spec ==
  /\ Init /\ [][Next]_vars
  /\ WF_vars(CommandStep)
  /\ \A l \in Loop : WF_vars(HandlerStep(l))
  /\ \A n \in Node : SF_vars(NodeReplies(n))
-----------------------------------------------------------------------------
Quiet == \A l \in Loop : run[l] = Idle

(* At the end of every handler the counters are exactly the replies to the *)
(* command and those to earlier ones that came late: one for each, none    *)
(* lost or counted twice, whatever nodes came and went.                    *)
CountsAreReplies ==
  Quiet =>
    /\ ackTimes_ = Cardinality(hist.answered) + hist.late
    /\ clientOKNum_ = Cardinality(hist.okd) + hist.lateOK

(* At most one Return answers a command, stale replies or not: the command *)
(* line exits at the first, a second would be taken for the answer to the  *)
(* next command (lkpServer.cc:371, 402, 455).                              *)
AtMostOneReturn == Len(returns) <= 1

(* What a Return claims, when it is sent, is what has happened: as many    *)
(* nodes as it names have answered the command, and as many succeeded, but *)
(* for the replies to earlier commands that came before it, each of which  *)
(* stands for one node that has not answered (lkpServer.cc:371, 402, 455). *)
Sent == {returns'[i] : i \in 1..Len(returns')} \ {returns[i] : i \in 1..Len(returns)}

ReturnIsHonest ==
  [][\A r \in Sent : r.kind # "LIST" =>
       /\ r.num = Cardinality(hist.answered) + hist.late
       /\ r.ok = Cardinality(hist.okd) + hist.lateOK]_vars

AllAnswered == hist.sent # {} /\ hist.sent \subseteq hist.answered

(* lkpProto.proto:63: when the server has collected the replies of all     *)
(* nodes it sends a Return.  While nobody joins or leaves, that is so.     *)
ReturnWhenAllAnswered ==
  up /\ Quiet /\ AllAnswered /\ ~hist.disturbed => Len(returns) = 1

(* So a command that reached a node is answered in the end, unless the     *)
(* nodes change or the next command comes first, which has been sent to    *)
(* nobody yet.                                                             *)
CommandIsAnswered ==
  hist.sent # {} ~> returns # <<>> \/ hist.disturbed \/ hist.sent = {}
-----------------------------------------------------------------------------
(* Claims of the repository that the code does not keep.                   *)

(* lkpProto.proto:41-45: a reply counts for the command it answers, and    *)
(* names it "for check".  So a Return that is shown states how many nodes  *)
(* carried out the command it is shown for.                                *)
ReturnCountsOwnReplies ==
  [][\A r \in Sent : r.shown /\ r.kind # "LIST" => r.ok <= Cardinality(hist.okd)]_vars
=============================================================================
