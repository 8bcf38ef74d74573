------------------------- MODULE lkpServerConn_proofs -------------------------
(***************************************************************************)
(* Proofs about lkpServerConn and the pool of node IDs it extends, for any *)
(* sets of connections, any length of the wheel and any set of nodes that  *)
(* take part in transfers; and, for none that do, that the server          *)
(* implements the safety part of lkpMembership.                            *)
(***************************************************************************)
EXTENDS lkpServerConn, TLAPS

(***************************************************************************)
(* lkpClientPool: the node IDs stay partitioned into those in use and      *)
(* those that are idle.                                                    *)
(***************************************************************************)

(* add keeps types and partition, registers c under the new ID, and leaves *)
(* every other registration alone (lkpHelper.cc:92-117).                   *)
LEMMA AddLemma ==
  ASSUME PoolTypeOK, IDsPartitioned, NEW c \in Node, NEW id, add(c, id)
  PROVE  /\ PoolTypeOK' /\ IDsPartitioned'
         /\ id \in Nat /\ id \notin DOMAIN connections_
         /\ DOMAIN connections_' = DOMAIN connections_ \cup {id}
         /\ connections_'[id] = c
         /\ \A i \in DOMAIN connections_ : connections_'[i] = connections_[i]
<1>1. id \in Nat /\ id \notin DOMAIN connections_
  BY DEF PoolTypeOK, IDsPartitioned, add, IsNewID
<1>2. /\ DOMAIN connections_' = DOMAIN connections_ \cup {id}
      /\ connections_'[id] = c
      /\ \A i \in DOMAIN connections_ : connections_'[i] = connections_[i]
  BY <1>1 DEF add
<1>3. PoolTypeOK'
  BY <1>1 DEF PoolTypeOK, add
<1>4. IDsPartitioned'
  <2>1. CASE idleNodeID = {}
    BY <1>1, <1>2, <2>1 DEF PoolTypeOK, IDsPartitioned, add, IsNewID
  <2>2. CASE idleNodeID # {}
    BY <1>1, <1>2, <2>2 DEF PoolTypeOK, IDsPartitioned, add, IsNewID
  <2>3. QED BY <2>1, <2>2
<1>5. QED BY <1>1, <1>2, <1>3, <1>4

(* del keeps types and partition and removes exactly the registrations     *)
(* named by ids (lkpHelper.cc:120-132).                                    *)
LEMMA DelLemma ==
  ASSUME PoolTypeOK, IDsPartitioned, NEW ids, del(ids)
  PROVE  /\ PoolTypeOK' /\ IDsPartitioned'
         /\ DOMAIN connections_' = DOMAIN connections_ \ ids
         /\ \A i \in DOMAIN connections_' : connections_'[i] = connections_[i]
<1>1. /\ DOMAIN connections_' = DOMAIN connections_ \ ids
      /\ \A i \in DOMAIN connections_' : connections_'[i] = connections_[i]
  BY DEF del, Restrict
<1>2. PoolTypeOK'
  BY DEF PoolTypeOK, del, Restrict
<1>3. IDsPartitioned'
  BY <1>1 DEF PoolTypeOK, IDsPartitioned, del
<1>4. QED BY <1>1, <1>2, <1>3

(* The inductive invariant of the pool alone.                              *)
PoolIInv == PoolTypeOK /\ IDsPartitioned /\ OneIDPerConnection

(* The empty pool of a fresh server satisfies the invariant (lkpHelper.h). *)
LEMMA PoolInitial == PoolInit => PoolIInv
  BY DEF PoolInit, PoolIInv, PoolTypeOK, IDsPartitioned, OneIDPerConnection, IsInjective

(* Every add and del keeps the invariant (lkpHelper.cc:92-132).            *)
LEMMA PoolStep == PoolIInv /\ [PoolNext]_poolVars => PoolIInv'
<1> SUFFICES ASSUME PoolIInv, [PoolNext]_poolVars PROVE PoolIInv'
  OBVIOUS
<1> USE DEF PoolIInv
<1>1. ASSUME NEW c \in Node, Join(c) PROVE PoolIInv'
  <2>1. PICK id \in 0..nodeCount_ : add(c, id)
    BY <1>1 DEF Join
  <2>2. \A i \in DOMAIN connections_ : connections_[i] # c
    BY <1>1 DEF Join, Registered, Range
  <2>3. /\ PoolTypeOK' /\ IDsPartitioned'
        /\ DOMAIN connections_' = DOMAIN connections_ \cup {id}
        /\ connections_'[id] = c
        /\ \A i \in DOMAIN connections_ : connections_'[i] = connections_[i]
    BY <2>1, AddLemma
  <2>4. OneIDPerConnection'
    BY <2>2, <2>3 DEF OneIDPerConnection, IsInjective
  <2>5. QED BY <2>3, <2>4
<1>2. ASSUME NEW id \in 0..nodeCount_, Leave(id) PROVE PoolIInv'
  BY <1>2, DelLemma DEF Leave, OneIDPerConnection, IsInjective
<1>3. CASE UNCHANGED poolVars
  BY <1>3 DEF poolVars, PoolTypeOK, IDsPartitioned, OneIDPerConnection, IsInjective
<1>4. QED BY <1>1, <1>2, <1>3 DEF PoolNext

(* Whatever calls of add and del are made, in any order: no ID is in use   *)
(* and idle at once, none is lost, and no connection has two.              *)
THEOREM PoolPartition == PoolSpec => [](IDsPartitioned /\ OneIDPerConnection)
<1>1. PoolIInv => IDsPartitioned /\ OneIDPerConnection
  BY DEF PoolIInv
<1>2. QED BY PoolInitial, PoolStep, <1>1, PTL DEF PoolSpec

-----------------------------------------------------------------------------
(***************************************************************************)
(* lkpServerConn: the time wheel, the list of nodes, the command line.     *)
(***************************************************************************)

(* Where an entry sits: the newest bucket that holds it is as old as the   *)
(* last heartbeat.  This is what makes WheelExact inductive.               *)
WheelPosition ==
  \A c \in Node :
    /\ link[c] = "connecting" => quiet[c] = 0
    /\ \A b \in Wheel : c \in buckets[b] =>
         link[c] # "connecting" /\ quiet[c] < TimeControl /\ b <= TimeControl - quiet[c]
    /\ link[c] # "connecting" /\ quiet[c] < TimeControl =>
         c \in buckets[TimeControl - quiet[c]]

(* LiveIsRegistered with the ID: without transfers an open connection that *)
(* has its entry is registered under the ID in that entry.                 *)
LiveUnderOwnID ==
  held = {} => \A c \in Node : Open(c) /\ EntryAlive(c) =>
    entryID[c] \in DOMAIN connections_ /\ connections_[entryID[c]] = c

CliSlotOpen == hasCmdConnected_ => CmdConnection_ \in Cli /\ Open(CmdConnection_)

WheelInv == TypeOK /\ WheelPosition

ListInv ==
  /\ WheelInv
  /\ IDsPartitioned
  /\ RegisteredHasEntry
  /\ LiveUnderOwnID

CliInv ==
  /\ WheelInv
  /\ CliSlotExact
  /\ CliSlotOpen
  /\ CrashCause
-----------------------------------------------------------------------------
(* A timer tick destroys exactly the entries that only the oldest bucket   *)
(* held (lkpServer.cc:515-519).                                            *)
LEMMA TickLemma ==
  ASSUME TypeOK, onTimer, NEW c \in Node
  PROVE  EntryAlive(c)' <=> EntryAlive(c) /\ c \notin Expiring
<1> USE TimeControlAssumption DEF Wheel
<1>1. \A b \in Wheel : buckets'[b] = IF b = TimeControl THEN {} ELSE buckets[b + 1]
  BY DEF onTimer
<1>2. ASSUME EntryAlive(c)' PROVE EntryAlive(c) /\ c \notin Expiring
  <2>1. PICK b \in Wheel : c \in buckets'[b]
    BY <1>2 DEF EntryAlive
  <2>2. b # TimeControl /\ c \in buckets[b + 1] /\ b + 1 \in Wheel \ {1}
    BY <1>1, <2>1
  <2>3. QED BY <2>2 DEF EntryAlive, Expiring
<1>3. ASSUME EntryAlive(c), c \notin Expiring PROVE EntryAlive(c)'
  <2>1. PICK b \in Wheel \ {1} : c \in buckets[b]
    BY <1>3 DEF EntryAlive, Expiring
  <2>2. b - 1 \in Wheel /\ b - 1 # TimeControl /\ (b - 1) + 1 = b
    BY <2>1
  <2>3. c \in buckets'[b - 1]
    BY <1>1, <2>1, <2>2
  <2>4. QED BY <2>2, <2>3 DEF EntryAlive
<1>4. QED BY <1>2, <1>3

(* The position of the entries decides which of them exist.                *)
LEMMA PositionImpliesExact == WheelInv => WheelExact
<1> SUFFICES ASSUME WheelInv, NEW c \in Node
             PROVE  EntryAlive(c) <=> link[c] # "connecting" /\ quiet[c] < TimeControl
  BY DEF WheelExact
<1> USE TimeControlAssumption DEF WheelInv, Wheel
<1>1. ASSUME link[c] # "connecting", quiet[c] < TimeControl PROVE EntryAlive(c)
  <2>1. TimeControl - quiet[c] \in Wheel
    BY <1>1 DEF TypeOK
  <2>2. QED BY <1>1, <2>1 DEF WheelPosition, EntryAlive
<1>2. QED BY <1>1 DEF WheelPosition, EntryAlive
-----------------------------------------------------------------------------
(* The state of a server that has just started has its types.              *)
LEMMA TypeInitial == Init => TypeOK
<1> SUFFICES ASSUME Init PROVE TypeOK
  OBVIOUS
<1>1. PoolTypeOK
  BY PoolInitial DEF Init, PoolIInv
<1>2. quiet \in [Node -> 0..TimeControl] /\ entryID \in [Node -> Nat \cup {NoID}]
  BY TimeControlAssumption DEF Init
<1>3. QED BY <1>1, <1>2 DEF Init, TypeOK

(* Every handler of the server keeps the types and the partition of the IDs.*)
LEMMA TypeStep == TypeOK /\ IDsPartitioned /\ [Next]_vars => TypeOK' /\ IDsPartitioned'
<1> SUFFICES ASSUME TypeOK, IDsPartitioned, [Next]_vars PROVE TypeOK' /\ IDsPartitioned'
  OBVIOUS
<1> USE ConnAssumption, TimeControlAssumption DEF TypeOK, Conn, Wheel
<1>1. ASSUME NEW c \in Node, NodeUp(c) PROVE TypeOK' /\ IDsPartitioned'
  <2>1. PICK id \in 0..nodeCount_ : add(c, id) /\ entryID' = [entryID EXCEPT ![c] = id]
    BY <1>1 DEF NodeUp
  <2>2. PoolTypeOK' /\ IDsPartitioned' /\ id \in Nat
    BY <2>1, AddLemma
  <2>3. QED BY <1>1, <2>1, <2>2 DEF NodeUp, InsertBack, cliVars
<1>2. ASSUME NEW c \in Cli, CliUp(c) PROVE TypeOK' /\ IDsPartitioned'
  BY <1>2 DEF CliUp, TakeSlot, ShutDownFirst, ShutDown, poolVars, wheelVars, IDsPartitioned, PoolTypeOK
<1>3. ASSUME NEW c \in Conn, Down(c) PROVE TypeOK' /\ IDsPartitioned'
  <2>1. PoolTypeOK' /\ IDsPartitioned'
    <3>1. CASE UNCHANGED poolVars
      BY <3>1 DEF poolVars, PoolTypeOK, IDsPartitioned
    <3>2. CASE del({entryID[c]})
      BY <3>2, DelLemma
    <3>3. QED BY <1>3, <3>1, <3>2 DEF Down, ClearFlag, DownAsNode
  <2>2. hasCmdConnected_' \in BOOLEAN /\ overlap' \in BOOLEAN
    BY <1>3, Zenon DEF Down, ClearFlag, DownAsNode
  <2>3. link' \in [Conn -> {"connecting", "connected", "disconnecting", "disconnected"}]
    BY <1>3 DEF Down, ClearFlag, DownAsNode
  <2>4. crash' \in {"none", "null_entry", "bad_any_cast"}
    BY <1>3 DEF Down, ClearFlag, DownAsNode
  <2>5. UNCHANGED <<buckets, entryID, quiet, CmdConnection_, held>>
    BY <1>3 DEF Down, ClearFlag, DownAsNode, wheelVars
  <2>6. /\ CmdConnection_' \in Cli \cup {NoConn} /\ held' \subseteq Node
        /\ buckets' \in [Wheel -> SUBSET Node] /\ quiet' \in [Node -> 0..TimeControl]
        /\ entryID' \in [Node -> Nat \cup {NoID}]
    BY <2>5
  <2>7. QED BY <2>1, <2>2, <2>3, <2>4, <2>6, Zenon DEF TypeOK
<1>4. ASSUME NEW c \in Node, onHeartBeat(c) PROVE TypeOK' /\ IDsPartitioned'
  <2>1. buckets' \in [Wheel -> SUBSET Node] /\ quiet' \in [Node -> 0..TimeControl]
    BY <1>4 DEF onHeartBeat, InsertBack
  <2>2. UNCHANGED <<poolVars, cliVars, link, entryID, held, crash>>
    BY <1>4 DEF onHeartBeat
  <2>3. PoolTypeOK' /\ IDsPartitioned'
    BY <2>2 DEF poolVars, IDsPartitioned, PoolTypeOK
  <2>4. QED BY <2>1, <2>2, <2>3 DEF cliVars
<1>5. CASE onTimer
  <2>1. PoolTypeOK' /\ IDsPartitioned'
    BY <1>5, DelLemma DEF onTimer
  <2>2. buckets' \in [Wheel -> SUBSET Node]
    BY <1>5 DEF onTimer
  <2>3. quiet' \in [Node -> 0..TimeControl]
    BY <1>5 DEF onTimer
  <2>4. link' \in [Conn -> {"connecting", "connected", "disconnecting", "disconnected"}]
    BY <1>5 DEF onTimer, ShutDown
  <2>5. QED BY <1>5, <2>1, <2>2, <2>3, <2>4 DEF onTimer, cliVars
<1>6. ASSUME NEW c \in Conn, onUnknownMsg(c) PROVE TypeOK' /\ IDsPartitioned'
  BY <1>6 DEF onUnknownMsg, ShutDown, poolVars, wheelVars, cliVars, IDsPartitioned, PoolTypeOK
<1>7. ASSUME NEW c \in Node, Retain(c) PROVE TypeOK' /\ IDsPartitioned'
  BY <1>7 DEF Retain, poolVars, wheelVars, cliVars, IDsPartitioned, PoolTypeOK
<1>8. CASE UNCHANGED vars
  BY <1>8 DEF vars, poolVars, wheelVars, cliVars, IDsPartitioned, PoolTypeOK
<1>9. QED BY <1>1, <1>2, <1>3, <1>4, <1>5, <1>6, <1>7, <1>8 DEF Next

(* Types and partition together: neither is inductive alone.               *)
LEMMA TypeAlways == Spec => [](TypeOK /\ IDsPartitioned)
<1>1. Init => TypeOK /\ IDsPartitioned
  BY TypeInitial, PoolInitial DEF Init, PoolIInv
<1>2. QED BY <1>1, TypeStep, PTL DEF Spec

(* The server's state has its types, for any connections and any wheel.    *)
THEOREM TypeCorrect == Spec => []TypeOK
BY TypeAlways, PTL

(* No handler and no tick hands out an ID that is in use or loses one,     *)
(* whichever entry deletes which ID (lkpHelper.cc:92-132).                 *)
THEOREM IDsStayPartitioned == Spec => []IDsPartitioned
BY TypeAlways, PTL

(* Whatever has happened before, a new node gets the smallest free ID      *)
(* (lkpHelper.cc:97).                                                      *)
THEOREM NewIDIsSmallest == Spec => SmallestIDFirst
<1> DEFINE Smallest == \A id \in DOMAIN connections_' \ DOMAIN connections_ :
                         \A lower \in 0..(id - 1) : lower \in DOMAIN connections_
<1>1. TypeOK /\ IDsPartitioned /\ [Next]_vars => [Smallest]_poolVars
  <2> SUFFICES ASSUME TypeOK, IDsPartitioned, [Next]_vars PROVE Smallest \/ UNCHANGED poolVars
    OBVIOUS
  <2>1. ASSUME NEW c \in Node, NodeUp(c) PROVE Smallest
    <3>1. PICK id \in 0..nodeCount_ : add(c, id)
      BY <2>1 DEF NodeUp
    <3>2. id \in Nat /\ DOMAIN connections_' \ DOMAIN connections_ \subseteq {id}
      <4>1. PoolTypeOK
        BY DEF TypeOK
      <4>2. id \in Nat /\ DOMAIN connections_' = DOMAIN connections_ \cup {id}
        BY <3>1, <4>1, AddLemma
      <4>3. QED BY <4>2
    <3>3. \A lower \in 0..(id - 1) : lower \in 0..(nodeCount_ - 1) /\ lower \notin idleNodeID
      BY <3>1, <3>2 DEF add, IsNewID, TypeOK, PoolTypeOK, IDsPartitioned
    <3>4. QED BY <3>2, <3>3 DEF IDsPartitioned
  <2>2. ASSUME NEW ids, del(ids) PROVE Smallest
    BY <2>2 DEF del, Restrict
  <2>3. CASE \/ \E c \in Node : onHeartBeat(c) \/ Retain(c)
             \/ \E c \in Cli : CliUp(c)
             \/ \E c \in Conn : onUnknownMsg(c)
             \/ UNCHANGED vars
    BY <2>3 DEF onHeartBeat, Retain, CliUp, onUnknownMsg, vars
  <2>4. ASSUME NEW c \in Conn, Down(c) PROVE Smallest \/ UNCHANGED poolVars
    BY <2>2, <2>4 DEF Down, ClearFlag, DownAsNode
  <2>5. CASE onTimer
    BY <2>2, <2>5 DEF onTimer
  <2>6. QED BY <2>1, <2>3, <2>4, <2>5 DEF Next
<1>2. QED BY <1>1, TypeAlways, PTL DEF Spec, SmallestIDFirst
-----------------------------------------------------------------------------
(* The empty wheel of a server that has just started keeps the time.       *)
LEMMA WheelInitial == Init => WheelInv
<1> SUFFICES ASSUME Init PROVE WheelInv
  OBVIOUS
<1>1. TypeOK
  BY TypeInitial
<1>2. WheelPosition
  BY DEF Init, WheelPosition, Conn
<1>3. QED BY <1>1, <1>2 DEF WheelInv

(* Every handler and every tick keeps each entry where its age puts it.    *)
LEMMA WheelStep ==
  WheelInv /\ IDsPartitioned /\ [Next]_vars => WheelInv' /\ IDsPartitioned'
<1> SUFFICES ASSUME WheelInv, IDsPartitioned, [Next]_vars
             PROVE  WheelPosition'
  BY TypeStep DEF WheelInv
<1> USE ConnAssumption, TimeControlAssumption DEF WheelInv, TypeOK, Conn, Wheel
<1>1. ASSUME NEW c \in Node, NodeUp(c) PROVE WheelPosition'
  <2>1. /\ link' = [link EXCEPT ![c] = "connected"] /\ quiet' = quiet
        /\ buckets' = [buckets EXCEPT ![TimeControl] = @ \cup {c}]
        /\ link[c] = "connecting"
    BY <1>1 DEF NodeUp, InsertBack
  <2>2. QED BY <2>1 DEF WheelPosition
<1>2. ASSUME NEW c \in Cli, CliUp(c) PROVE WheelPosition'
  <2>1. buckets' = buckets /\ quiet' = quiet
    BY <1>2 DEF CliUp, TakeSlot, ShutDownFirst, wheelVars
  <2>2. \A d \in Node : link'[d] = "connecting" <=> link[d] = "connecting"
    BY <1>2 DEF CliUp, TakeSlot, ShutDownFirst, ShutDown
  <2>3. QED BY <2>1, <2>2 DEF WheelPosition
<1>3. ASSUME NEW c \in Conn, Down(c) PROVE WheelPosition'
  <2>1. buckets' = buckets /\ quiet' = quiet
    BY <1>3 DEF Down, ClearFlag, DownAsNode, wheelVars
  <2>2. \A d \in Node : link'[d] = "connecting" <=> link[d] = "connecting"
    BY <1>3 DEF Down, ClearFlag, DownAsNode, Open
  <2>3. QED BY <2>1, <2>2 DEF WheelPosition
<1>4. ASSUME NEW c \in Node, onHeartBeat(c) PROVE WheelPosition'
  <2>1. link' = link /\ link[c] # "connecting"
    BY <1>4 DEF onHeartBeat, Open
  <2>2. quiet' = [quiet EXCEPT ![c] = IF @ = TimeControl THEN @ ELSE 0]
    BY <1>4 DEF onHeartBeat
  <2>3. EntryAlive(c) <=> quiet[c] < TimeControl
    BY <2>1, PositionImpliesExact DEF WheelExact
  <2>4. CASE quiet[c] = TimeControl
    BY <1>4, <2>1, <2>2, <2>3, <2>4 DEF onHeartBeat, WheelPosition
  <2>5. CASE quiet[c] < TimeControl
    <3>1. buckets' = [buckets EXCEPT ![TimeControl] = @ \cup {c}]
      BY <1>4, <2>3, <2>5 DEF onHeartBeat, InsertBack
    <3>2. quiet[c] # TimeControl
      BY <2>5
    <3>3. \A d \in Node : quiet'[d] = IF d = c THEN 0 ELSE quiet[d]
      BY <2>2, <3>2
    <3>4. QED BY <2>1, <2>5, <3>1, <3>3 DEF WheelPosition
  <2>6. QED BY <2>4, <2>5
<1>5. CASE onTimer
  <2>1. \A b \in Wheel : buckets'[b] = IF b = TimeControl THEN {} ELSE buckets[b + 1]
    BY <1>5 DEF onTimer
  <2>2. \A c \in Node : quiet'[c] = IF link[c] = "connecting" \/ quiet[c] = TimeControl
                                      THEN quiet[c] ELSE quiet[c] + 1
    BY <1>5 DEF onTimer
  <2>3. \A c \in Node : link'[c] = "connecting" <=> link[c] = "connecting"
    BY <1>5 DEF onTimer, ShutDown
  <2>4. SUFFICES ASSUME NEW c \in Node
        PROVE /\ link'[c] = "connecting" => quiet'[c] = 0
              /\ \A b \in Wheel : c \in buckets'[b] =>
                   /\ link'[c] # "connecting" /\ quiet'[c] < TimeControl
                   /\ b <= TimeControl - quiet'[c]
              /\ link'[c] # "connecting" /\ quiet'[c] < TimeControl =>
                   c \in buckets'[TimeControl - quiet'[c]]
    BY DEF WheelPosition
  <2>5. link'[c] = "connecting" => quiet'[c] = 0
    BY <2>2, <2>3 DEF WheelPosition
  <2>6. ASSUME NEW b \in Wheel, c \in buckets'[b]
        PROVE  /\ link'[c] # "connecting" /\ quiet'[c] < TimeControl
               /\ b <= TimeControl - quiet'[c]
    <3>1. b # TimeControl /\ b + 1 \in Wheel /\ c \in buckets[b + 1]
      BY <2>1, <2>6
    <3>2. link[c] # "connecting" /\ quiet[c] < TimeControl /\ b + 1 <= TimeControl - quiet[c]
      BY <3>1 DEF WheelPosition
    <3>3. quiet'[c] = quiet[c] + 1
      BY <2>2, <3>2
    <3>4. QED BY <2>3, <3>2, <3>3
  <2>7. ASSUME link'[c] # "connecting", quiet'[c] < TimeControl
        PROVE  c \in buckets'[TimeControl - quiet'[c]]
    <3>1. quiet[c] \in 0..TimeControl /\ link[c] # "connecting"
      BY <2>3, <2>7
    <3>2. quiet'[c] = quiet[c] + 1 /\ quiet[c] < TimeControl
      BY <2>2, <2>7, <3>1
    <3>3. c \in buckets[TimeControl - quiet[c]]
      BY <3>1, <3>2 DEF WheelPosition
    <3>4. /\ TimeControl - quiet'[c] \in Wheel /\ TimeControl - quiet'[c] # TimeControl
          /\ (TimeControl - quiet'[c]) + 1 = TimeControl - quiet[c]
      <4>1. PICK q \in 0..TimeControl : q = quiet[c]
        BY <3>1
      <4>2. quiet'[c] = q + 1 /\ q + 1 < TimeControl
        BY <2>7, <3>2, <4>1
      <4>3. QED BY <4>1, <4>2, TimeControlAssumption DEF Wheel
    <3>5. QED BY <2>1, <3>3, <3>4
  <2>8. QED BY <2>5, <2>6, <2>7
<1>6. ASSUME NEW c \in Conn, onUnknownMsg(c) PROVE WheelPosition'
  <2>1. buckets' = buckets /\ quiet' = quiet
    BY <1>6 DEF onUnknownMsg, wheelVars
  <2>2. \A d \in Node : link'[d] = "connecting" <=> link[d] = "connecting"
    BY <1>6 DEF onUnknownMsg, ShutDown
  <2>3. QED BY <2>1, <2>2 DEF WheelPosition
<1>7. ASSUME NEW c \in Node, Retain(c) PROVE WheelPosition'
  BY <1>7 DEF Retain, wheelVars, WheelPosition
<1>8. CASE UNCHANGED vars
  BY <1>8 DEF vars, wheelVars, WheelPosition
<1>9. QED BY <1>1, <1>2, <1>3, <1>4, <1>5, <1>6, <1>7, <1>8 DEF Next

(* The entry of a connection exists from UP until exactly TimeControl      *)
(* ticks of silence have passed, for every length of the wheel and every   *)
(* interleaving of ticks, heartbeats and connections.                      *)
THEOREM WheelKeepsTime == Spec => []WheelExact
<1>1. Init => WheelInv /\ IDsPartitioned
  BY WheelInitial, PoolInitial DEF Init, PoolIInv
<1>2. WheelInv => WheelExact
  BY PositionImpliesExact
<1>3. QED BY <1>1, <1>2, WheelStep, PTL DEF Spec
-----------------------------------------------------------------------------
(* Registrations, entries and IDs stay as they are when the pool, the      *)
(* wheel and the entries are untouched and no closed connection opens.     *)
LEMMA ListUnchanged ==
  ASSUME RegisteredHasEntry, LiveUnderOwnID, UNCHANGED <<connections_, buckets, entryID>>,
         held \subseteq held', \A c \in Node : Open(c)' => Open(c)
  PROVE  RegisteredHasEntry' /\ LiveUnderOwnID'
  BY DEF RegisteredHasEntry, LiveUnderOwnID, EntryAlive, Wheel

(* The empty list of a server that has just started is sound.              *)
LEMMA ListInitial == Init => ListInv
  BY WheelInitial, PoolInitial
     DEF Init, PoolInit, PoolIInv, ListInv, RegisteredHasEntry, LiveUnderOwnID, Open, Conn

(* Every handler and every tick keeps the node list sound.                 *)
LEMMA ListStep == ListInv /\ [Next]_vars => ListInv'
<1> SUFFICES ASSUME ListInv, [Next]_vars PROVE RegisteredHasEntry' /\ LiveUnderOwnID'
  BY WheelStep DEF ListInv
<1> USE DEF ListInv, Conn
<1>0. TypeOK /\ PoolTypeOK /\ IDsPartitioned /\ WheelExact
  BY PositionImpliesExact DEF WheelInv, TypeOK
<1>1. ASSUME NEW c \in Node, NodeUp(c) PROVE RegisteredHasEntry' /\ LiveUnderOwnID'
  <2>1. PICK id \in 0..nodeCount_ : add(c, id) /\ entryID' = [entryID EXCEPT ![c] = id]
    BY <1>1 DEF NodeUp
  <2>2. /\ id \notin DOMAIN connections_
        /\ DOMAIN connections_' = DOMAIN connections_ \cup {id}
        /\ connections_'[id] = c
        /\ \A i \in DOMAIN connections_ : connections_'[i] = connections_[i]
    BY <1>0, <2>1, AddLemma
  <2>3. \A d \in Node : EntryAlive(d)' <=> EntryAlive(d) \/ d = c
    BY <1>0, <1>1, TimeControlAssumption DEF NodeUp, InsertBack, EntryAlive, TypeOK, Wheel
  <2>4. \A i \in DOMAIN connections_ : connections_[i] \in Node /\ connections_[i] # c
    BY <1>0, <1>1 DEF NodeUp, RegisteredHasEntry, WheelExact, PoolTypeOK
  <2>5. \A d \in Node : entryID'[d] = IF d = c THEN id ELSE entryID[d]
    BY <1>0, <2>1 DEF TypeOK
  <2>6. RegisteredHasEntry'
    BY <2>2, <2>3, <2>4, <2>5 DEF RegisteredHasEntry
  <2>7. held' = held /\ \A d \in Node : d # c => (Open(d)' <=> Open(d))
    BY <1>0, <1>1 DEF NodeUp, Open, TypeOK
  <2>8. LiveUnderOwnID'
    BY <2>2, <2>3, <2>5, <2>7 DEF LiveUnderOwnID
  <2>9. QED BY <2>6, <2>8
<1>2. ASSUME NEW c \in Cli, CliUp(c) PROVE RegisteredHasEntry' /\ LiveUnderOwnID'
  <2>1. \A d \in Node : Open(d)' => Open(d)
    BY <1>0, <1>2, ConnAssumption DEF CliUp, TakeSlot, ShutDownFirst, ShutDown, Open, TypeOK
  <2>2. QED BY <1>2, <2>1, ListUnchanged DEF CliUp, TakeSlot, ShutDownFirst, poolVars, wheelVars
<1>3. ASSUME NEW c \in Conn, Down(c) PROVE RegisteredHasEntry' /\ LiveUnderOwnID'
  <2>1. /\ \A d \in Node : Open(d)' <=> Open(d) /\ d # c
        /\ UNCHANGED <<buckets, entryID, held>>
    BY <1>0, <1>3 DEF Down, ClearFlag, DownAsNode, Open, TypeOK, wheelVars
  <2>2. CASE UNCHANGED poolVars
    BY <2>1, <2>2, ListUnchanged DEF poolVars
  <2>3. CASE c \in Node /\ EntryAlive(c) /\ del({entryID[c]})
    <3>1. /\ DOMAIN connections_' = DOMAIN connections_ \ {entryID[c]}
          /\ \A i \in DOMAIN connections_' : connections_'[i] = connections_[i]
      BY <1>0, <2>3, DelLemma
    <3>2. \A d \in Node : EntryAlive(d)' <=> EntryAlive(d)
      BY <2>1 DEF EntryAlive
    <3>3. RegisteredHasEntry'
      BY <1>0, <2>1, <3>1, <3>2 DEF RegisteredHasEntry, PoolTypeOK
    <3>4. LiveUnderOwnID'
      BY <1>3, <2>1, <2>3, <3>1, <3>2 DEF LiveUnderOwnID, Down, ClearFlag, DownAsNode
    <3>5. QED BY <3>3, <3>4
  <2>4. QED BY <1>3, <2>2, <2>3 DEF Down, ClearFlag, DownAsNode
<1>4. ASSUME NEW c \in Node, onHeartBeat(c) PROVE RegisteredHasEntry' /\ LiveUnderOwnID'
  <2>1. \A d \in Node : EntryAlive(d)' <=> EntryAlive(d)
    BY <1>0, <1>4, TimeControlAssumption, SMTT(30)
       DEF onHeartBeat, InsertBack, EntryAlive, TypeOK, Wheel
  <2>2. UNCHANGED <<connections_, entryID, held, link>>
    BY <1>4 DEF onHeartBeat, poolVars
  <2>3. RegisteredHasEntry'
    BY <1>0, <2>1, <2>2 DEF RegisteredHasEntry, PoolTypeOK
  <2>4. LiveUnderOwnID'
    BY <2>1, <2>2 DEF LiveUnderOwnID, Open
  <2>5. QED BY <2>3, <2>4
<1>5. CASE onTimer
  <2> DEFINE ids == {entryID[c] : c \in Evicted}
  <2>1. /\ DOMAIN connections_' = DOMAIN connections_ \ ids
        /\ \A i \in DOMAIN connections_' : connections_'[i] = connections_[i]
    BY <1>0, <1>5, DelLemma DEF onTimer
  <2>2. \A d \in Node : EntryAlive(d)' <=> EntryAlive(d) /\ d \notin Expiring
    BY <1>0, <1>5, TickLemma
  <2>3. /\ UNCHANGED <<entryID, held>>
        /\ \A d \in Node : Open(d)' <=> Open(d)
    BY <1>0, <1>5 DEF onTimer, ShutDown, Open, TypeOK
  <2>4. Expiring \subseteq Node /\ \A c \in Expiring : EntryAlive(c)
    BY <1>0, TimeControlAssumption DEF Expiring, EntryAlive, TypeOK, Wheel
  <2>5. RegisteredHasEntry'
    <3>1. ASSUME NEW id \in DOMAIN connections_'
          PROVE  /\ connections_'[id] = connections_[id] /\ connections_[id] \in Node
                 /\ EntryAlive(connections_[id]) /\ entryID[connections_[id]] = id
                 /\ connections_[id] \notin Expiring
      <4>1. id \in DOMAIN connections_ /\ id \notin ids /\ connections_'[id] = connections_[id]
        BY <2>1
      <4>2. /\ connections_[id] \in Node
            /\ EntryAlive(connections_[id]) /\ entryID[connections_[id]] = id
        BY <1>0, <4>1 DEF RegisteredHasEntry, PoolTypeOK
      <4>3. ConnAlive(connections_[id])
        BY <4>1 DEF ConnAlive, Registered, Range
      <4>4. QED BY <4>1, <4>2, <4>3 DEF Evicted
    <3>2. QED BY <2>2, <2>3, <3>1 DEF RegisteredHasEntry
  <2>6. LiveUnderOwnID'
    <3>1. SUFFICES ASSUME held = {}, NEW d \in Node, Open(d), EntryAlive(d), d \notin Expiring
                   PROVE  entryID[d] \in DOMAIN connections_ \ ids /\ connections_[entryID[d]] = d
      BY <2>1, <2>2, <2>3 DEF LiveUnderOwnID
    <3>2. entryID[d] \in DOMAIN connections_ /\ connections_[entryID[d]] = d
      BY <3>1 DEF LiveUnderOwnID
    <3>3. ASSUME NEW c \in Evicted PROVE entryID[c] # entryID[d]
      <4>1. c \in Node /\ EntryAlive(c) /\ c # d /\ (Open(c) \/ c \in Registered)
        BY <2>4, <3>1, <3>3 DEF Evicted, ConnAlive
      <4>2. entryID[c] \in DOMAIN connections_ /\ connections_[entryID[c]] = c
        BY <3>1, <4>1 DEF LiveUnderOwnID, RegisteredHasEntry, Registered, Range
      <4>3. QED BY <3>2, <4>1, <4>2
    <3>4. QED BY <3>2, <3>3
  <2>7. QED BY <2>5, <2>6
<1>6. ASSUME NEW c \in Conn, onUnknownMsg(c) PROVE RegisteredHasEntry' /\ LiveUnderOwnID'
  <2>1. \A d \in Node : Open(d)' => Open(d)
    BY <1>0, <1>6 DEF onUnknownMsg, ShutDown, Open, TypeOK
  <2>2. QED BY <1>6, <2>1, ListUnchanged DEF onUnknownMsg, poolVars, wheelVars
<1>7. ASSUME NEW c \in Node, Retain(c) PROVE RegisteredHasEntry' /\ LiveUnderOwnID'
  BY <1>7, ListUnchanged DEF Retain, poolVars, wheelVars, Open
<1>8. CASE UNCHANGED vars
  BY <1>8, ListUnchanged DEF vars, poolVars, wheelVars, Open
<1>9. QED BY <1>1, <1>2, <1>3, <1>4, <1>5, <1>6, <1>7, <1>8 DEF Next

(* The invariant of the list holds always.                                 *)
LEMMA ListAlways == Spec => []ListInv
BY ListInitial, ListStep, PTL DEF Spec

(* Nothing is listed beyond the wheel's reach: silence gets every node off *)
(* the list, transfers or not (lkpServer.h:183-195).                       *)
THEOREM ListIsSound == Spec => []RegisteredHasEntry
<1>1. ListInv => RegisteredHasEntry
  BY DEF ListInv
<1>2. QED BY ListAlways, <1>1, PTL

(* As long as no transfer left a connection in the file maps, no live node *)
(* is missing from the list, for any number of nodes and command lines.    *)
THEOREM ListIsComplete == Spec => []LiveIsRegistered
<1>1. ListInv => LiveIsRegistered
  BY DEF ListInv, LiveUnderOwnID, LiveIsRegistered, Registered, Range
<1>2. QED BY ListAlways, <1>1, PTL
-----------------------------------------------------------------------------
(* The free command-line slot of a started server is sound.                *)
LEMMA CliInitial == Init => CliInv
  BY WheelInitial, ConnAssumption
     DEF Init, CliInv, CliSlotExact, CliSlotOpen, CrashCause, Open, Conn

(* Every handler and every tick keeps the command-line slot sound.         *)
LEMMA CliStep ==
  CliInv /\ IDsPartitioned /\ [Next]_vars => CliInv' /\ IDsPartitioned'
<1> SUFFICES ASSUME CliInv, IDsPartitioned, [Next]_vars
             PROVE  CliSlotExact' /\ CliSlotOpen' /\ CrashCause'
  BY WheelStep DEF CliInv
<1> USE ConnAssumption DEF CliInv, Conn
<1>0. TypeOK /\ WheelExact
  BY PositionImpliesExact DEF WheelInv
<1>a. ASSUME UNCHANGED <<hasCmdConnected_, CmdConnection_, overlap, crash>>,
             \A k \in Cli : Open(k)' <=> Open(k),
             Running
      PROVE  CliSlotExact' /\ CliSlotOpen' /\ CrashCause'
  BY <1>a DEF CliSlotExact, CliSlotOpen, CrashCause, Running
<1>1. ASSUME NEW c \in Node, NodeUp(c) PROVE CliSlotExact' /\ CliSlotOpen' /\ CrashCause'
  <2>1. \A k \in Cli : Open(k)' <=> Open(k)
    BY <1>0, <1>1 DEF NodeUp, Open, TypeOK
  <2>2. QED BY <1>1, <1>a, <2>1 DEF NodeUp, cliVars
<1>2. ASSUME NEW c \in Cli, CliUp(c) PROVE CliSlotExact' /\ CliSlotOpen' /\ CrashCause'
  <2>1. \A k \in Cli : Open(k)' <=> Open(k) \/ k = c
    BY <1>0, <1>2 DEF CliUp, TakeSlot, ShutDownFirst, ShutDown, Open, TypeOK
  <2>2. CrashCause'
    BY <1>2 DEF CliUp, TakeSlot, ShutDownFirst, CrashCause, Running
  <2>3. CASE ~hasCmdConnected_
    <3>1. UNCHANGED overlap /\ CmdConnection_' = c /\ hasCmdConnected_'
      BY <1>2, <2>3 DEF CliUp, TakeSlot, ShutDownFirst
    <3>2. QED BY <2>1, <2>2, <2>3, <3>1 DEF CliSlotExact, CliSlotOpen
  <2>4. CASE hasCmdConnected_
    <3>1. overlap' /\ UNCHANGED <<CmdConnection_, hasCmdConnected_>>
      BY <1>2, <2>4 DEF CliUp, TakeSlot, ShutDownFirst
    <3>2. QED BY <2>1, <2>2, <2>4, <3>1 DEF CliSlotExact, CliSlotOpen
  <2>5. QED BY <2>3, <2>4
<1>3. ASSUME NEW c \in Conn, Down(c) PROVE CliSlotExact' /\ CliSlotOpen' /\ CrashCause'
  <2>1. \A d \in Conn : Open(d)' <=> Open(d) /\ d # c
    BY <1>0, <1>3 DEF Down, ClearFlag, DownAsNode, Open, TypeOK
  <2>2. Running /\ Open(c) /\ UNCHANGED <<CmdConnection_, quiet>>
    BY <1>3 DEF Down, ClearFlag, DownAsNode, wheelVars
  <2>3. CASE hasCmdConnected_
    <3>1. ~hasCmdConnected_' /\ UNCHANGED crash /\ (overlap' <=> overlap \/ c \in Node)
      BY <1>3, <2>3, Zenon DEF Down, ClearFlag, DownAsNode
    <3>2. CliSlotOpen' /\ CrashCause'
      BY <2>2, <3>1 DEF CliSlotOpen, CrashCause, Running
    <3>3. CliSlotExact'
      BY <2>1, <2>2, <2>3, <3>1 DEF CliSlotExact
    <3>4. QED BY <3>2, <3>3
  <2>4. CASE ~hasCmdConnected_ /\ c \in Cli
    <3>1. ~hasCmdConnected_' /\ crash' = "bad_any_cast" /\ UNCHANGED overlap
      BY <1>3, <2>4 DEF Down, ClearFlag, DownAsNode
    <3>2. overlap
      BY <2>2, <2>4 DEF CliSlotExact
    <3>3. QED BY <3>1, <3>2 DEF CliSlotExact, CliSlotOpen, CrashCause
  <2>5. CASE ~hasCmdConnected_ /\ c \in Node
    <3>1. ~hasCmdConnected_' /\ UNCHANGED overlap /\ \A k \in Cli : Open(k)' <=> Open(k)
      BY <1>3, <2>1, <2>5 DEF Down, ClearFlag, DownAsNode
    <3>2. CASE EntryAlive(c)
      BY <1>3, <2>5, <3>1, <3>2
         DEF Down, ClearFlag, DownAsNode, CliSlotExact, CliSlotOpen, CrashCause, Running
    <3>3. CASE ~EntryAlive(c)
      <4>1. crash' = "null_entry" /\ link'[c] = "disconnected"
        BY <1>0, <1>3, <2>5, <3>3 DEF Down, ClearFlag, DownAsNode, TypeOK
      <4>2. quiet[c] = TimeControl
        BY <1>0, <2>2, <2>5, <3>3, TimeControlAssumption DEF WheelExact, Open, TypeOK
      <4>3. CrashCause'
        BY <2>2, <2>5, <4>1, <4>2 DEF CrashCause
      <4>4. QED BY <2>5, <3>1, <4>3 DEF CliSlotExact, CliSlotOpen
    <3>4. QED BY <3>2, <3>3
  <2>6. QED BY <2>3, <2>4, <2>5
<1>4. ASSUME NEW c \in Node, onHeartBeat(c) PROVE CliSlotExact' /\ CliSlotOpen' /\ CrashCause'
  BY <1>4, <1>a DEF onHeartBeat, cliVars, Open
<1>5. CASE onTimer
  <2>1. \A k \in Cli : Open(k)' <=> Open(k)
    BY <1>0, <1>5 DEF onTimer, ShutDown, Open, TypeOK
  <2>2. QED BY <1>5, <1>a, <2>1 DEF onTimer, cliVars
<1>6. ASSUME NEW c \in Conn, onUnknownMsg(c) PROVE CliSlotExact' /\ CliSlotOpen' /\ CrashCause'
  <2>1. \A k \in Cli : Open(k)' <=> Open(k)
    BY <1>0, <1>6 DEF onUnknownMsg, ShutDown, Open, TypeOK
  <2>2. QED BY <1>6, <1>a, <2>1 DEF onUnknownMsg, cliVars
<1>7. ASSUME NEW c \in Node, Retain(c) PROVE CliSlotExact' /\ CliSlotOpen' /\ CrashCause'
  BY <1>7, <1>a DEF Retain, cliVars, Open
<1>8. CASE UNCHANGED vars
  BY <1>8 DEF vars, cliVars, wheelVars, CliSlotExact, CliSlotOpen, CrashCause, Open
<1>9. QED BY <1>1, <1>2, <1>3, <1>4, <1>5, <1>6, <1>7, <1>8 DEF Next

(* The invariant of the command-line slot holds always.                    *)
LEMMA CliAlways == Spec => []CliInv
<1>1. Init => CliInv /\ IDsPartitioned
  BY CliInitial, PoolInitial DEF Init, PoolIInv
<1>2. QED BY <1>1, CliStep, PTL DEF Spec

(* The flag and CmdConnection_ say which command line is open, while they  *)
(* come one at a time and no node goes down meanwhile.                     *)
THEOREM CliSlotIsSound == Spec => []CliSlotExact
<1>1. CliInv => CliSlotExact
  BY DEF CliInv
<1>2. QED BY CliAlways, <1>1, PTL

(* However they come, a set flag is never left over from a closed one.     *)
THEOREM CliSlotIsFresh == Spec => []CliSlotNotStale
<1>1. CliInv => CliSlotNotStale
  BY DEF CliInv, CliSlotOpen, CliSlotNotStale
<1>2. QED BY CliAlways, <1>1, PTL

(* onConnection ends the server only after a timeout or an overlap.        *)
THEOREM CrashesAreExplained == Spec => []CrashCause
<1>1. CliInv => CrashCause
  BY DEF CliInv
<1>2. QED BY CliAlways, <1>1, PTL

-----------------------------------------------------------------------------
(***************************************************************************)
(* lkpMembership, when no PUSH or RESULT leaves a connection in the file   *)
(* maps.                                                                   *)
(***************************************************************************)

NothingHeld == ListInv /\ held = {}

(* The invariant of the list, where no connection is ever retained.        *)
LEMMA NothingHeldInitial == Init => NothingHeld
  BY ListInitial DEF Init, NothingHeld

(* With no retaining handler, no step of the server retains a connection.  *)
LEMMA NothingHeldStep ==
  ASSUME Transfers = {}
  PROVE  NothingHeld /\ [Next]_vars => NothingHeld'
<1> SUFFICES ASSUME NothingHeld, [Next]_vars PROVE held' = {}
  BY ListStep DEF NothingHeld
<1>1. UNCHANGED held
  BY DEF Next, NodeUp, CliUp, Down, onHeartBeat, onTimer, onUnknownMsg, Retain, vars
<1>2. QED BY <1>1 DEF NothingHeld

(* A step that only loses nodes, and unlists only lost ones, is a Lose.    *)
LEMMA LoseLemma ==
  ASSUME Running, Running', Registered' \subseteq Registered,
         \A c \in Node : \/ Phase'[c] = Phase[c]
                         \/ Phase[c] = "member" /\ Phase'[c] = "gone",
         \A c \in Registered \ Registered' : Phase'[c] = "gone"
  PROVE  Membership!Next
<1> DEFINE leaving == {c \in Node : Phase[c] # Phase'[c]}
<1>1. \A c \in leaving : Phase[c] = "member"
  OBVIOUS
<1>2. Phase' = [c \in Node |-> IF c \in leaving THEN "gone" ELSE Phase[c]]
  <2>1. \A c \in Node : Phase'[c] = IF c \in leaving THEN "gone" ELSE Phase[c]
    OBVIOUS
  <2>2. QED BY <2>1 DEF Phase
<1>3. Membership!Lose(leaving)
  BY <1>1, <1>2 DEF Membership!Lose
<1>4. leaving \in SUBSET Node
  OBVIOUS
<1>5. QED BY <1>3, <1>4 DEF Membership!Next

(* Each step of the server is a step of the abstract list, or a stutter.   *)
LEMMA MembershipStep ==
  ASSUME Transfers = {}, NothingHeld, [Next]_vars
  PROVE  [Membership!Next]_<<Phase, Registered, ~Running>>
<1> USE DEF NothingHeld, ListInv, Conn
<1>0. TypeOK /\ PoolTypeOK /\ IDsPartitioned /\ WheelExact
  BY PositionImpliesExact DEF WheelInv, TypeOK
<1>1. ASSUME NEW c \in Node, NodeUp(c) PROVE Membership!Next
  <2>1. PICK id \in 0..nodeCount_ : add(c, id)
    BY <1>1 DEF NodeUp
  <2>2. /\ id \notin DOMAIN connections_
        /\ DOMAIN connections_' = DOMAIN connections_ \cup {id}
        /\ connections_'[id] = c
        /\ \A i \in DOMAIN connections_ : connections_'[i] = connections_[i]
    BY <1>0, <2>1, AddLemma
  <2>3. Registered' = Registered \cup {c}
    BY <2>2 DEF Registered, Range
  <2>4. \A d \in Node : EntryAlive(d)' <=> EntryAlive(d) \/ d = c
    BY <1>0, <1>1, TimeControlAssumption DEF NodeUp, InsertBack, EntryAlive, TypeOK, Wheel
  <2>5. Phase[c] = "new" /\ \A d \in Node : Phase'[d] = IF d = c THEN "member" ELSE Phase[d]
    BY <1>0, <1>1, <2>4 DEF NodeUp, Phase, Open, TypeOK
  <2>6. Phase' = [Phase EXCEPT ![c] = "member"]
    BY <2>5 DEF Phase
  <2>7. Membership!Join(c)
    BY <1>1, <2>3, <2>5, <2>6 DEF NodeUp, Running, Membership!Join
  <2>8. QED BY <2>7 DEF Membership!Next
<1>2. ASSUME NEW c \in Cli, CliUp(c) PROVE Membership!Next
  <2>1. Running /\ Running' /\ Registered' = Registered
    BY <1>2 DEF CliUp, poolVars, Running, Registered
  <2>2. \A d \in Node : Phase'[d] = Phase[d]
    BY <1>0, <1>2, ConnAssumption
       DEF CliUp, TakeSlot, ShutDownFirst, ShutDown, Phase, Open, EntryAlive, TypeOK, wheelVars
  <2>3. QED BY <2>1, <2>2, LoseLemma
<1>3. ASSUME NEW c \in Conn, Down(c)
      PROVE  [Membership!Next]_<<Phase, Registered, ~Running>>
  <2>1. Running /\ Open(c) /\ UNCHANGED buckets /\ link' = [link EXCEPT ![c] = "disconnected"]
    BY <1>3 DEF Down, wheelVars
  <2>2. \A d \in Node : d # c => Phase'[d] = Phase[d]
    BY <1>0, <2>1 DEF Phase, Open, EntryAlive, TypeOK
  <2>3. c \in Node => Phase'[c] = "gone" /\ (EntryAlive(c) <=> Phase[c] = "member")
                      /\ Phase[c] \in {"member", "gone"}
    BY <1>0, <2>1 DEF Phase, Open, TypeOK
  <2>4. CASE UNCHANGED poolVars /\ UNCHANGED crash
    <3>1. Running' /\ Registered' = Registered
      BY <2>1, <2>4 DEF poolVars, Running, Registered
    <3>2. QED BY <2>1, <2>2, <2>3, <3>1, LoseLemma
  <2>5. CASE ~Running' /\ UNCHANGED poolVars /\ (c \in Node => ~EntryAlive(c))
    <3>1. \A d \in Node : Phase'[d] = Phase[d]
      BY <2>2, <2>3, <2>5
    <3>2. Phase' = Phase
      <4>1. Phase = [d \in Node |-> Phase[d]] /\ Phase' = [d \in Node |-> Phase'[d]]
        BY DEF Phase
      <4>2. QED BY <3>1, <4>1, Zenon
    <3>3. Registered' = Registered
      BY <2>5 DEF poolVars, Registered
    <3>4. QED BY <2>1, <2>5, <3>2, <3>3 DEF Membership!Stop, Membership!Next
  <2>6. CASE c \in Node /\ EntryAlive(c) /\ del({entryID[c]}) /\ UNCHANGED crash
    <3>1. /\ DOMAIN connections_' = DOMAIN connections_ \ {entryID[c]}
          /\ \A i \in DOMAIN connections_' : connections_'[i] = connections_[i]
      BY <1>0, <2>6, DelLemma
    <3>2. connections_[entryID[c]] = c
      BY <2>1, <2>6 DEF LiveUnderOwnID
    <3>3. Registered' \subseteq Registered /\ Registered \ Registered' \subseteq {c}
      BY <3>1, <3>2 DEF Registered, Range
    <3>4. Running'
      BY <2>1, <2>6 DEF Running
    <3>5. QED BY <2>1, <2>2, <2>3, <2>6, <3>3, <3>4, LoseLemma
  <2>7. QED BY <1>3, <2>4, <2>5, <2>6, ConnAssumption DEF Down, ClearFlag, DownAsNode, Running
<1>4. ASSUME NEW c \in Node, onHeartBeat(c) PROVE Membership!Next
  <2>1. \A d \in Node : EntryAlive(d)' <=> EntryAlive(d)
    BY <1>0, <1>4, TimeControlAssumption, SMTT(30)
       DEF onHeartBeat, InsertBack, EntryAlive, TypeOK, Wheel
  <2>2. Running /\ Running' /\ Registered' = Registered
    BY <1>4 DEF onHeartBeat, poolVars, Running, Registered
  <2>3. \A d \in Node : Phase'[d] = Phase[d]
    BY <1>4, <2>1 DEF onHeartBeat, Phase, Open
  <2>4. QED BY <2>2, <2>3, LoseLemma
<1>5. ASSUME onTimer PROVE Membership!Next
  <2> DEFINE ids == {entryID[c] : c \in Evicted}
  <2>1. /\ DOMAIN connections_' = DOMAIN connections_ \ ids
        /\ \A i \in DOMAIN connections_' : connections_'[i] = connections_[i]
    BY <1>0, <1>5, DelLemma DEF onTimer
  <2>2. \A d \in Node : EntryAlive(d)' <=> EntryAlive(d) /\ d \notin Expiring
    BY <1>0, <1>5, TickLemma
  <2>3. Running /\ Running'
    BY <1>5 DEF onTimer, Running
  <2>4. \A d \in Node : /\ Open(d)' <=> Open(d)
                        /\ link'[d] = "connecting" <=> link[d] = "connecting"
    BY <1>0, <1>5 DEF onTimer, ShutDown, Open, TypeOK
  <2>5. \A d \in Node : \/ Phase'[d] = Phase[d]
                        \/ Phase[d] = "member" /\ Phase'[d] = "gone"
    BY <2>2, <2>4 DEF Phase
  <2>6. Expiring \subseteq Node /\ \A c \in Expiring : EntryAlive(c)
    BY <1>0, TimeControlAssumption DEF Expiring, EntryAlive, TypeOK, Wheel
  <2>7. ASSUME NEW c \in Evicted
        PROVE  c \in Node /\ c \in Expiring /\ connections_[entryID[c]] = c
    BY <2>6, <2>7
       DEF Evicted, ConnAlive, LiveUnderOwnID, RegisteredHasEntry, Registered, Range
  <2>8. Registered' \subseteq Registered /\ Registered \ Registered' \subseteq Evicted
    BY <2>1, <2>7 DEF Registered, Range
  <2>9. \A c \in Registered \ Registered' : Phase'[c] = "gone"
    <3>1. SUFFICES ASSUME NEW c \in Evicted PROVE Phase'[c] = "gone"
      BY <2>8
    <3>2. c \in Node /\ link[c] # "connecting" /\ ~EntryAlive(c)'
      BY <1>0, <2>2, <2>6, <2>7 DEF WheelExact
    <3>3. QED BY <2>4, <3>2 DEF Phase
  <2>10. QED BY <2>3, <2>5, <2>8, <2>9, LoseLemma
<1>6. ASSUME NEW c \in Conn, onUnknownMsg(c) PROVE Membership!Next
  <2>1. Running /\ Running' /\ Registered' = Registered
    BY <1>6 DEF onUnknownMsg, poolVars, Running, Registered
  <2>2. \A d \in Node : Phase'[d] = Phase[d]
    BY <1>0, <1>6 DEF onUnknownMsg, ShutDown, Phase, Open, EntryAlive, TypeOK, wheelVars
  <2>3. QED BY <2>1, <2>2, LoseLemma
<1>7. ASSUME NEW c \in Node, Retain(c) PROVE FALSE
  BY <1>7 DEF Retain
<1>8. CASE UNCHANGED vars
  BY <1>8 DEF vars, poolVars, wheelVars, Phase, Open, EntryAlive, Registered, Running
<1>9. QED BY <1>1, <1>2, <1>3, <1>4, <1>5, <1>6, <1>7, <1>8 DEF Next

(* Without transfers the server keeps the list of nodes that lkpMembership *)
(* promises: a node that is up and not timed out never leaves it.          *)
THEOREM ListImplementsMembership ==
  ASSUME Transfers = {}
  PROVE  Spec => Membership!Safety
<1>1. Init => Membership!Init
  BY DEF Init, PoolInit, Membership!Init, Phase, Registered, Range, Running, Conn
<1>2. NothingHeld /\ [Next]_vars => NothingHeld'
  BY NothingHeldStep
<1>3. NothingHeld /\ [Next]_vars => [Membership!Next]_<<Phase, Registered, ~Running>>
  BY MembershipStep
<1>4. QED BY NothingHeldInitial, <1>1, <1>2, <1>3, PTL DEF Spec, Membership!Safety
=============================================================================
