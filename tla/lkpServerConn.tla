---------------------------- MODULE lkpServerConn ----------------------------
(***************************************************************************)
(* Connections as the server (class lkpServer) tracks them: onConnection   *)
(* for client nodes and for command lines, the time wheel of Entry objects *)
(* that shuts down silent nodes (onHeartBeat, onTimer, ~Entry), and the    *)
(* strong references to connections that the file maps keep.               *)
(*                                                                         *)
(* An Entry is identified with the connection it was made for: every node  *)
(* connection gets exactly one.  It is held by shared pointers in buckets  *)
(* only, so it is alive exactly while it is in some bucket.  Handlers are  *)
(* atomic.  TcpConnection is muduo's: a connection is in one of its four   *)
(* states, and the object lives while muduo has it connected or while the  *)
(* server keeps a shared pointer to it.                                    *)
(***************************************************************************)
EXTENDS lkpClientPool

CONSTANTS
  Cli,         \* the TCP connections opened by command lines (127.0.0.1)
  NoConn,      \* the null TcpConnectionPtr
  TimeControl, \* ServerTimeControl: buckets in the wheel, ticks of silence allowed
  Transfers    \* the nodes that ever take part in a PUSH or a RESULT

ASSUME ConnAssumption == Node \cap Cli = {} /\ NoConn \notin Node \cup Cli
ASSUME TimeControlAssumption == TimeControl \in Nat \ {0}

VARIABLES
  link,              \* the muduo state of every connection
  hasCmdConnected_,  \* a command line is connected
  CmdConnection_,    \* the connection of that command line
  buckets,           \* connectionBuckets_: 1 is the oldest bucket, TimeControl the newest
  entryID,           \* Entry_nodeID of the entry of every node connection
  held,              \* connections that are keys of fpMap or of the result maps
  crash,             \* how the server process ended, "none" while it runs
  quiet,             \* history: ticks without a heartbeat, TimeControl once timed out
  overlap            \* history: onConnection ran in a way that confuses the CLI flag

wheelVars == <<buckets, entryID, quiet>>
cliVars == <<hasCmdConnected_, CmdConnection_, overlap>>
vars == <<poolVars, wheelVars, cliVars, link, held, crash>>

Conn == Node \cup Cli
Wheel == 1..TimeControl
NoID == -1

TypeOK ==
  /\ PoolTypeOK
  /\ link \in [Conn -> {"connecting", "connected", "disconnecting", "disconnected"}]
  /\ hasCmdConnected_ \in BOOLEAN
  /\ CmdConnection_ \in Cli \cup {NoConn}
  /\ buckets \in [Wheel -> SUBSET Node]
  /\ entryID \in [Node -> Nat \cup {NoID}]
  /\ held \subseteq Node
  /\ crash \in {"none", "null_entry", "bad_any_cast"}
  /\ quiet \in [Node -> 0..TimeControl]
  /\ overlap \in BOOLEAN

Init ==
  /\ PoolInit
  /\ link = [c \in Conn |-> "connecting"]
  /\ hasCmdConnected_ = FALSE
  /\ CmdConnection_ = NoConn
  /\ buckets = [b \in Wheel |-> {}]
  /\ entryID = [c \in Node |-> NoID]
  /\ held = {}
  /\ crash = "none"
  /\ quiet = [c \in Node |-> 0]
  /\ overlap = FALSE

Running == crash = "none"

Open(c) == link[c] \in {"connected", "disconnecting"}

EntryAlive(c) == \E b \in Wheel : c \in buckets[b]

(* weakConn_.lock() would succeed for c.                                   *)
ConnAlive(c) == Open(c) \/ c \in Registered \/ c \in held

(* TcpConnection::shutdown for all of cs: it does nothing to a connection  *)
(* that is not connected.                                                  *)
ShutDown(cs) == [c \in Conn |-> IF c \in cs /\ link[c] = "connected"
                                  THEN "disconnecting" ELSE link[c]]

(* Mutant: the entry goes into the bucket that is dropped next.            *)
InsertFront(c) == buckets' = [buckets EXCEPT ![1] = @ \cup {c}]

(* connectionBuckets_.back().insert                                        *)
InsertBack(c) == buckets' = [buckets EXCEPT ![TimeControl] = @ \cup {c}]
-----------------------------------------------------------------------------
(* onConnection, UP, of a client node.                                     *)
NodeUp(c) ==
  /\ Running /\ link[c] = "connecting"
  /\ link' = [link EXCEPT ![c] = "connected"]
  /\ \E id \in 0..nodeCount_ : add(c, id) /\ entryID' = [entryID EXCEPT ![c] = id]
  /\ InsertBack(c)
  /\ UNCHANGED <<cliVars, held, crash, quiet>>

(* Mutant: the slot is filled but the flag stays down.                     *)
TakeSlotUnflagged(c) ==
  /\ ~hasCmdConnected_ /\ CmdConnection_' = c
  /\ link' = [link EXCEPT ![c] = "connected"]
  /\ UNCHANGED <<hasCmdConnected_, overlap>>

TakeSlot(c) ==
  /\ ~hasCmdConnected_
  /\ CmdConnection_' = c /\ hasCmdConnected_' = TRUE
  /\ link' = [link EXCEPT ![c] = "connected"]
  /\ UNCHANGED overlap

ShutDownFirst(c) ==
  /\ hasCmdConnected_
  /\ link' = [ShutDown({CmdConnection_}) EXCEPT ![c] = "connected"]
  /\ overlap' = TRUE
  /\ UNCHANGED <<CmdConnection_, hasCmdConnected_>>

(* onConnection, UP, of a command line: the first takes the slot; a second *)
(* one shuts down the connection in the slot and is not recorded.          *)
CliUp(c) ==
  /\ Running /\ link[c] = "connecting"
  /\ TakeSlot(c) \/ ShutDownFirst(c)
  /\ UNCHANGED <<poolVars, wheelVars, held, crash>>

(* Mutant: the flag is not reset.                                          *)
KeepFlag(c) ==
  /\ hasCmdConnected_
  /\ overlap' = (overlap \/ c \in Node)
  /\ UNCHANGED <<poolVars, hasCmdConnected_, crash>>

ClearFlag(c) ==
  /\ hasCmdConnected_ /\ hasCmdConnected_' = FALSE
  /\ overlap' = (overlap \/ c \in Node)
  /\ UNCHANGED <<poolVars, crash>>

DownAsNode(c) ==
  /\ ~hasCmdConnected_
  /\ UNCHANGED <<hasCmdConnected_, overlap>>
  /\ \/ c \in Cli /\ crash' = "bad_any_cast" /\ UNCHANGED poolVars
     \/ c \in Node /\ ~EntryAlive(c) /\ crash' = "null_entry" /\ UNCHANGED poolVars
     \/ c \in Node /\ EntryAlive(c) /\ del({entryID[c]}) /\ UNCHANGED crash

(* onConnection, DOWN.  Whoever closes, a set CLI flag is all that is      *)
(* reset; otherwise the connection is taken for a node's: any_cast throws  *)
(* for a command line, and an entry that is gone is dereferenced as null.  *)
Down(c) ==
  /\ Running /\ Open(c)
  /\ link' = [link EXCEPT ![c] = "disconnected"]
  /\ ClearFlag(c) \/ DownAsNode(c)
  /\ UNCHANGED <<wheelVars, CmdConnection_, held>>

(* onHeartBeat: the entry moves to the newest bucket if it still exists.   *)
onHeartBeat(c) ==
  /\ Running /\ Open(c)
  /\ IF EntryAlive(c) THEN InsertBack(c) ELSE UNCHANGED buckets
  /\ quiet' = [quiet EXCEPT ![c] = IF @ = TimeControl THEN @ ELSE 0]
  /\ UNCHANGED <<poolVars, cliVars, link, entryID, held, crash>>

(* Mutant: an entry goes with the oldest bucket even if a heartbeat put it *)
(* into a newer one.                                                       *)
InOldestBucket == buckets[1]

(* The entries that only the oldest bucket holds.                          *)
Expiring == {c \in buckets[1] : \A b \in Wheel \ {1} : c \notin buckets[b]}

(* Mutants: ~Entry does not look whether the connection object still       *)
(* exists; or it does nothing for a connection that is already closed.     *)
ExpiringUnchecked == Expiring

ExpiringOpen == {c \in Expiring : Open(c)}

(* The expiring entries whose connection object still exists.              *)
Evicted == {c \in Expiring : ConnAlive(c)}

(* onTimer: the oldest bucket falls off the wheel.  ~Entry runs for every  *)
(* entry that was in no other bucket: if its connection object still       *)
(* exists, that is shut down and the entry's node ID is deleted.           *)
onTimer ==
  /\ Running
  /\ buckets' = [b \in Wheel |-> IF b = TimeControl THEN {} ELSE buckets[b + 1]]
  /\ link' = ShutDown(Evicted)
  /\ del({entryID[c] : c \in Evicted})
  /\ quiet' = [c \in Node |->
                 IF link[c] = "connecting" \/ quiet[c] = TimeControl
                   THEN quiet[c] ELSE quiet[c] + 1]
  /\ UNCHANGED <<cliVars, entryID, held, crash>>

(* onUnknownMsg, and lkpCodec's defaultErrorCallback: the sender's         *)
(* connection is shut down, everything else stays.                         *)
onUnknownMsg(c) ==
  /\ Running /\ link[c] = "connected"
  /\ link' = ShutDown({c})
  /\ UNCHANGED <<poolVars, wheelVars, cliVars, held, crash>>

(* pushToClient makes a registered node's connection a key of fpMap, for a *)
(* command line that is there; onFileMsg makes the sender's one of the     *)
(* result maps, some time after one asked.  No key is erased.              *)
Retain(c) ==
  /\ Running /\ c \in Transfers
  /\ \/ c \in Registered /\ \E d \in Cli : Open(d)
     \/ Open(c) /\ \E d \in Cli : link[d] # "connecting"
  /\ held' = held \cup {c}
  /\ UNCHANGED <<poolVars, wheelVars, cliVars, link, crash>>
-----------------------------------------------------------------------------
Next ==
  \/ \E c \in Node : NodeUp(c) \/ onHeartBeat(c) \/ Retain(c)
  \/ \E c \in Cli : CliUp(c)
  \/ \E c \in Conn : Down(c) \/ onUnknownMsg(c)
  \/ onTimer

(* muduo's runEvery keeps calling onTimer while the base loop runs; peers  *)
(* owe nothing.                                                            *)
Spec == Init /\ [][Next]_vars /\ WF_vars(onTimer)
-----------------------------------------------------------------------------
(* The wheel keeps time exactly: the entry of a connection exists from UP  *)
(* until TimeControl ticks have passed with no heartbeat, not a tick less  *)
(* or more, and a late heartbeat revives nothing (lkpServer.cc:494-519).   *)
WheelExact ==
  \A c \in Node : EntryAlive(c) <=> link[c] # "connecting" /\ quiet[c] < TimeControl

(* No registration is beyond the wheel's reach: a registered connection    *)
(* has a live entry that carries the ID it is registered under, so that    *)
(* silence always gets it deleted (lkpServer.h:183-195).                   *)
RegisteredHasEntry ==
  \A id \in DOMAIN connections_ :
    EntryAlive(connections_[id]) /\ entryID[connections_[id]] = id

(* As long as no PUSH or RESULT has left a connection in the file maps, a  *)
(* node that is connected and not timed out is registered: commands and    *)
(* LIST reach every one of them.                                           *)
LiveIsRegistered ==
  held = {} => \A c \in Node : Open(c) /\ EntryAlive(c) => c \in Registered

(* As long as command lines come one at a time and no node goes down while *)
(* one is connected, the flag and CmdConnection_ say exactly which command *)
(* line is open (lkpServer.cc:126-156).                                    *)
CliSlotExact ==
  ~overlap => {c \in Cli : Open(c)} = IF hasCmdConnected_ THEN {CmdConnection_} ELSE {}

(* A set flag is never left over from a closed command line: onCommandMsg  *)
(* and the ACK handlers reply to CmdConnection_ without checking the flag. *)
CliSlotNotStale == hasCmdConnected_ => Open(CmdConnection_)

(* onConnection ends the process in no other way than these two: a node    *)
(* closes after it timed out, or the CLI flag was confused before.         *)
CrashCause ==
  /\ crash = "null_entry" =>
       \E c \in Node : link[c] = "disconnected" /\ quiet[c] = TimeControl
  /\ crash = "bad_any_cast" => overlap

(* The pool lists the nodes as lkpMembership promises: until the process   *)
(* ends, only a node that closed or timed out is taken off, and it always  *)
(* is.  Checked without transfers, see ListedWhileConnected.               *)
Phase ==
  [c \in Node |-> IF link[c] = "connecting" THEN "new"
                  ELSE IF Open(c) /\ EntryAlive(c) THEN "member" ELSE "gone"]

Membership == INSTANCE lkpMembership WITH
  phase <- Phase, listed <- Registered, stopped <- ~Running

ImplementsMembership == Membership!Spec
-----------------------------------------------------------------------------
(* Claims of the repository that the code does not keep.                   *)

(* README.md:101: LIST shows the nodes that are connected.  So a node that *)
(* is connected and not timed out is registered, transfers or not.         *)
ListedWhileConnected ==
  Running => \A c \in Node : Open(c) /\ EntryAlive(c) => c \in Registered

(* lkpServer.cc:68: an unresponsive client is disconnected, no more.  So a *)
(* node's end of connection after its timeout does not end the server.     *)
TimeoutOnlyDisconnects == crash # "null_entry"
=============================================================================
