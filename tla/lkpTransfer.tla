------------------------------ MODULE lkpTransfer ------------------------------
(***************************************************************************)
(* How a file travels over the connection of the server and one node:      *)
(* pushToClient and onResult send the first chunk of a FILE, onWriteComplete *)
(* the others and END, and onFileMsg of the other side receives them.  The *)
(* code is the same on both sides but for what starts a transfer.          *)
(*                                                                         *)
(* muduo queues the write-complete callback as a functor of the            *)
(* connection's loop, whenever all that was to be written has been written *)
(* and a callback is set at that moment; which message it was plays no     *)
(* part.  A send from another loop is a functor, too.                      *)
(***************************************************************************)
EXTENDS Integers, Sequences

CONSTANTS
  Testcase,  \* the files that are pushed
  Binary,    \* the files with a byte 0 in every chunk
  Chunks     \* the number of chunks of every file

ASSUME TransferAssumption ==
  /\ "result" \notin Testcase
  /\ Chunks \in [Testcase \cup {"result"} -> Nat \ {0}]

VARIABLES
  link,       \* the connection: "up", "down"
  ownLoop,    \* the command line's connection is in the same loop of the server
  reader,     \* the FILE to be sent: fpMap[conn], the connection's context
  callback,   \* the write-complete callback is set
  functors,   \* the functors queued in the connection's loop
  wire,       \* what was sent and has not been read by the other side
  unsent,     \* how many of the last of these are still in the output buffer
  recv,       \* the file received: fp, fileSize_, and what is on the disk
  pusher,     \* how far pushToClient has come, when it runs in another loop
  fault,      \* the side that ended because it has no FILE open, or "none"
  disturbed   \* history: another message while a transfer is under way

transferVars == <<link, ownLoop, reader, callback, functors, wire, unsent, recv, pusher,
                  fault, disturbed>>

End == {"server", "client"}
Peer(e) == IF e = "server" THEN "client" ELSE "server"

File == Testcase \cup {"result"}
NoFile == [file |-> "none", at |-> 0]
Complete == [type |-> "write_complete"]

CommandMsg(kind) == [type |-> "Command", kind |-> kind]
First(file, block) == [type |-> "File", first |-> TRUE, size |-> Chunks[file], block |-> block]
Next_(block) == [type |-> "File", first |-> FALSE, block |-> block]
END_ == [type |-> "END"]

TransferInit ==
  /\ link = "up" /\ ownLoop \in BOOLEAN
  /\ reader = [e \in End |-> NoFile]
  /\ callback = [e \in End |-> FALSE]
  /\ functors = [e \in End |-> <<>>]
  /\ wire = [e \in End |-> <<>>]
  /\ unsent = [e \in End |-> 0]
  /\ recv = [e \in End |-> [fp |-> "none", size |-> 0, got |-> <<>>]]
  /\ pusher = [at |-> "idle"]
  /\ fault = "none"
  /\ disturbed = [e \in End |-> FALSE]
-----------------------------------------------------------------------------
(* A chunk that fread returns, and the one that is sent: set_content takes *)
(* it for a string, which ends with the first byte 0.  patch_len bytes are *)
(* written all the same, the rest being what is in memory there.           *)
Block(file, no) == [file |-> file, no |-> no, cut |-> FALSE]

(* Mutant: the buffer is not filled again.                                 *)
ContentOfFirst(file, no) == [Block(file, 1) EXCEPT !.cut = file \in Binary]

Content(file, no) == [Block(file, no) EXCEPT !.cut = file \in Binary]

(* A transfer of e is under way: something may call onWriteComplete.       *)
UnderWay(e) == callback[e] \/ Complete \in {functors[e][i] : i \in 1..Len(functors[e])}

(* TcpConnection::sendInLoop, when w is on its way, queue is what the loop *)
(* has queued and set tells whether the callback is set: what the socket   *)
(* does not take at once waits in the output buffer.                       *)
SendInLoop(e, m, w, queue, set) ==
  \E written \in IF unsent[e] = 0 THEN BOOLEAN ELSE {FALSE} :
    /\ wire' = [w EXCEPT ![e] = Append(@, m)]
    /\ unsent' = [unsent EXCEPT ![e] = IF written THEN 0 ELSE @ + 1]
    /\ functors' = [functors EXCEPT ![e] = IF written /\ set THEN Append(queue, Complete) ELSE queue]

Disturb(e) == disturbed' = [disturbed EXCEPT ![e] = @ \/ UnderWay(e)]

(* A message that has nothing to do with the transfer.                     *)
Send(e, m, w) == SendInLoop(e, m, w, functors[e], callback[e]) /\ Disturb(e)

(* handleWrite: the socket takes more of the output buffer.                *)
Drain(e) ==
  /\ link = "up" /\ unsent[e] > 0
  /\ \E left \in 0..(unsent[e] - 1) :
       /\ unsent' = [unsent EXCEPT ![e] = left]
       /\ functors' = [functors EXCEPT ![e] = IF left = 0 /\ callback[e] THEN Append(@, Complete) ELSE @]
  /\ UNCHANGED <<link, ownLoop, reader, callback, wire, recv, pusher, fault, disturbed>>
-----------------------------------------------------------------------------
(* The first chunk of a FILE goes out in the connection's own loop.        *)
StartTransfer(e, file, w) ==
  /\ reader' = [reader EXCEPT ![e] = [file |-> file, at |-> 2]]
  /\ callback' = [callback EXCEPT ![e] = TRUE]
  /\ SendInLoop(e, First(file, Content(file, 1)), w, functors[e], TRUE)
  /\ Disturb(e)

(* Mutant: the callback stays when the file has been sent.                 *)
onWriteCompleteAgain(e) ==
  /\ functors[e] # <<>> /\ Head(functors[e]) = Complete
  /\ LET r == reader[e]
         more == r.at <= Chunks[r.file]
     IN  /\ reader' = [reader EXCEPT ![e].at = IF more THEN @ + 1 ELSE @]
         /\ SendInLoop(e, IF more THEN Next_(Content(r.file, r.at)) ELSE END_, wire, Tail(functors[e]),
                       callback[e])
         /\ UNCHANGED callback

(* Mutant: the file ends without END.                                      *)
onWriteCompleteSilent(e) ==
  /\ functors[e] # <<>> /\ Head(functors[e]) = Complete
  /\ LET r == reader[e]
         more == r.at <= Chunks[r.file]
     IN  /\ reader' = [reader EXCEPT ![e].at = IF more THEN @ + 1 ELSE @]
         /\ callback' = [callback EXCEPT ![e] = @ /\ more]
         /\ IF more
              THEN SendInLoop(e, Next_(Content(r.file, r.at)), wire, Tail(functors[e]), TRUE)
              ELSE /\ functors' = [functors EXCEPT ![e] = Tail(@)]
                   /\ UNCHANGED <<wire, unsent>>

(* The next chunk, or END: the callback is then taken off before END goes  *)
(* out.                                                                    *)
onWriteComplete(e) ==
  /\ functors[e] # <<>> /\ Head(functors[e]) = Complete
  /\ LET r == reader[e]
         more == r.at <= Chunks[r.file]
     IN  /\ reader' = [reader EXCEPT ![e].at = IF more THEN @ + 1 ELSE @]
         /\ callback' = [callback EXCEPT ![e] = @ /\ more]
         /\ SendInLoop(e, IF more THEN Next_(Content(r.file, r.at)) ELSE END_, wire, Tail(functors[e]),
                       callback'[e])

WriteComplete(e) ==
  /\ link = "up" /\ onWriteComplete(e)
  /\ UNCHANGED <<link, ownLoop, recv, pusher, fault, disturbed>>

(* A send that another loop of the server asked for.                       *)
PostedSend ==
  /\ link = "up" /\ functors["server"] # <<>>
  /\ LET f == Head(functors["server"])
     IN  /\ f # Complete
         /\ SendInLoop("server", f, wire, Tail(functors["server"]), callback["server"])
  /\ UNCHANGED <<link, ownLoop, reader, callback, recv, pusher, fault, disturbed>>
-----------------------------------------------------------------------------
(* The server sends a command to the node (SendToClient).                  *)
SendCommand(kind) ==
  /\ link = "up" /\ pusher.at = "idle"
  /\ IF ownLoop
       THEN Send("server", CommandMsg(kind), wire)
       ELSE /\ functors' = [functors EXCEPT !["server"] = Append(@, CommandMsg(kind))]
            /\ Disturb("server")
            /\ UNCHANGED <<wire, unsent>>
  /\ UNCHANGED <<link, ownLoop, reader, callback, recv, pusher, fault>>

(* pushToClient, in the connection's own loop.                             *)
Push(t) ==
  /\ link = "up" /\ pusher.at = "idle" /\ ownLoop
  /\ StartTransfer("server", t, wire)
  /\ UNCHANGED <<link, ownLoop, recv, pusher, fault>>

(* pushToClient, in another loop: fpMap[conn] is set, the first chunk is   *)
(* read, the callback is set and the chunk posted, while the connection's  *)
(* own loop goes on.                                                       *)
PushOpen(t) ==
  /\ link = "up" /\ pusher.at = "idle" /\ ~ownLoop
  /\ reader' = [reader EXCEPT !["server"] = [file |-> t, at |-> 1]]
  /\ pusher' = [at |-> "opened", file |-> t]
  /\ disturbed' = [disturbed EXCEPT !["server"] =
                     @ \/ callback["server"] \/ functors["server"] # <<>> \/ unsent["server"] > 0]
  /\ UNCHANGED <<link, ownLoop, callback, functors, wire, unsent, recv, fault>>

(* When the file has come to its end meanwhile the chunk is empty.         *)
PushRead ==
  /\ pusher.at = "opened"
  /\ LET r == reader["server"]
     IN  /\ pusher' = [at |-> "read", file |-> pusher.file,
                       chunk |-> IF r.at <= Chunks[r.file] THEN r.at ELSE 0]
         /\ reader' = [reader EXCEPT !["server"].at = IF @ <= Chunks[r.file] THEN @ + 1 ELSE @]
  /\ UNCHANGED <<link, ownLoop, callback, functors, wire, unsent, recv, fault, disturbed>>

PushSet ==
  /\ pusher.at = "read"
  /\ callback' = [callback EXCEPT !["server"] = TRUE]
  /\ pusher' = [pusher EXCEPT !.at = "set"]
  /\ UNCHANGED <<link, ownLoop, reader, functors, wire, unsent, recv, fault, disturbed>>

PushPost ==
  /\ pusher.at = "set"
  /\ functors' = [functors EXCEPT !["server"] =
                    Append(@, First(pusher.file, Content(pusher.file, pusher.chunk)))]
  /\ pusher' = [at |-> "idle"]
  /\ UNCHANGED <<link, ownLoop, reader, callback, wire, unsent, recv, fault, disturbed>>
-----------------------------------------------------------------------------
(* The oldest message that has left the output buffer of the other side.   *)
Arrived(e, m) == /\ link = "up" /\ Len(wire[Peer(e)]) > unsent[Peer(e)] /\ Head(wire[Peer(e)]) = m
Taken(e) == [wire EXCEPT ![Peer(e)] = Tail(@)]

(* fwrite of the chunk; an empty one leaves the file as it is.             *)
Written(got, block) == IF block.no = 0 THEN got ELSE Append(got, block)

(* onFileMsg for a chunk.  When the file cannot be opened the server goes  *)
(* on with the FILE it had, the client fails the assert.                   *)
ReceiveChunk(e, m, opens) ==
  /\ Arrived(e, m) /\ m.type = "File"
  /\ CASE m.first /\ opens ->
            /\ recv' = [recv EXCEPT ![e] = [fp |-> "open", size |-> m.size,
                                            got |-> Written(<<>>, m.block)]]
            /\ UNCHANGED fault
       [] m.first /\ ~opens ->
            /\ recv' = [recv EXCEPT ![e].size = m.size]
            /\ fault' = IF e = "client" THEN e ELSE fault
       [] ~m.first /\ recv[e].fp = "open" ->
            /\ recv' = [recv EXCEPT ![e].got = Written(@, m.block)]
            /\ UNCHANGED fault
       [] ~m.first /\ recv[e].fp # "open" ->
            /\ fault' = e
            /\ UNCHANGED recv

(* What is on the disk has the size that the first chunk announced.        *)
Completely(r) == Len(r.got) = r.size

(* onFileMsg for END: the FILE is closed; there must be one.               *)
ReceiveEnd(e) ==
  /\ Arrived(e, END_)
  /\ IF recv[e].fp = "open"
       THEN recv' = [recv EXCEPT ![e].fp = "closed"] /\ UNCHANGED fault
       ELSE fault' = e /\ UNCHANGED recv
=============================================================================
