------------------------------- MODULE lkpClient -------------------------------
(***************************************************************************)
(* A node and its connection to the server: class lkpClient and the        *)
(* SIGCHLD handler of lkp_extent.cc, with the files of lkpTransfer that    *)
(* travel in both directions.                                              *)
(*                                                                         *)
(* The main thread runs the event loop, one handler after the other; the   *)
(* log thread matters only because it may run the signal handler, always   *)
(* when the main thread is in system() or in the handler itself, because   *)
(* it is the one that does not block SIGCHLD.                              *)
(***************************************************************************)
EXTENDS lkpTransfer

CONSTANTS
  Kinds,        \* the commands that reach a node
  MaxCommands,  \* bound: commands and pushes the server sends
  MaxBeats,     \* bound: heartbeats
  MaxFailures   \* bound: files that cannot be opened for writing

ASSUME ClientAssumption ==
  Kinds \subseteq {"UPDATE", "RUN", "RESULT"} /\ MaxCommands \in Nat

VARIABLES
  main,        \* what the main thread does, or how it ended
  childNum,
  jobs,        \* number of lkp-ctl processes that run
  sigPending,  \* SIGCHLD is pending for the process
  handler,     \* what the signal handler does in each thread, and the childNum it read
  issued,      \* history: commands and pushes
  answered,    \* history: answers the node has given
  beats, failures,
  mishaps,     \* history: what makes childNum too large, see below
  copies       \* history: ends of cp since a job last started when all was over

execVars == <<main, childNum, jobs, sigPending, handler, mishaps, copies>>
tally == <<issued, answered, beats, failures>>
vars == <<transferVars, execVars, tally>>

Thread == {"main", "log"}
NoHandler == [at |-> "none", read |-> 0]

Children == jobs + (IF main = "system" THEN 1 ELSE 0)

TypeOK ==
  /\ \A e \in End : recv[e].fp \in {"none", "open", "closed"} /\ unsent[e] \in 0..Len(wire[e])
  /\ fault \in End \cup {"none"}
  /\ main \in {"loop", "forked", "system", "reap", "exited", "crashed"}
  /\ childNum \in 0..(MaxCommands + 1) /\ jobs \in 0..MaxCommands
  /\ \A t \in Thread : handler[t].at \in {"none", "store", "wait"}
  /\ mishaps \subseteq {"fork_failed", "early_exit"} /\ copies \in Nat

Init ==
  /\ TransferInit
  /\ main = "loop" /\ childNum = 0 /\ jobs = 0 /\ sigPending = FALSE
  /\ handler = [t \in Thread |-> NoHandler]
  /\ issued = 0 /\ answered = 0 /\ beats = 0 /\ failures = 0
  /\ mishaps = {} /\ copies = 0

(* Both processes run, and the main thread is in the loop.                 *)
Running == fault = "none" /\ main \notin {"exited", "crashed"}
InLoop == fault = "none" /\ main = "loop" /\ handler["main"].at = "none"

Flag(m, cond) == mishaps' = mishaps \cup (IF cond THEN {m} ELSE {})
-----------------------------------------------------------------------------
(* The server's side of the connection.                                    *)
ServerSends ==
  /\ Running /\ issued < MaxCommands
  /\ \/ \E kind \in Kinds : SendCommand(kind)
     \/ \E t \in Testcase : Push(t) \/ PushOpen(t)
  /\ issued' = issued + 1
  /\ UNCHANGED <<execVars, answered, beats, failures>>

ServerGoesOn ==
  /\ Running
  /\ PushRead \/ PushSet \/ PushPost \/ PostedSend \/ WriteComplete("server") \/ Drain("server")
  /\ UNCHANGED <<execVars, tally>>

(* A file cannot be opened for writing.                                    *)
Failing(m, opens) ==
  /\ ~opens => m.first /\ failures < MaxFailures
  /\ failures' = failures + (IF opens THEN 0 ELSE 1)

(* onFileMsg of the server; its other handlers only count.                 *)
ServerReceives ==
  /\ Running
  /\ \E i \in 1..Len(wire["client"]) :
       LET m == wire["client"][i]
       IN  \/ \E opens \in BOOLEAN : ReceiveChunk("server", m, opens) /\ Failing(m, opens)
           \/ m = END_ /\ ReceiveEnd("server") /\ UNCHANGED failures
           \/ /\ m.type \in {"ACK", "PushACK", "HeartBeat"} /\ Arrived("server", m)
              /\ UNCHANGED <<recv, fault, failures>>
  /\ wire' = Taken("server")
  /\ UNCHANGED <<link, ownLoop, reader, callback, functors, unsent, pusher, disturbed>>
  /\ UNCHANGED <<execVars, issued, answered, beats>>
-----------------------------------------------------------------------------
ACK(status) == [type |-> "ACK", status |-> status]
PushACK(status) == [type |-> "PushACK", status |-> status]
HeartBeat == [type |-> "HeartBeat"]

(* Mutant: a command is carried out while another one is running.          *)
NeverBusy == FALSE

Busy == childNum >= 1

Reply(m) == Send("client", m, Taken("client")) /\ answered' = answered + 1

(* onCommandMsg: refused, because of a job that has not ended, or because  *)
(* fork fails when childNum has been counted up already.                   *)
CommandRefused(kind) ==
  /\ Reply(ACK(FALSE))
  /\ \/ Busy /\ UNCHANGED <<childNum, mishaps>>
     \/ /\ ~Busy /\ kind # "RESULT"
        /\ childNum' = childNum + 1 /\ Flag("fork_failed", TRUE)
  /\ UNCHANGED <<reader, callback, main, jobs, copies>>

(* No job runs and no SIGCHLD has still to be counted.                     *)
AllOver == jobs = 0 /\ ~sigPending /\ handler["log"].at # "store"

(* onCommandMsg, UPDATE and RUN: fork has returned in the parent.  What    *)
(* the child does is a job, also when it cannot execute lkp-ctl: the ACK   *)
(* it then gives to SendToServer (:131-138) is not sent.  muduo knows that *)
(* a forked process is another thread than that of the loop, so send only  *)
(* queues a functor in the child's copy of the loop, and exit(0) follows.  *)
Fork(kind) ==
  /\ ~Busy /\ kind # "RESULT"
  /\ jobs' = jobs + 1
  /\ main' = "forked"
  /\ copies' = IF AllOver THEN 0 ELSE copies
  /\ wire' = Taken("client")
  /\ UNCHANGED <<childNum, reader, callback, unsent, functors, disturbed, answered, mishaps>>

(* onResult: the first chunk of result.tar, or an error if there is none.  *)
onResult(kind) ==
  /\ ~Busy /\ kind = "RESULT"
  /\ \/ StartTransfer("client", "result", Taken("client")) /\ UNCHANGED answered
     \/ Reply(ACK(FALSE)) /\ UNCHANGED <<reader, callback>>
  /\ UNCHANGED <<main, childNum, jobs, mishaps, copies>>

onCommandMsg ==
  /\ InLoop
  /\ \E kind \in Kinds :
       /\ Arrived("client", CommandMsg(kind))
       /\ CommandRefused(kind) \/ Fork(kind) \/ onResult(kind)
  /\ UNCHANGED <<link, ownLoop, recv, pusher, fault, sigPending, handler, issued, beats, failures>>

(* Mutant: the job counts twice.                                           *)
CountedTwice == childNum' = childNum + 2

Counted == childNum' = childNum + 1

(* childNum++, and the answer of the parent.                               *)
Count ==
  /\ Running /\ main = "forked" /\ handler["main"].at = "none"
  /\ Counted
  /\ Send("client", ACK(TRUE), wire)
  /\ answered' = answered + 1
  /\ main' = "loop"
  /\ UNCHANGED <<link, ownLoop, reader, callback, recv, pusher, fault, jobs, sigPending, handler,
                 mishaps, copies, issued, beats, failures>>
-----------------------------------------------------------------------------
(* onFileMsg of the node.  END is answered, and a complete file is copied  *)
(* by system(), which blocks SIGCHLD in the thread that calls it.          *)
onChunk ==
  /\ InLoop
  /\ \E i \in 1..Len(wire["server"]), opens \in BOOLEAN :
       /\ ReceiveChunk("client", wire["server"][i], opens)
       /\ Failing(wire["server"][i], opens)
  /\ wire' = Taken("client")
  /\ UNCHANGED <<link, ownLoop, reader, callback, functors, unsent, pusher, disturbed>>
  /\ UNCHANGED <<execVars, issued, answered, beats>>

onEnd ==
  /\ InLoop
  /\ ReceiveEnd("client")
  /\ IF fault' = "none"
       THEN /\ Reply(PushACK(Completely(recv["client"])))
            /\ main' = IF Completely(recv["client"]) THEN "system" ELSE main
       ELSE UNCHANGED <<wire, unsent, functors, disturbed, answered, main>>
  /\ UNCHANGED <<link, ownLoop, reader, callback, pusher, childNum, jobs, sigPending, handler,
                 mishaps, copies, issued, beats, failures>>

(* onTimer; without a connection the node gives up.                        *)
onTimer ==
  /\ InLoop
  /\ \/ /\ link = "up" /\ beats < MaxBeats
        /\ Send("client", HeartBeat, wire)
        /\ beats' = beats + 1
        /\ UNCHANGED main
     \/ /\ link = "down" /\ main' = "exited"
        /\ UNCHANGED <<wire, unsent, functors, disturbed, beats>>
  /\ UNCHANGED <<link, ownLoop, reader, callback, recv, pusher, fault>>
  /\ UNCHANGED <<childNum, jobs, sigPending, handler, mishaps, copies, issued, answered, failures>>

(* onWriteComplete of the node; END is what answers the command.           *)
onWriteCompleteClient ==
  /\ InLoop
  /\ WriteComplete("client")
  /\ answered' = answered + (IF reader["client"].at > Chunks["result"] THEN 1 ELSE 0)
  /\ UNCHANGED <<execVars, issued, beats, failures>>

ClientDrains == InLoop /\ Drain("client") /\ UNCHANGED <<execVars, tally>>

(* onConnection, DOWN: connection_ is reset.                               *)
Down ==
  /\ InLoop /\ link = "up"
  /\ link' = "down"
  /\ UNCHANGED <<ownLoop, reader, callback, functors, wire, unsent, recv, pusher, fault, disturbed>>
  /\ UNCHANGED <<execVars, tally>>

(* A write-complete functor that is left then asks a null connection.      *)
onWriteCompleteNull ==
  /\ InLoop /\ link = "down" /\ functors["client"] # <<>>
  /\ main' = "crashed"
  /\ UNCHANGED <<childNum, jobs, sigPending, handler, mishaps, copies>>
  /\ UNCHANGED <<transferVars, tally>>
-----------------------------------------------------------------------------
(* A job ends, or could not be executed at all.                            *)
JobExits ==
  /\ Running /\ jobs > 0
  /\ jobs' = jobs - 1
  /\ sigPending' = TRUE
  /\ UNCHANGED <<transferVars, tally, main, childNum, handler, mishaps, copies>>

(* cp ends, which sends SIGCHLD as well; then system() returns.            *)
CopyExits ==
  /\ Running /\ main = "system"
  /\ main' = "reap"
  /\ sigPending' = TRUE
  /\ copies' = copies + 1
  /\ UNCHANGED <<transferVars, tally, childNum, jobs, handler, mishaps>>

SystemReturns ==
  /\ Running /\ main = "reap"
  /\ main' = "loop"
  /\ UNCHANGED <<transferVars, tally, childNum, jobs, sigPending, handler, mishaps, copies>>

Blocks(t) == handler[t].at # "none" \/ (t = "main" /\ main \in {"system", "reap"})

(* handleChildExit, in the thread that the kernel has picked: childNum is  *)
(* loaded,                                                                 *)
Signal(t) ==
  /\ Running /\ sigPending /\ ~Blocks(t)
  /\ sigPending' = FALSE
  /\ handler' = [handler EXCEPT ![t] = [at |-> "store", read |-> childNum]]
  /\ UNCHANGED <<transferVars, tally, main, childNum, jobs, mishaps, copies>>

(* Mutant: the count goes below 0.                                         *)
OneLessAlways(n) == n - 1

OneLess(n) == IF n = 0 THEN 0 ELSE n - 1

(* and stored; the store of another thread is lost when it falls between   *)
(* the load and the store of childNum++.  The count of a job that has      *)
(* ended before it was counted is not taken back.                          *)
StoreCount(t) ==
  /\ Running /\ handler[t].at = "store"
  /\ \/ childNum' = OneLess(handler[t].read)
     \/ t = "log" /\ main = "forked" /\ UNCHANGED childNum
  /\ handler' = [handler EXCEPT ![t].at = "wait"]
  /\ Flag("early_exit", main = "forked")
  /\ UNCHANGED <<transferVars, tally, main, jobs, sigPending, copies>>

(* waitpid is called until it fails: as long as any child runs it returns  *)
(* 0, and the thread stays in the handler.                                 *)
HandlerReturns(t) ==
  /\ Running /\ handler[t].at = "wait" /\ Children = 0
  /\ handler' = [handler EXCEPT ![t] = NoHandler]
  /\ UNCHANGED <<transferVars, tally, main, childNum, jobs, sigPending, mishaps, copies>>

SignalSteps == \E t \in Thread : Signal(t) \/ StoreCount(t) \/ HandlerReturns(t)

Server == ServerGoesOn \/ ServerReceives

MainThread ==
  \/ onCommandMsg \/ Count \/ onChunk \/ onEnd
  \/ onWriteCompleteClient \/ ClientDrains
  \/ CopyExits \/ SystemReturns

Next ==
  \/ ServerSends \/ Server
  \/ MainThread \/ JobExits \/ SignalSteps
  \/ onTimer \/ Down \/ onWriteCompleteNull

(* Both processes and the network go on, signals are handled, and every    *)
(* job ends.                                                               *)
Fairness == WF_vars(Server) /\ WF_vars(MainThread) /\ WF_vars(JobExits) /\ WF_vars(SignalSteps)

Spec == Init /\ [][Next]_vars /\ Fairness
-----------------------------------------------------------------------------
(* A node runs one job at a time, as its ERROR 10 says                     *)
(* (lkpClient.cc:104-112), as long as no cp ends; each cp that ended since *)
(* a job last started with all over lets one more job in at most, because  *)
(* its SIGCHLD can be taken for a job's once (lkp_extent.cc:17).           *)
OneJob == jobs <= 1 + copies

(* The handler never keeps the event loop, and so the heartbeat, waiting   *)
(* for a job to end (lkp_extent.cc:20), but for those jobs, one for each   *)
(* such end of cp.                                                         *)
LoopNotHeldUp == handler["main"].at = "wait" => jobs <= copies

(* When everything has come to rest a node is ready for the next command:  *)
(* it refuses all for ever only after a fork that failed or a job that had *)
(* ended before it was counted.  Signals that merge and those of cp make   *)
(* the count too small, never too large.                                   *)
AtRest == main = "loop" /\ Children = 0 /\ ~sigPending /\ \A t \in Thread : handler[t].at = "none"
ReadyAtRest == AtRest /\ Busy => mishaps \cap {"fork_failed", "early_exit"} # {}

(* A FILE is closed once, and written only while it is open: each transfer *)
(* sends one END, behind its chunks, though the write-complete callback    *)
(* says nothing of what was written.  Only another message while the file  *)
(* is on its way, or a FILE that cannot be opened, breaks that.            *)
FilesOpenWhenUsed == fault # "none" => disturbed[Peer(fault)] \/ failures > 0

(* The size is all that is compared, yet a file found complete is the file *)
(* that was pushed, chunk by chunk, other pushes or commands in between or *)
(* not (lkpClient.cc:306-315, lkpServer.cc:431-445); unless it has a byte  *)
(* 0, or two pushes meet in two loops, when a chunk of the second FILE is  *)
(* taken for one of the first.                                             *)
CompleteIsIntact ==
  \A e \in End :
    recv[e].fp = "closed" /\ Completely(recv[e]) /\ failures = 0
      /\ (ownLoop \/ ~disturbed[Peer(e)]) =>
      LET file == recv[e].got[1].file
      IN  file \notin Binary => recv[e].got = [i \in 1..Chunks[file] |-> Block(file, i)]

(* No command is answered twice; the server counts answers, not nodes, so  *)
(* a second one would stand for that of another node (lkpServer.cc:355).   *)
NoExtraAnswer == answered > issued => disturbed["server"] \/ disturbed["client"]

(* Every command is answered, while the connection stays.                  *)
Disordered == link = "down" \/ ~Running \/ disturbed["server"] \/ disturbed["client"]
AllAnswered == answered < issued ~> answered >= issued \/ Disordered
=============================================================================
