# A TLA+ verification project for lkp-extent

lkp-extent distributes kernel tests: a **server** keeps TCP connections to
**client nodes**, a **command line** (`lkp-ctl`) connects to the server on the
loopback address, gives one command (UPDATE, RUN, PUSH, RESULT, LIST) for one
node or for all, waits for a `Return`, and exits. The code is C++ over the
muduo network library; muduo itself is a submodule that is not in the
repository and is modelled from how the code uses it.

## 1. Inventory

| Component | State | Operations | What makes it correct |
|---|---|---|---|
| Client pool (`lkpHelper`) | `connections_`, `nodeCount_`, `idleNodeID`, `node_info` | `add`, `del`, `getConn`, `clear_info`, `update_info` | IDs in use and idle IDs partition those handed out; a new node gets the smallest free ID |
| Server connections (`lkpServer`) | CLI flag and `CmdConnection_`, time wheel of shared `Entry` objects, weak entry in each connection's context, file maps keyed by connection | `onConnection`, `onHeartBeat`, `onTimer`, `~Entry`, `onUnknownMsg` | a node is listed while it is up and not silent for too long; a closed or silent one leaves; the CLI slot names the open command line |
| Command dispatch (`lkpServer`) | `clientNum_`, `clientOKNum_`, `ackTimes_`, `node_info` | `onCommandMsg`, `BroadToClients`, `pushToClient`, `onCommandACK`, `onPushACK`, `onFileMsg`(END) | one `Return` per command, with the true counts, when every node has answered |
| File transfer (both sides) | `fpMap`, `outputfpMap_`, `fileNameMap_`, `fileSizeMap_`, write-complete callback, output buffer | `pushToClient`, `onResult`, `onWriteComplete`, `onFileMsg` | a file found complete is the file sent; END comes once, behind its chunks |
| Client node (`lkpClient`, `lkp_extent`) | `childNum`, `connection_`, open file, pending SIGCHLD | `onCommandMsg`, `onFileMsg`, `onTimer`, SIGCHLD handler | one job at a time, ready again when it ends, each command answered once, the loop never held up |
| Command line (`lkpCommand`) | `TimeOutCounter_`, the connection | `main`, `onConnection`, `onReturnMsg`, `onTimer` | sends what was asked for, shows what was returned, always ends |
| Log (`append`/`threadFunc`, in server and client) | two spare buffers, a list, the writer's list | append, swap, write | no record lost or reordered below the limit |
| Codec and dispatcher (`lkpCodec`, `lkpDispatcher`) | the input buffer | `fillEmptyBuffer`, `onMessage`, `parse`, dispatch | the messages sent are delivered, whole, in order, once; after a bad frame nothing |
| Generated protocol code (`lkpProto.pb`) | the fields of seven message classes | parse, serialize, `ByteSize`, `MergeFrom` | what is parsed is what was serialized, in the bytes `ByteSize` announces |
| Configuration | `configMap` | `ReadConfig`, `AnalyseLine`, `Trim`, `lkpConfigInit` | the value read is the value meant |
| Shell scripts, container images | - | - | not modelled |

Interactions: the command line's connection and every node's connection are
served by an IO loop each was assigned to (`ServerThreadsNum` threads, default
4); the timer runs in the base loop. All of them share the pool, the wheel, the
counters and the maps without a lock. A node has one event loop, a log thread,
and children whose SIGCHLD either thread may get. The hard parts are therefore
the interleaving of handlers, object lifetimes (weak and shared pointers to
entries and connections), callbacks that muduo queues (write-complete), late
replies, signals, and timeouts on three levels (heartbeat, command line, none
for a command in the server). `PROJECT.json` lists the hazards at their lines.

## 2. Modules

| Module | Models | Role |
|---|---|---|
| `lkpClientPool` | class `lkpClientPool` | operators `add`, `del`; specification of the pool alone |
| `lkpMembership` | - | abstract: what the server promises about the node list |
| `lkpServerConn` | `onConnection`, wheel, `~Entry`, CLI slot, file-map references | extends `lkpClientPool`; refines `lkpMembership` |
| `lkpServerCmd` | `onCommandMsg` and the reply handlers | one record per IO loop, counters loaded and stored in separate steps |
| `lkpLogQueue` | - | abstract: an ordered queue that may lose records above a limit |
| `lkpLog` | `append`, `threadFunc` | refines `lkpLogQueue` |
| `lkpProto` | the generated classes | operators, used by `lkpCodec` and `lkpCommand` |
| `lkpChannel` | - | abstract: whole messages in order, up to the first unacceptable one |
| `lkpCodec` | framing, `onMessage`, `parse`, dispatch | extends `lkpProto`; refines `lkpChannel` |
| `lkpConfig` | `Trim`, `AnalyseLine`, `ReadConfig`, `lkpConfigInit` | operators, with the reference `Meaning` |
| `lkpCommand` | `lkp-ctl`'s program | extends `lkpConfig` and `lkpProto` |
| `lkpTransfer` | files in both directions of a connection | actions, composed by `lkpClient` |
| `lkpClient` | the node: handlers, fork, SIGCHLD, `system()` | extends `lkpTransfer` |
| `MCServerConn`, `MCServerCmd`, `MCLog`, `MCCodec`, `MCCommand`, `MCClient` | - | values for TLC, symmetry |
| `lkpServerConn_proofs` | - | theorems about the pool, the server's connections and `lkpMembership` |
| `lkpServerCmd_proofs`, `lkpLog_proofs`, `lkpTransfer_proofs`, `lkpClient_proofs`, `lkpCommand_proofs`, `lkpCodec_proofs` | - | theorems about the module of that name |
| `lkpInduction` | - | lemmas: induction, and what a fold computes |

Definitions whose comment says "Mutant" are the same operation with a
plausible bug; no specification uses them. They show that a property notices.

### lkpClientPool
Variables have the names of the members. `connections_` is a function whose
domain is the IDs in use. `IsNewID(id)` says which ID `add` returns; `del(ids)`
is `del` called for each member of `ids`, which commutes.

### lkpServerConn
A TcpConnection object is used for one connection only, so `Node` and `Cli` are
sets of connections and `link` gives muduo's state of each. `Entry` objects are
identified with their connection; shared pointers to them are in buckets only,
so `EntryAlive(c)` is "in some bucket" and `~Entry` runs in the tick after which
no bucket holds it (`Expiring`). `weakConn_.lock()` succeeds while muduo has the
connection open, while the pool lists it, or while it is a key of a file map
(`ConnAlive`). `crash` records the two ways in which `onConnection` ends the
process: `any_cast` on the empty context of a command line's connection, and
the null entry. Two history variables serve the properties only: `quiet` (ticks
without a heartbeat) and `overlap` (a command line came while one was
connected, or a node closed while one was connected).

Abstractions: handlers are atomic; a connection object that nobody keeps is
gone with its DOWN callback (muduo may keep it for one more loop iteration); a
client that connects from 127.0.0.1 would be taken for a command line and is
left out; `Transfers` bounds the nodes that PUSH and RESULT ever touch. `Retain`
needs a command line: one that is connected for a PUSH to a registered node, and
one that has been for a RESULT the node still sends.

### lkpServerCmd
`run[l]` is what IO loop `l` is executing; a handler starts only in an idle
loop. `onCommandMsg` is three steps (reset, send, set `clientNum_`; PUSH sets it
before it sends), a reply handler is: load and store `ackTimes_`, load and
store `clientOKNum_` or record the error, compare and send the Return. The
three reply handlers do the same to the counters and share these steps.
`inFlight` is what was sent and not yet answered; replies come in any order,
since a RESULT is streamed while later commands are answered. `LoopOf` assigns
loops. Nodes are their IDs; they join, lose the connection, and are deleted as
`lkpServerConn` allows; of the replies under way on a lost connection any part may
still be read (`Disconnect`), since the server's shutdown closes only its own
half. `hist` is history: who answered the command, and how many replies to
earlier ones came `late`. The three stores of 0 are one step: in one loop nothing
comes between them, and with several loops it adds late replies that only fail
what fails without them. Uninitialised counters before the
first command are set to 0: no reply can come before a command has reset them.
A command is taken up when the previous command line is gone: command lines that
overlap are the subject of `lkpServerConn`.

### lkpLog
The code is the same in both programs. What runs under `mutex_` is one action:
`append`, and the writer's `Swap`, which happens at once when the list has a
buffer (`SwapFull`) or after the wait (`WakeUp`). The wait is timed and its
condition is not tested again, so `WakeUp` may come at any moment and
`cond_.notify` needs no state. Buffers are sequences of record numbers, all
records have size 1, and the notice about dropped buffers is not a record.
`Reset` empties a buffer, so a record written twice would show. Steps of
`threadFunc` are possible only while its asserts hold. The end of the process,
which loses what is queued, is left out.

### lkpProto
One group of operators per class: the default instance, parsing of one field,
serializing, `ByteSize`, `MergeFrom`. A field is its tag and its value; bytes
are counted, not written out. Parsing returns a set: empty when it fails, one
message otherwise, and it fails for a string that is not UTF-8, an end group, a
zero tag or an invalid wire type. Six classes are messages by themselves;
`createMessage` would find any other generated type too, for which no handler is
registered and which nobody sends. An unknown tag is skipped. The two serializers
of the generated code write the same fields and are one operator.

### lkpCodec and lkpChannel
`script` is what a peer sends, `stream` the frames on their way and `readable`
how many bytes of them TCP has brought, in pieces of any size. The loop in
`onMessage` is `HandleFrame`, `ReportError` or `WaitForMore`, by `HeadOfBuffer`.
An item of a script says how its frame is spoilt: by a newer version (a field
more, which must be accepted), length, checksum, name length, class or payload.
adler32 is taken to tell any two contents apart. `lkpChannel` knows neither
bytes nor frames: each item is delivered or, when the receiver cannot accept it,
refused, with all that follow.

### lkpConfig
This is the one module that handles characters, because what is right or wrong
in `AnalyseLine` is its index arithmetic. Positions count from 0, -1 is `npos`,
and a negative count of `substr` is a huge `size_t`. `Stoi` takes a sign, and throws
where there is no number or one that is no int (`IntLimit`); a port is then cut to
16 bits. `Meaning` is the reference: what the comments in the file and the code
say a line means.

### lkpCommand
The life of `lkp-ctl`'s program: arguments, one `ReadLine` per line of the file,
`ConfigInit`, the connection, timer ticks, Returns, exit. When a key is missing,
`lkpConfigInit` stores nothing and nobody looks: the port is then any value
(`AnyPort`). `Rows` uses one `NodeInfo` for all rows, as the loop does; `CopyFrom`
clears it each time. A node argument that is no number is node 0 (`atoi`).

### lkpTransfer
muduo queues the write-complete callback in the connection's loop whenever the
output buffer becomes empty and a callback is set; which message did it plays
no part. `functors` is that queue, `unsent` how much of `wire` is still in the
output buffer. `pushToClient` is one action in the connection's own loop and
four (open, read, set the callback, post) in another one. A chunk remembers its file, its number
and whether `set_content` cut it off (`Binary`). Closing a closed `FILE` is
undefined in C; the model ends that side (`fault`), as it does for the asserts.
`disturbed` is history: something else was sent while a transfer was under way.

### lkpClient
The main thread runs one handler after the other; fork and `childNum++` are two
steps. The signal handler loads `childNum`, stores it and waits until no child
is left, in the main thread or in the log thread, whichever does not block
SIGCHLD; POSIX leaves the choice open and so does the model. `system()` blocks
SIGCHLD in the thread that calls it, and its `cp` raises one as well. Signals
that are pending merge. `mishaps` is history: a fork that failed, a job that
ended before it was counted; and so is `copies`, how many `cp` ended since a job
was started on a node where everything was over. The ACK that UPDATE's child
gives to `SendToServer` when it cannot execute `lkp-ctl` never leaves the child:
muduo renews its cached thread ID after a fork, so the child is not in the loop's
thread, `send` queues a functor in the child's copy of the loop, and `exit(0)`
follows. UPDATE is therefore as RUN. The server's side of the connection is the
part of `lkpServer` that handles files.

## 3. Runs

| Run | Instance | Shows |
|---|---|---|
| `conn` | 3 nodes, 2 command lines, wheel of 2, all nodes in transfers, symmetric | the invariants of `lkpServerConn`, with the node IDs |
| `membership` | 2 nodes, 2 command lines, wheel of 3, no transfers | refinement of `lkpMembership` with its liveness |
| `cmd_one_loop` | 2 nodes, 2 commands among RESULT, PUSH, LIST, one loop | counts, honesty and presence of the Return |
| `log` | 12 records, 2 per buffer, limit of 3 buffers | the asserts of `threadFunc`, refinement of `lkpLogQueue` with its liveness |
| `stream` | every message with and without each field; scripts of three with a spoilt middle | refinement of `lkpChannel`, sizes, no frame left behind, errors final, liveness |
| `command_line` | 3 kinds of files with one line of any make, all kinds of arguments | the port meant, the command asked for, the rows returned, the end |
| `node` | 3 commands or pushes, files of 1 chunk | what `childNum` is worth |
| `transfer` | 2 commands (RUN, RESULT, PUSH), pushed file of 2 chunks, 1 heartbeat, 1 failed open | files in both directions, one answer for each command |
| `list_misses_node`, `timeout_kills_server` | 2 nodes, 1 command line | statements of the repository that the code breaks |
| `no_return` | 2 nodes in loops of their own, 1 command | a reply overtakes the assignment of `clientNum_` |
| `foreign_reply` | one loop, 2 commands | a late reply is counted for the next command |

Bounds. Reusing an ID takes two connections, and a third to be the bystander;
two command lines are enough to overlap. A wheel of 2 has an oldest and a newest
bucket, one of 3 also a middle one; the proofs cover every length (the code has
10). Two nodes make a broadcast that is partly answered, two commands make a
reply late. Three buffers (25 in the code) are enough for the writer to write
one, two or three and to drop, and twelve records to drop while append goes on.
UPDATE is left out of the kinds where the code treats it as RUN, and RUN itself
where RESULT, which is answered by an ACK or by a file, shows all it can do.

`stream` scales sizes down (`kHeaderLen` 1, `NameLen` 2, `kMaxMessageLen` 30,
`UInt32` 256) so that TCP can cut a frame at every byte and a frame can be too
short or too long; `node_id` 255 takes a varint of two bytes. Three items put
good frames before and after a bad one. `command_line` has `UInt16` 16 and
`IntLimit` 64, so that 17 and -7 are
cut to other ports and 77 is no int; keys of two characters (`AnalyseLine` loses shorter ones)
and lines of up to nine, with `#`, `=`, blanks and digits at every place
relative to the key; the timeout is 2 ticks instead of 5, and a server sends 2
Returns at most. In `node` a third command is needed for a job while the count
of the first is wrong. In `transfer` two chunks make a chunk that is not the
first, and two commands make a message during a transfer; result.tar has one
chunk, which then is first and last. Its push also comes from another loop.

Everything else is finite without a bound. Deadlock is not checked where a
process may end, the peer may stop, or the commands are used up.

Fairness. `onTimer` is weakly fair (`runEvery`). In `lkpServerConn` nothing is
assumed of peers. In `lkpServerCmd` a loop finishes the handler it started, and
a loop that is idle again and again takes up a reply that is waiting (strong
fairness: the poller returns every readable connection); a node that stays
connected answers each command, which `AllAnswered` shows of `lkpClient` while
no transfer is disturbed. In `lkpLog` the writer is weakly fair: its wait ends
by timeout, and `append` holds `mutex_` only briefly. In `lkpCodec` bytes in
transit arrive, `onMessage` goes on, and a peer answers a shutdown by closing;
that a peer sends is not assumed. In `lkpCommand` the program and its timer run;
the server owes it nothing. In `lkpClient` both event loops and the network go
on, signals are delivered, and a job ends; the server need not send.

What the runs say of the code. With one IO loop (`ServerThreadsNum` 0 or 1)
each reply counts once, the late ones too, so that a Return is right as long as
none comes late and the nodes stay; with more loops it is not. A file arrives as it was sent if it has no byte 0 and nothing
else is sent meanwhile. A node runs one job at a time, and one more at most for each
pushed file it copies during one. The properties name these exceptions; `PROJECT.json` lists them
as findings with their lines.

## 4. Proofs

A theorem holds for every value of the constants that satisfies the assumptions
of its module. They are what the code fixes: a wheel and a buffer have a size,
connections are distinct, the limit of the log is two buffers at least
(`resize(2)`). Four say what inputs are like:

- `StartsAssumption`, `CommandAssumption`: a node on the command line is read by
  `atoi` into an int or is no number, a configuration file is a sequence of
  lines, a port has 16 bits, and a Return is a message of that class;
- `ConfigAssumption`, `KeysAssumption`: the keys of `lkpConfigInit` have more than
  one character and no `#`, a port is taken modulo 2^16;
- `ProtoAssumption`: unsigned fields have a width, and the empty string is UTF-8;
- `ScriptsAssumption`: the messages a peer sends are messages of the classes, each
  shorter than the 64 MB the receiver allows. `Len(text) \in Nat` is in it because
  the provers do not know that a string has a length.

`lkpInduction` is what the proofs about sequences stand on. The library's
induction theorems take an operator as a parameter, which the provers cannot
instantiate; here `Induction` is about a set of numbers and follows from
`LeastNumber`. `SetRecursion` builds the function that the community modules'
folds choose, and `FoldChain` turns a fold from the left into a chain h[0],
h[1], ... with one step for each element. `Total`, `Parse`, `ReadNodeInfo`,
`Rows`, and stoi's value are computed with it.

`lkpServerConn_proofs`, from `ConnAssumption` (nodes, command lines and null are
distinct) and `TimeControlAssumption` (the wheel has a bucket):

- `PoolPartition`, `TypeCorrect`, `IDsStayPartitioned`: types and ID partition, for
  the pool alone under any calls and for the whole server.
- `NewIDIsSmallest`: from the partition, since the IDs below `nodeCount_` that
  are not idle are in use.
- `WheelKeepsTime`: `WheelExact` is not inductive, since it does not say when an
  entry will fall off. `WheelPosition` does: the newest bucket that holds an
  entry is `TimeControl - quiet`.
- `ListIsSound`, `ListIsComplete`: `RegisteredHasEntry` and `LiveIsRegistered`,
  with the strengthening `LiveUnderOwnID` (an open connection with a live entry is
  registered under the very ID in its entry, so that deleting another
  connection's ID cannot hit it).
- `CliSlotIsSound`, `CliSlotIsFresh`, `CrashesAreExplained`: the CLI slot; they
  need `WheelExact` to know that a node without entry has timed out.

- `ListImplementsMembership`: the safety refinement of
  `lkpMembership` when `Transfers = {}`. `LoseLemma` reduces every action but a
node's UP and the crashes to three facts about phases and the list.

`lkpServerCmd_proofs`: `CmdTypeCorrect` for any loops; then, under `SerialLoops`
(every node's loop is the command line's) and for any nodes and commands,
`RepliesAreCounted`, `ReturnsAreHonest` (about each step that sends a Return),
`OneReturnPerCommand` and `AnsweredCommandsReturn`. The counters agree with the history only between
handlers, so the invariant (`SerialInv`) corrects them by what the one handler
in progress still has to do: an answer not yet in `ackTimes_` (`AckPending`) or
in `clientOKNum_` (`OKPending`), a comparison not yet made (`Unchecked`). With
that, the count is short of `clientNum_` until the Return is sent and past it
afterwards, so there is no second one.

`lkpLog_proofs`: `LogTypeCorrect`, `LogAssertsHold`. The asserts look at the
writer's buffers at one moment each; the invariant adds why they come back:
`append` uses up the spare buffer only when it puts a buffer on the list
(`SpareIsUsed`), so when the writer has given both of its buffers away it has
got at least two (`BuffersAreDue`). `LogImplementsQueue` is the safety part of the
refinement of `lkpLogQueue`, for any size of a buffer and any limit. `FlattenSeq`
is a chain like a fold (`JoinsExist`, `FlattenJoins`), so it distributes over
concatenation (`FlattenConcat`), and what is queued can be read as one line of
records: `append` adds one at its end (`LastInLine`), a swap moves none
(`SwappedLine`), `WriteBuffer` takes a buffer from its head (`HeadOfLine`). That
only a backlog is dropped needs one more invariant, `BuffersAreFull`: the buffers
on the list are full, and so are all but the last of those just taken.

`lkpClient_proofs`, for any files, chunks, commands and pushes: `OneJobAtATime`
and `HeartbeatGoesOn` from `JobIsCounted` (jobs and signals on their way are no
more than what is counted or about to be, and `copies`), `ReadyWhenAtRest` from
`CountIsDue` (the count is one at most, and while it is one, a job, a pending
signal or a handler will take it back). Both use that transfers leave
`execVars` alone.

`NoSecondAnswer` (`NoExtraAnswer`) and `ClientTypeOK`, in the same module, count.
`Tallied` is the balance: as long as no transfer is disturbed, what was issued is
at least what was answered, plus the commands still on the wire or queued in
the server, plus the ENDs on their way to the node, plus the transfers that are
begun, plus the job whose answer is still due; and without that condition the
jobs and the commands on the way are no more than what was issued. Each action
takes from one term what it adds to another. It rests on `TInv` (an END is sent
once per transfer, and nothing else calls `onWriteComplete`), on `Buffers` (what is
in the output buffer is on the wire), `OnlyResult` (the node sends no file but
result.tar) and `OneCounted` (the count is 0 or 1 whatever goes wrong). The counts
over sequences are cardinalities of sets of places, which need no induction.

`lkpTransfer_proofs`, for any files, chunks, commands, pushes, heartbeats and
failures: `FilesOpen` (`FilesOpenWhenUsed`) and `Intact` (`CompleteIsIntact`).
Neither is inductive: both depend on every message that is still on the wire and
on what the sender will do next. The invariant `TInv` says, for each end:

- `Undisturbed`: as long as nothing disturbs it the sender is in one of four
  states: it rests, its callback waits for the output buffer, the callback is
  queued, or the first chunk is queued (`Resting`, `Buffered`, `Queued`,
  `Posted`); so at most one thing will call `onWriteComplete`;
- `InOrder`: before each chunk and END on the wire the receiver will have its FILE
  open (`Orderly`), and also when the callback comes;
- `InSequence`: each chunk on the wire is the first of a file or the one after the
  last (`Chain`), the sender's FILE stands just behind the last one (`ReadsOn`),
  and what was received is the beginning of one file (`GotFile`);
- `Queue`: in the connection's own loop only callbacks are queued.

The proof looks at a step from one end: each action is one of ten steps of the
end that sends (`SendsPlain`, `QueuesPlain`, `Starts`, `Completes`, `Drains`,
`Opens`, `PushRead`, `PushSet`, `PushPost`, `PostedSend`), or a `Receives` of its peer, or
leaves it alone (`Same`), and each of these has one lemma.

`lkpCommand_proofs`, for every configuration file, argument vector and Return:
`CommandTypeOK`, `CommandConfiguredPort`, `CommandSentAsAsked` and
`CommandRowsAreTheReturn`. The invariant `CInv` says of the lines read so far that
the map holds what the last line of each key gives (`MapRead`), which is compared
with `Meaning` once the file is read: what `AnalyseLine` computes from wrong indices
is still what is meant, as far as a number is concerned (`ConfiguredAsMeant`).
After that it follows the one Command (`SentOnce`) and the rows (`Reported`).

`lkpCodec_proofs`, for any script of messages and any cuts of the stream. First the
messages: each class is understood (`Understood`: the fields written so far have
the size counted so far, and reading them gives the members set so far), from
which `RoundTrip` follows: `ByteSize` counts what is written, reading gives the
message back, also with a field of a newer version, and copying loses
nothing. Then the stream: `CodecInv` says that what was sent is what was delivered
and then the frames on their way (`Ordered`), that the readable bytes are within
them (`Buffered`), and that a refused frame stays at the head (`StillRefused`).
`CodecTypeOK`, `CodecSizesAgree`, `CodecNothingLeftBehind`, `CodecErrorIsFinal` and the
refinement `CodecImplementsChannel` follow.

Only model-checked:

- liveness: `CommandIsAnswered`, `MessagesArrive`, `RefusalCloses`,
  `AlwaysEnds`, `AllAnswered` and the liveness halves of the specifications
  `lkpMembership` and `lkpLogQueue` (in `ImplementsMembership` and
  `ImplementsQueue`), because proofs under fairness are out of the prover's
  reach;
- `lkpServerCmd` with several loops, where the properties do not hold.

Every invariant that a run checks is proved. `lkpConfig` has no behaviour of its
own; what is proved about it is in `lkpCommand_proofs`.

## 5. Plan

Done, in this order: pool and membership, server connections, command dispatch,
log, codec with the generated classes, configuration and command line, node and
transfer; then the proofs, in the order of section 4.

Left: the server's dispatch composed with several `lkpClient` nodes in
place of the replies `lkpServerCmd` assumes.

## 6. Not modelled

- The container operations of several threads on `clientPool_` and
  `connectionBuckets_`: undefined behaviour with no finite set of outcomes; the
  models take each as atomic.
- Names of files on the disk. All results go to `node0-result.tar`, because the
  client never sets `node_id` (a finding); `lkpTransfer` models one node's.
- result.tar being written by a script while it is sent, and a `FILE` leaked by
  a second first chunk.
- The end of a process, which loses what the log has queued; `onUnknownMsg` of
  the client, which exits; the start as a daemon.
- Reflection, descriptors, swapping and string-releasing accessors of the
  generated code, which the programs do not use.
- Shell scripts and container images (`bin/lkp-ctl`, `sbin/run`, `build.sh`):
  they call external tools and share no state with the programs.
- Printing and the texts of logs.
