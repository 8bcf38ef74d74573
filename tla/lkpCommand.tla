------------------------------ MODULE lkpCommand ------------------------------
(***************************************************************************)
(* The command line program (lkpCommand.cc): main makes a Command of its   *)
(* arguments and reads the configuration; lkpCmdClient connects to the     *)
(* server on this host, sends the Command, prints the Return that comes    *)
(* and exits, or gives up.                                                 *)
(***************************************************************************)
EXTENDS lkpConfig, lkpProto

CONSTANTS
  Starts,         \* the arguments and the configuration file: [argv, file]
  NotANumber,     \* an argument that atoi makes 0 of
  AnyPort,        \* the port found in memory that nothing was stored in
  Returns,        \* the Returns the server may send
  MaxReturns,     \* bound: number of them
  TimeOutLimit    \* 5 seconds

(* What main is started with, what atoi makes of a number, what may be in  *)
(* a uint16_t, and what arrives in a Return.                               *)
Int32 == (-UInt32 \div 2)..(UInt32 \div 2 - 1)

ASSUME StartsAssumption ==
  \A s \in Starts : s.argv.node \in Int32 \cup {NotANumber} /\ s.file \in Seq(Text)

ASSUME CommandAssumption ==
  /\ AnyPort \subseteq 0..(UInt16 - 1)
  /\ Returns \subseteq ReturnMessage
  /\ TimeOutLimit \in Nat

VARIABLES
  argv, file,     \* how the program was started
  line,           \* number of lines of the file that were read
  configMap,
  port,           \* commandPort: the port of the server it connects to
  connection,     \* "null", "connected", "disconnected"
  TimeOutCounter_,
  sent,           \* the Commands that were sent
  got,            \* history: the Returns that were received
  printed,        \* the rows of the Return that were printed
  phase           \* what the program is doing, or how it ended

vars == <<argv, file, line, configMap, port, connection, TimeOutCounter_, sent, got,
          printed, phase>>

NoPort == -1
Ends == {"usage", "no_file", "aborted", "unreachable", "timeout", "crashed", "reported"}

TypeOK ==
  /\ line \in 0..Len(file)
  /\ port \in {NoPort} \cup 0..(UInt16 - 1)
  /\ connection \in {"null", "connected", "disconnected"}
  /\ TimeOutCounter_ \in 0..(TimeOutLimit + 1)
  /\ phase \in {"argv", "config", "connect", "loop"} \cup Ends
  /\ \A i \in 1..Len(sent) : sent[i].node_id \in 0..(UInt32 - 1)

Init ==
  /\ \E s \in Starts : argv = s.argv /\ file = s.file
  /\ line = 0
  /\ configMap = [k \in {} |-> k]
  /\ port = NoPort
  /\ connection = "null"
  /\ TimeOutCounter_ = 0
  /\ sent = <<>> /\ got = <<>> /\ printed = <<>>
  /\ phase = "argv"
-----------------------------------------------------------------------------
lkpCommands == <<"UPDATE", "RUN", "RESULT", "PUSH", "LIST">>

lkpCmdsToEnum(word) == {i - 1 : i \in {k \in 1..Len(lkpCommands) : lkpCommands[k] = word}}
lkpEnumToCmds(enum) == {lkpCommands[k + 1] : k \in {enum} \cap 0..(Len(lkpCommands) - 1)}

Atoi(arg) == IF arg = NotANumber THEN 0 ELSE arg

(* Mutant: every node ID is taken for one node, -1 too.                    *)
CommandToOne(a) ==
  [NewCommand EXCEPT
     !.command = IF lkpCmdsToEnum(a.word) = {} THEN @ ELSE CHOOSE e \in lkpCmdsToEnum(a.word) : TRUE,
     !.testcase = a.testcase,
     !.node_id = Atoi(a.node) % UInt32,
     !.docker_num = IF Atoi(a.docker) > 0 THEN Atoi(a.docker) ELSE @]

(* The Command that main fills in.  A word that is no command is           *)
(* complained of and leaves the field as it is; set_node_id takes -1 as    *)
(* the largest unsigned number.                                            *)
Command(a) ==
  [NewCommand EXCEPT
     !.command = IF lkpCmdsToEnum(a.word) = {} THEN @ ELSE CHOOSE e \in lkpCmdsToEnum(a.word) : TRUE,
     !.testcase = a.testcase,
     !.node_id = (IF Atoi(a.node) >= 0 THEN Atoi(a.node) ELSE -1) % UInt32,
     !.send_to_all = Atoi(a.node) < 0,
     !.docker_num = IF Atoi(a.docker) > 0 THEN Atoi(a.docker) ELSE @]

ParseArgv ==
  /\ phase = "argv"
  /\ phase' = IF argv.argc # 6 THEN "usage" ELSE IF argv.path_ok THEN "config" ELSE "no_file"
  /\ UNCHANGED <<argv, file, line, configMap, port, connection, TimeOutCounter_, sent, got,
                 printed>>

(* ReadConfig: one line of the file.                                       *)
ReadLine ==
  /\ phase = "config" /\ line < Len(file)
  /\ line' = line + 1
  /\ configMap' = EnterInto(configMap, AnalyseLine(file[line + 1]))
  /\ UNCHANGED <<argv, file, port, connection, TimeOutCounter_, sent, got, printed, phase>>

(* lkpConfigInit.  When a key is missing it returns false before it has    *)
(* stored anything; main does not look, and takes the port from a struct   *)
(* that was never written.                                                 *)
ConfigInit ==
  /\ phase = "config" /\ line = Len(file)
  /\ \/ /\ MissingKey(configMap)
        /\ port' \in AnyPort
        /\ phase' = "connect"
     \/ /\ ~MissingKey(configMap) /\ InitThrows(configMap)
        /\ phase' = "aborted"
        /\ UNCHANGED port
     \/ /\ ~MissingKey(configMap) /\ ~InitThrows(configMap)
        /\ port' \in ListenPort(configMap)
        /\ phase' = "connect"
  /\ UNCHANGED <<argv, file, line, configMap, connection, TimeOutCounter_, sent, got, printed>>

(* The constructor starts the timer, connect() and loop() the rest.        *)
Connect ==
  /\ phase = "connect"
  /\ phase' = "loop"
  /\ UNCHANGED <<argv, file, line, configMap, port, connection, TimeOutCounter_, sent, got,
                 printed>>
-----------------------------------------------------------------------------
(* onConnection, UP, with SendToServer: the Command goes out at once.  The *)
(* connector is not asked to try again once it has connected.              *)
Connected ==
  /\ phase = "loop" /\ connection = "null" /\ sent = <<>>
  /\ connection' = "connected"
  /\ sent' = Append(sent, Command(argv))
  /\ TimeOutCounter_' = 0
  /\ UNCHANGED <<argv, file, line, configMap, port, got, printed, phase>>

(* onConnection, DOWN: the server shuts a command line down when another   *)
(* one connects, or ends.                                                  *)
Disconnected ==
  /\ phase = "loop" /\ connection = "connected"
  /\ connection' = "disconnected"
  /\ UNCHANGED <<argv, file, line, configMap, port, TimeOutCounter_, sent, got, printed, phase>>

(* Mutant: seconds are only counted before the connection is there.        *)
TickUncounted ==
  /\ phase = "loop"
  /\ \/ /\ connection # "connected"
        /\ phase' = "unreachable"
        /\ UNCHANGED TimeOutCounter_
     \/ /\ connection = "connected"
        /\ UNCHANGED <<TimeOutCounter_, phase>>
  /\ UNCHANGED <<argv, file, line, configMap, port, connection, sent, got, printed>>

onTimer ==
  /\ phase = "loop"
  /\ \/ /\ connection # "connected"
        /\ phase' = "unreachable"
        /\ UNCHANGED TimeOutCounter_
     \/ /\ connection = "connected"
        /\ TimeOutCounter_' = TimeOutCounter_ + 1
        /\ phase' = IF TimeOutCounter_' > TimeOutLimit THEN "timeout" ELSE phase
  /\ UNCHANGED <<argv, file, line, configMap, port, connection, sent, got, printed>>

(* node = message->node_info(i), the same node for every row: CopyFrom is  *)
(* Clear and MergeFrom.                                                    *)
AssignUncleared(node, info) == MergeNodeInfo(node, info)

Assign(node, info) == MergeNodeInfo(NewNodeInfo, info)

Rows(infos) ==
  FoldLeft(LAMBDA rows, info :
             Append(rows, Assign(IF rows = <<>> THEN NewNodeInfo ELSE Last(rows), info)),
           <<>>, infos)

(* LIST prints client_num rows, reading past the end of a shorter list;    *)
(* the other commands print the rows there are.                            *)
onReturnMsg(message) ==
  LET isList == lkpEnumToCmds(message.command) = {"LIST"}
      rows == IF isList /\ message.client_num <= Len(message.node_info)
                THEN SubSeq(message.node_info, 1, message.client_num) ELSE message.node_info
  IN  /\ phase = "loop" /\ connection = "connected" /\ Len(got) < MaxReturns
      /\ got' = Append(got, message)
      /\ TimeOutCounter_' = 0
      /\ IF lkpEnumToCmds(message.command) = {}
           THEN UNCHANGED <<printed, phase>>
         ELSE IF isList /\ message.client_num > Len(message.node_info)
           THEN phase' = "crashed" /\ UNCHANGED printed
         ELSE phase' = "reported" /\ printed' = Rows(rows)
      /\ UNCHANGED <<argv, file, line, configMap, port, connection, sent>>

Next ==
  \/ ParseArgv \/ ReadLine \/ ConfigInit \/ Connect
  \/ Connected \/ Disconnected
  \/ onTimer
  \/ \E message \in Returns : onReturnMsg(message)

(* The program runs on, and its timer fires every second.                  *)
Fairness ==
  WF_vars(ParseArgv) /\ WF_vars(ReadLine) /\ WF_vars(ConfigInit) /\ WF_vars(Connect)
    /\ WF_vars(onTimer)

Spec == Init /\ [][Next]_vars /\ Fairness
-----------------------------------------------------------------------------
(* AnalyseLine computes the end of a line's text wrongly and keeps what it *)
(* should cut off; still, the program connects to the port the file names, *)
(* whatever comments, blanks and = signs a line has, and is ended only by  *)
(* a value that stoi refuses as it is meant to be read, as long as no key  *)
(* is missing from the file (lkpHelper.cc:214-240, 25-46).                 *)
ConfiguredPort ==
  ~MissingKey(MeantMap(file)) =>
    /\ port # NoPort => port \in ListenPort(MeantMap(file))
    /\ phase = "aborted" => InitThrows(MeantMap(file))

(* What is sent is what was asked for: the command, and the node or all of *)
(* them.  With two exceptions.  A word that is no command is reported and  *)
(* then sent all the same, as UPDATE, which is 0 (lkpCommand.cc:230); and  *)
(* an argument for the node that is no number stands for node 0 (:245).    *)
SentAsAsked ==
  \A i \in 1..Len(sent) :
    /\ lkpEnumToCmds(sent[i].command) =
         IF argv.word \in ToSet(lkpCommands) THEN {argv.word} ELSE {"UPDATE"}
    /\ argv.node # NotANumber =>
         IF argv.node >= 0 THEN ~sent[i].send_to_all /\ sent[i].node_id = argv.node
                           ELSE sent[i].send_to_all

(* The table shown is the table in the Return, its rows all there and in   *)
(* their order, and nothing of an earlier one (lkpCommand.cc:165-184).     *)
(* Not when a LIST promises more rows than it has: onReturnMsg reads past  *)
(* the end of them, which ends the program here (crashed).                 *)
RowsAreTheReturn ==
  phase = "reported" =>
    LET r == Last(got)
    IN  printed = SubSeq(r.node_info, 1, IF r.command = 4 THEN r.client_num ELSE Len(r.node_info))

(* The program always ends: the server may be away, refuse, go silent,     *)
(* disconnect or answer with commands it does not know.                    *)
AlwaysEnds == <>(phase \in Ends)
=============================================================================
