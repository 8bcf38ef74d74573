------------------------------- MODULE lkpProto -------------------------------
(***************************************************************************)
(* The messages of lkpProto.proto as the generated classes treat them.     *)
(* For every class: Parse... is one turn of the loop in                    *)
(* MergePartialFromCodedStream, Serialize... is the sequence of fields     *)
(* that SerializeWithCachedSizes puts out, Size... is ByteSize, and        *)
(* Merge... is MergeFrom.  A field of an encoded message is its tag (field *)
(* number * 8 + wire type) and its value; bytes appear only as sizes.      *)
(*                                                                         *)
(* The result of reading is a set: empty when reading fails, else the      *)
(* singleton of what was read.                                             *)
(***************************************************************************)
EXTENDS Integers, SequencesExt

CONSTANTS
  UInt32,      \* 2^32: an unsigned field is stored modulo it
  NotUtf8      \* the strings that are not valid UTF-8

ASSUME ProtoAssumption ==
  /\ UInt32 \in Nat \ {0}
  /\ "" \in STRING \ NotUtf8
-----------------------------------------------------------------------------
(* The wire format, as the generated code uses WireFormatLite.             *)
Field(tag, val) == [tag |-> tag, val |-> val]
WireType(f) == f.tag % 8
EndGroup == 4
InvalidTypes == {6, 7}

VarintSize(n) == IF n < 128 THEN 1 ELSE 2   \* bytes of n, for n < 2^14
StringSize(s) == VarintSize(Len(s)) + Len(s)

(* A value that is the default of its type is not written.                 *)
Emit(tag, val) == IF val = 0 THEN <<>> ELSE <<Field(tag, val)>>
EmitBool(tag, b) == IF b THEN <<Field(tag, 1)>> ELSE <<>>
EmitString(tag, s) == IF s = "" THEN <<>> ELSE <<Field(tag, s)>>

SizeIf(present, size) == IF present THEN 1 + size ELSE 0

(* The bytes that a sequence of fields takes; NodeInfos are nested in it.  *)
NodeInfoTag == 34

Total(numbers) == FoldLeft(LAMBDA sum, n : sum + n, 0, numbers)

ScalarBytes(f) == 1 + IF WireType(f) = 0 THEN VarintSize(f.val) ELSE StringSize(f.val)

FieldBytes(f) ==
  IF f.tag # NodeInfoTag THEN ScalarBytes(f)
  ELSE LET inner == Total([i \in DOMAIN f.val |-> ScalarBytes(f.val[i])])
       IN  1 + VarintSize(inner) + inner

Bytes(fields) == Total([i \in DOMAIN fields |-> FieldBytes(fields[i])])

ReadUInt32(f) == {f.val % UInt32}
ReadEnum(f) == {f.val}
ReadBool(f) == {f.val # 0}
ReadBytes(f) == {f.val}
ReadString(f) == {f.val} \ NotUtf8

Store(m, name, read) == {[m EXCEPT ![name] = v] : v \in read}

(* handle_unusual: a tag this class does not know, or knows with another   *)
(* wire type.  A zero tag or an end group before the end is refused by     *)
(* ConsumedEntireMessage, an invalid wire type by SkipField.               *)
Unusual(m, f) ==
  IF f.tag = 0 \/ WireType(f) \in {EndGroup} \cup InvalidTypes THEN {} ELSE {m}

(* MergeFrom takes over a scalar or a string that is not the default.      *)
Over(old, new, default) == IF new = default THEN old ELSE new
-----------------------------------------------------------------------------
(* The values a message of each class can hold.                            *)
UInt == 0..(UInt32 - 1)

CommandMessage ==
  [type : {"Command"}, command : UInt, send_to_all : BOOLEAN, testcase : STRING,
   docker_num : UInt, tesetcase_len : UInt, node_id : UInt]
FileMessage ==
  [type : {"File"}, file_type : UInt, file_name : STRING, patch_len : UInt, file_size : UInt,
   first_patch : BOOLEAN, content : STRING, node_id : UInt]
CommandACKMessage ==
  [type : {"CommandACK"}, status : BOOLEAN, command : UInt, ack_message : STRING, node_id : UInt]
HeartBeatMessage == [type : {"HeartBeat"}, status : BOOLEAN]
PushACKMessage == [type : {"PushACK"}, status : BOOLEAN, ack_message : STRING, node_id : UInt]
NodeInfoMessage == [type : {"NodeInfo"}, node_id : UInt, node_msg : STRING]
ReturnMessage ==
  [type : {"Return"}, client_num : UInt, client_ok_num : UInt, command : UInt,
   node_info : Seq(NodeInfoMessage)]

Message ==
  CommandMessage \cup FileMessage \cup CommandACKMessage \cup HeartBeatMessage
    \cup PushACKMessage \cup ReturnMessage
-----------------------------------------------------------------------------
(* class Command                                                           *)
NewCommand == [type |-> "Command", command |-> 0, send_to_all |-> FALSE,
               testcase |-> "", docker_num |-> 0, tesetcase_len |-> 0, node_id |-> 0]

ParseCommand(m, f) ==
  CASE f.tag = 8  -> Store(m, "command", ReadEnum(f))
    [] f.tag = 16 -> Store(m, "send_to_all", ReadBool(f))
    [] f.tag = 26 -> Store(m, "testcase", ReadString(f))
    [] f.tag = 32 -> Store(m, "docker_num", ReadUInt32(f))
    [] f.tag = 40 -> Store(m, "tesetcase_len", ReadUInt32(f))
    [] f.tag = 48 -> Store(m, "node_id", ReadUInt32(f))
    [] OTHER      -> Unusual(m, f)

SerializeCommand(m) ==
  Emit(8, m.command) \o EmitBool(16, m.send_to_all) \o EmitString(26, m.testcase)
    \o Emit(32, m.docker_num) \o Emit(40, m.tesetcase_len) \o Emit(48, m.node_id)

SizeCommand(m) ==
  SizeIf(m.command # 0, VarintSize(m.command)) + SizeIf(m.send_to_all, 1)
    + SizeIf(m.testcase # "", StringSize(m.testcase))
    + SizeIf(m.docker_num # 0, VarintSize(m.docker_num))
    + SizeIf(m.tesetcase_len # 0, VarintSize(m.tesetcase_len))
    + SizeIf(m.node_id # 0, VarintSize(m.node_id))

(* Mutant: a broadcast loses its send_to_all when it is copied.            *)
MergeCommandNotAll(m, from) ==
  [m EXCEPT !.command = Over(@, from.command, 0),
            !.testcase = Over(@, from.testcase, ""),
            !.docker_num = Over(@, from.docker_num, 0),
            !.tesetcase_len = Over(@, from.tesetcase_len, 0),
            !.node_id = Over(@, from.node_id, 0)]

MergeCommand(m, from) ==
  [m EXCEPT !.command = Over(@, from.command, 0),
            !.send_to_all = Over(@, from.send_to_all, FALSE),
            !.testcase = Over(@, from.testcase, ""),
            !.docker_num = Over(@, from.docker_num, 0),
            !.tesetcase_len = Over(@, from.tesetcase_len, 0),
            !.node_id = Over(@, from.node_id, 0)]
-----------------------------------------------------------------------------
(* class File                                                              *)
NewFile == [type |-> "File", file_type |-> 0, file_name |-> "", patch_len |-> 0,
            file_size |-> 0, first_patch |-> FALSE, content |-> "", node_id |-> 0]

ParseFile(m, f) ==
  CASE f.tag = 8  -> Store(m, "file_type", ReadEnum(f))
    [] f.tag = 18 -> Store(m, "file_name", ReadString(f))
    [] f.tag = 24 -> Store(m, "patch_len", ReadUInt32(f))
    [] f.tag = 32 -> Store(m, "file_size", ReadUInt32(f))
    [] f.tag = 40 -> Store(m, "first_patch", ReadBool(f))
    [] f.tag = 50 -> Store(m, "content", ReadBytes(f))
    [] f.tag = 56 -> Store(m, "node_id", ReadUInt32(f))
    [] OTHER      -> Unusual(m, f)

SerializeFile(m) ==
  Emit(8, m.file_type) \o EmitString(18, m.file_name) \o Emit(24, m.patch_len)
    \o Emit(32, m.file_size) \o EmitBool(40, m.first_patch) \o EmitString(50, m.content)
    \o Emit(56, m.node_id)

(* Mutant: the length of the content is not counted with it.               *)
SizeFileNoLength(m) ==
  SizeIf(m.file_type # 0, VarintSize(m.file_type))
    + SizeIf(m.file_name # "", StringSize(m.file_name))
    + SizeIf(m.patch_len # 0, VarintSize(m.patch_len))
    + SizeIf(m.file_size # 0, VarintSize(m.file_size)) + SizeIf(m.first_patch, 1)
    + SizeIf(m.content # "", Len(m.content)) + SizeIf(m.node_id # 0, VarintSize(m.node_id))

SizeFile(m) ==
  SizeIf(m.file_type # 0, VarintSize(m.file_type))
    + SizeIf(m.file_name # "", StringSize(m.file_name))
    + SizeIf(m.patch_len # 0, VarintSize(m.patch_len))
    + SizeIf(m.file_size # 0, VarintSize(m.file_size)) + SizeIf(m.first_patch, 1)
    + SizeIf(m.content # "", StringSize(m.content))
    + SizeIf(m.node_id # 0, VarintSize(m.node_id))

MergeFile(m, from) ==
  [m EXCEPT !.file_type = Over(@, from.file_type, 0),
            !.file_name = Over(@, from.file_name, ""),
            !.patch_len = Over(@, from.patch_len, 0),
            !.file_size = Over(@, from.file_size, 0),
            !.first_patch = Over(@, from.first_patch, FALSE),
            !.content = Over(@, from.content, ""),
            !.node_id = Over(@, from.node_id, 0)]
-----------------------------------------------------------------------------
(* class CommandACK                                                        *)
NewCommandACK == [type |-> "CommandACK", status |-> FALSE, command |-> 0,
                  ack_message |-> "", node_id |-> 0]

ParseCommandACK(m, f) ==
  CASE f.tag = 8  -> Store(m, "status", ReadBool(f))
    [] f.tag = 16 -> Store(m, "command", ReadEnum(f))
    [] f.tag = 26 -> Store(m, "ack_message", ReadString(f))
    [] f.tag = 32 -> Store(m, "node_id", ReadUInt32(f))
    [] OTHER      -> Unusual(m, f)

SerializeCommandACK(m) ==
  EmitBool(8, m.status) \o Emit(16, m.command) \o EmitString(26, m.ack_message)
    \o Emit(32, m.node_id)

SizeCommandACK(m) ==
  SizeIf(m.status, 1) + SizeIf(m.command # 0, VarintSize(m.command))
    + SizeIf(m.ack_message # "", StringSize(m.ack_message))
    + SizeIf(m.node_id # 0, VarintSize(m.node_id))

MergeCommandACK(m, from) ==
  [m EXCEPT !.status = Over(@, from.status, FALSE),
            !.command = Over(@, from.command, 0),
            !.ack_message = Over(@, from.ack_message, ""),
            !.node_id = Over(@, from.node_id, 0)]
-----------------------------------------------------------------------------
(* class HeartBeat                                                         *)
NewHeartBeat == [type |-> "HeartBeat", status |-> FALSE]

ParseHeartBeat(m, f) ==
  IF f.tag = 8 THEN Store(m, "status", ReadBool(f)) ELSE Unusual(m, f)

SerializeHeartBeat(m) == EmitBool(8, m.status)

SizeHeartBeat(m) == SizeIf(m.status, 1)

MergeHeartBeat(m, from) == [m EXCEPT !.status = Over(@, from.status, FALSE)]
-----------------------------------------------------------------------------
(* class PushACK                                                           *)
NewPushACK == [type |-> "PushACK", status |-> FALSE, ack_message |-> "", node_id |-> 0]

(* Mutant: node_id is looked for under the tag CommandACK has it.          *)
ParsePushACKWrongTag(m, f) ==
  CASE f.tag = 8  -> Store(m, "status", ReadBool(f))
    [] f.tag = 18 -> Store(m, "ack_message", ReadString(f))
    [] f.tag = 32 -> Store(m, "node_id", ReadUInt32(f))
    [] OTHER      -> Unusual(m, f)

ParsePushACK(m, f) ==
  CASE f.tag = 8  -> Store(m, "status", ReadBool(f))
    [] f.tag = 18 -> Store(m, "ack_message", ReadString(f))
    [] f.tag = 24 -> Store(m, "node_id", ReadUInt32(f))
    [] OTHER      -> Unusual(m, f)

SerializePushACK(m) ==
  EmitBool(8, m.status) \o EmitString(18, m.ack_message) \o Emit(24, m.node_id)

SizePushACK(m) ==
  SizeIf(m.status, 1) + SizeIf(m.ack_message # "", StringSize(m.ack_message))
    + SizeIf(m.node_id # 0, VarintSize(m.node_id))

MergePushACK(m, from) ==
  [m EXCEPT !.status = Over(@, from.status, FALSE),
            !.ack_message = Over(@, from.ack_message, ""),
            !.node_id = Over(@, from.node_id, 0)]
-----------------------------------------------------------------------------
(* class Return_NodeInfo                                                   *)
NewNodeInfo == [type |-> "NodeInfo", node_id |-> 0, node_msg |-> ""]

ParseNodeInfo(m, f) ==
  CASE f.tag = 8  -> Store(m, "node_id", ReadUInt32(f))
    [] f.tag = 18 -> Store(m, "node_msg", ReadString(f))
    [] OTHER      -> Unusual(m, f)

SerializeNodeInfo(m) == Emit(8, m.node_id) \o EmitString(18, m.node_msg)

SizeNodeInfo(m) ==
  SizeIf(m.node_id # 0, VarintSize(m.node_id))
    + SizeIf(m.node_msg # "", StringSize(m.node_msg))

MergeNodeInfo(m, from) ==
  [m EXCEPT !.node_id = Over(@, from.node_id, 0), !.node_msg = Over(@, from.node_msg, "")]
-----------------------------------------------------------------------------
(* class Return, with the repeated and nested node_info                    *)
NewReturn == [type |-> "Return", client_num |-> 0, client_ok_num |-> 0,
              command |-> 0, node_info |-> <<>>]

ReadNodeInfo(fields) ==
  FoldLeft(LAMBDA infos, f : UNION {ParseNodeInfo(info, f) : info \in infos},
           {NewNodeInfo}, fields)

ParseReturn(m, f) ==
  CASE f.tag = 8  -> Store(m, "client_num", ReadUInt32(f))
    [] f.tag = 16 -> Store(m, "client_ok_num", ReadUInt32(f))
    [] f.tag = 24 -> Store(m, "command", ReadEnum(f))
    [] f.tag = NodeInfoTag -> Store(m, "node_info", {Append(m.node_info, info) :
                                                            info \in ReadNodeInfo(f.val)})
    [] OTHER      -> Unusual(m, f)

SerializeReturn(m) ==
  Emit(8, m.client_num) \o Emit(16, m.client_ok_num) \o Emit(24, m.command)
    \o [i \in 1..Len(m.node_info) |-> Field(NodeInfoTag, SerializeNodeInfo(m.node_info[i]))]

SizeReturn(m) ==
  SizeIf(m.client_num # 0, VarintSize(m.client_num))
    + SizeIf(m.client_ok_num # 0, VarintSize(m.client_ok_num))
    + SizeIf(m.command # 0, VarintSize(m.command))
    + Total([i \in DOMAIN m.node_info |->
               LET size == SizeNodeInfo(m.node_info[i]) IN 1 + VarintSize(size) + size])

MergeReturn(m, from) ==
  [m EXCEPT !.node_info = @ \o from.node_info,
            !.client_num = Over(@, from.client_num, 0),
            !.client_ok_num = Over(@, from.client_ok_num, 0),
            !.command = Over(@, from.command, 0)]
-----------------------------------------------------------------------------
(* The virtual functions of a message, by its class.                       *)

(* The classes of a whole message.  createMessage finds any generated type *)
(* by its name, also Return.NodeInfo and protobuf's own, for which nothing *)
(* is registered, so that they would end in onUnknownMsg; no program sends *)
(* one by itself.                                                          *)
Prototypes == {NewCommand, NewFile, NewCommandACK, NewHeartBeat, NewPushACK, NewReturn}
TypeNames == {p.type : p \in Prototypes}
New(type) ==
  IF type = "NodeInfo" THEN NewNodeInfo ELSE CHOOSE p \in Prototypes : p.type = type

Turn(type, m, f) ==
  CASE type = "Command"    -> ParseCommand(m, f)
    [] type = "File"       -> ParseFile(m, f)
    [] type = "CommandACK" -> ParseCommandACK(m, f)
    [] type = "HeartBeat"  -> ParseHeartBeat(m, f)
    [] type = "PushACK"    -> ParsePushACK(m, f)
    [] type = "NodeInfo"   -> ParseNodeInfo(m, f)
    [] type = "Return"     -> ParseReturn(m, f)

Parse(type, fields) ==
  FoldLeft(LAMBDA ms, f : UNION {Turn(type, m, f) : m \in ms}, {New(type)}, fields)

Serialize(m) ==
  CASE m.type = "Command"    -> SerializeCommand(m)
    [] m.type = "File"       -> SerializeFile(m)
    [] m.type = "CommandACK" -> SerializeCommandACK(m)
    [] m.type = "HeartBeat"  -> SerializeHeartBeat(m)
    [] m.type = "PushACK"    -> SerializePushACK(m)
    [] m.type = "Return"     -> SerializeReturn(m)

ByteSize(m) ==
  CASE m.type = "Command"    -> SizeCommand(m)
    [] m.type = "File"       -> SizeFile(m)
    [] m.type = "CommandACK" -> SizeCommandACK(m)
    [] m.type = "HeartBeat"  -> SizeHeartBeat(m)
    [] m.type = "PushACK"    -> SizePushACK(m)
    [] m.type = "Return"     -> SizeReturn(m)

MergeFrom(m, from) ==
  CASE m.type = "Command"    -> MergeCommand(m, from)
    [] m.type = "File"       -> MergeFile(m, from)
    [] m.type = "CommandACK" -> MergeCommandACK(m, from)
    [] m.type = "HeartBeat"  -> MergeHeartBeat(m, from)
    [] m.type = "PushACK"    -> MergePushACK(m, from)
    [] m.type = "NodeInfo"   -> MergeNodeInfo(m, from)
    [] m.type = "Return"     -> MergeReturn(m, from)

(* The copy constructor: fresh members, then MergeFrom.                    *)
Copy(m) == MergeFrom(New(m.type), m)
=============================================================================
