-------------------------------- MODULE MCCodec --------------------------------
(***************************************************************************)
(* Every message with the default and another value in every field, alone  *)
(* on the connection and both forwarded and not; and short scripts that    *)
(* mix classes, spoilt frames and classes the receiver does not know.      *)
(***************************************************************************)
EXTENDS lkpCodec

Ints == {0, 1, 255}   \* a varint of one byte, and one of two (node_id -1)
Bits == {0, 1}
Names == {"", "tc"}

Commands == [type : {"Command"}, command : {0, 4}, send_to_all : BOOLEAN,
             testcase : Names \cup NotUtf8, docker_num : Bits, tesetcase_len : Bits,
             node_id : Ints]
Files == [type : {"File"}, file_type : {0, 2}, file_name : Names, patch_len : Bits,
          file_size : Bits, first_patch : BOOLEAN, content : {""} \cup NotUtf8, node_id : Bits]
CommandACKs == [type : {"CommandACK"}, status : BOOLEAN, command : {0, 1},
                ack_message : {"", "err"}, node_id : Ints]
HeartBeats == [type : {"HeartBeat"}, status : BOOLEAN]
PushACKs == [type : {"PushACK"}, status : BOOLEAN, ack_message : {"", "err"}, node_id : Ints]
NodeInfos == [type : {"NodeInfo"}, node_id : {0, 255}, node_msg : {"", "ip"}]
Returns == [type : {"Return"}, client_num : {0, 2}, client_ok_num : Bits, command : {0, 4},
            node_info : {<<>>} \cup {<<a>> : a \in NodeInfos}
                          \cup {<<a, b>> : a, b \in NodeInfos}]

Messages == Commands \cup Files \cup CommandACKs \cup HeartBeats \cup PushACKs \cup Returns

Item(m, forwarded, defect) == [msg |-> m, forwarded |-> forwarded, defect |-> defect]

Beat == [NewHeartBeat EXCEPT !.status = TRUE]
Ack == [NewPushACK EXCEPT !.node_id = 1]
Chunk == [NewFile EXCEPT !.patch_len = 1, !.content = "x"]

(* The second item of a script may be anything, after and before others.   *)
Middle == {Item(m, FALSE, d) : m \in {NewHeartBeat, Ack}, d \in Defects}
            \cup {Item(NewReturn, FALSE, "none"), Item(Chunk, FALSE, "none")}

MCScripts ==
  {<<Item(m, b, "none")>> : m \in Messages, b \in BOOLEAN}
    \cup {<<Item(Beat, FALSE, "none"), x, Item(Ack, FALSE, "none")>> : x \in Middle}

AtServer == {"Command", "File", "CommandACK", "HeartBeat", "PushACK"}
BadNames == {"\\xff"}
=============================================================================
