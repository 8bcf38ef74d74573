------------------------------- MODULE lkpCodec -------------------------------
(***************************************************************************)
(* One direction of a connection: messages are put into frames             *)
(* (fillEmptyBuffer), TCP delivers the bytes in pieces of any size, and    *)
(* onMessage takes complete frames out of the input buffer, checks and     *)
(* parses them and hands the messages to the dispatcher.                   *)
(*                                                                         *)
(* The peer sends the items of a script.  An item says how its frame is    *)
(* spoilt, if it is: the checks in onMessage and parse are for peers that  *)
(* are not one of our programs, or another version of them.                *)
(***************************************************************************)
EXTENDS lkpProto

CONSTANTS
  kHeaderLen,     \* bytes of an int32_t in a frame
  kMaxMessageLen,
  NameLen,        \* bytes of a type name with its NUL
  Scripts,        \* the sequences of items a peer may send
  Registered      \* the message classes the receiver has a callback for

ASSUME CodecAssumption ==
  /\ {kHeaderLen, NameLen, kMaxMessageLen} \subseteq Nat
  /\ kHeaderLen >= 1 /\ NameLen >= 2

VARIABLES
  script,     \* what the peer is going to send
  sent,       \* what it has sent
  stream,     \* frames sent and not yet retrieved by the receiver
  readable,   \* bytes of them that are in the receiver's input buffer
  looping,    \* onMessage is running
  conn,       \* the receiver's end of the connection
  errorCode,  \* the first error onMessage reported
  delivered,  \* the messages given to the dispatcher
  aborted     \* ByteSizeConsistencyError ended the sender

vars == <<script, sent, stream, readable, looping, conn, errorCode, delivered, aborted>>

kMinMessageLen == 2 * kHeaderLen + 2

Defects == {"none", "newer", "length", "checksum", "nameLen", "type", "payload"}
ErrorCodes == {"kNoError", "kInvalidLength", "kCheckSumError", "kInvalidNameLen",
               "kUnknownMessageType", "kParseError"}

TypeOK ==
  /\ readable \in Nat /\ looping \in BOOLEAN /\ aborted \in BOOLEAN
  /\ conn \in {"connected", "shutdown", "closed"}
  /\ errorCode \in ErrorCodes
  /\ \A i \in 1..Len(stream) : stream[i].len \in Nat /\ stream[i].type \in TypeNames \cup {"Other"}
  /\ \A i \in 1..Len(delivered) : delivered[i].type \in TypeNames

Init ==
  /\ script \in Scripts
  /\ sent = <<>> /\ stream = <<>> /\ readable = 0
  /\ looping = FALSE
  /\ conn = "connected"
  /\ errorCode = "kNoError"
  /\ delivered = <<>>
  /\ aborted = FALSE
-----------------------------------------------------------------------------
(* fillEmptyBuffer.  The checksum covers everything from nameLen to the    *)
(* payload; adler32 is taken to tell any two of these apart.               *)
CheckSum(frame) == <<frame.nameLen, frame.type, frame.fields>>

Frame(m) ==
  LET body == [nameLen |-> NameLen, type |-> m.type, fields |-> Serialize(m)]
      len == kHeaderLen + NameLen + ByteSize(m) + kHeaderLen
  IN  [len |-> len, nameLen |-> body.nameLen, type |-> body.type, fields |-> body.fields,
       checkSum |-> CheckSum(body), size |-> kHeaderLen + len]

ByteSizeConsistent(m) == Bytes(Serialize(m)) = ByteSize(m)

(* How a frame may arrive that fillEmptyBuffer would not make: from a newer *)
(* version with a field more, damaged, or with contents that do not fit.    *)
Unknown15 == Field(15 * 8, 1)
Resum(frame) == [frame EXCEPT !.checkSum = CheckSum(frame)]

Spoil(frame, defect) ==
  CASE defect = "none"     -> frame
    [] defect = "newer"    -> Resum([frame EXCEPT !.fields = @ \o <<Unknown15>>, !.len = @ + 2,
                                                  !.size = @ + 2])
    [] defect = "length"   -> [frame EXCEPT !.len = kMinMessageLen - 1]
    [] defect = "checksum" -> [frame EXCEPT !.checkSum = <<>>]
    [] defect = "nameLen"  -> Resum([frame EXCEPT !.nameLen = frame.len])
    [] defect = "type"     -> Resum([frame EXCEPT !.type = "Other"])
    [] defect = "payload"  -> Resum([frame EXCEPT !.fields = <<Field(EndGroup, 0)>> \o @])

(* codec_.send.  A message that is forwarded was passed by value before.   *)
Send ==
  LET item == script[Len(sent) + 1]
      m == IF item.forwarded THEN Copy(item.msg) ELSE item.msg
  IN  /\ conn # "closed" /\ ~aborted /\ Len(sent) < Len(script)
      /\ IF ByteSizeConsistent(m)
           THEN /\ sent' = Append(sent, item)
                /\ stream' = Append(stream, Spoil(Frame(m), item.defect))
                /\ UNCHANGED aborted
           ELSE /\ aborted' = TRUE
                /\ UNCHANGED <<sent, stream>>
      /\ UNCHANGED <<script, readable, looping, conn, errorCode, delivered>>

InTransit == Total([i \in DOMAIN stream |-> stream[i].size]) - readable

(* TCP brings the next n bytes, and muduo calls onMessage.                 *)
Receive(n) ==
  /\ conn # "closed" /\ ~looping /\ n \in 1..InTransit
  /\ readable' = readable + n
  /\ looping' = TRUE
  /\ UNCHANGED <<script, sent, stream, conn, errorCode, delivered, aborted>>
-----------------------------------------------------------------------------
(* parse: the first check that fails.                                      *)
ParseError(frame) ==
  IF frame.checkSum # CheckSum(frame) THEN "kCheckSumError"
  ELSE IF ~(2 <= frame.nameLen /\ frame.nameLen <= frame.len - 2 * kHeaderLen)
    THEN "kInvalidNameLen"
  ELSE IF frame.type \notin TypeNames THEN "kUnknownMessageType"
  ELSE IF Parse(frame.type, frame.fields) = {} THEN "kParseError"
  ELSE "kNoError"

LengthInvalid(frame) == frame.len > kMaxMessageLen \/ frame.len < kMinMessageLen

(* Mutants: the header is not counted; one byte more is waited for.        *)
HeadOfBufferTooEarly ==
  IF readable < kMinMessageLen + kHeaderLen THEN "more"
  ELSE LET frame == Head(stream)
       IN  IF LengthInvalid(frame) THEN "kInvalidLength"
           ELSE IF readable < frame.len THEN "more"
           ELSE ParseError(frame)

HeadOfBufferTooLate ==
  IF readable < kMinMessageLen + kHeaderLen THEN "more"
  ELSE LET frame == Head(stream)
       IN  IF LengthInvalid(frame) THEN "kInvalidLength"
           ELSE IF readable <= frame.len + kHeaderLen THEN "more"
           ELSE ParseError(frame)

(* What the loop finds at the head of the input buffer: the code of an     *)
(* error, "kNoError" for a good frame, "more" if it has to wait.           *)
HeadOfBuffer ==
  IF readable < kMinMessageLen + kHeaderLen THEN "more"
  ELSE LET frame == Head(stream)
       IN  IF LengthInvalid(frame) THEN "kInvalidLength"
           ELSE IF readable < frame.len + kHeaderLen THEN "more"
           ELSE ParseError(frame)

(* lkpDispatcher::onProtobufMessage: the callback of the class, or the     *)
(* default one, onUnknownMsg, which shuts the connection down.             *)
Dispatch(m) ==
  /\ delivered' = Append(delivered, m)
  /\ conn' = IF m.type \notin Registered /\ conn = "connected" THEN "shutdown" ELSE conn

(* Mutant: one frame is handled per call; the rest waits for more bytes.   *)
HandleFrameAndReturn ==
  LET frame == Head(stream)
  IN  /\ looping /\ HeadOfBuffer = "kNoError"
      /\ \E m \in Parse(frame.type, frame.fields) : Dispatch(m)
      /\ stream' = Tail(stream)
      /\ readable' = readable - (kHeaderLen + frame.len)
      /\ looping' = FALSE
      /\ UNCHANGED <<script, sent, errorCode, aborted>>

HandleFrame ==
  LET frame == Head(stream)
  IN  /\ looping /\ HeadOfBuffer = "kNoError"
      /\ \E m \in Parse(frame.type, frame.fields) : Dispatch(m)
      /\ stream' = Tail(stream)
      /\ readable' = readable - (kHeaderLen + frame.len)
      /\ UNCHANGED <<script, sent, looping, errorCode, aborted>>

(* Mutants: a frame that cannot be accepted is skipped; the connection is  *)
(* left open.                                                              *)
ReportErrorAndSkip ==
  /\ looping /\ HeadOfBuffer \notin {"kNoError", "more"}
  /\ errorCode' = IF errorCode = "kNoError" THEN HeadOfBuffer ELSE errorCode
  /\ conn' = IF conn = "connected" THEN "shutdown" ELSE conn
  /\ readable' = IF readable > Head(stream).size THEN readable - Head(stream).size ELSE 0
  /\ stream' = Tail(stream)
  /\ UNCHANGED <<script, sent, looping, delivered, aborted>>

ReportErrorNoShutdown ==
  /\ looping /\ HeadOfBuffer \notin {"kNoError", "more"}
  /\ errorCode' = IF errorCode = "kNoError" THEN HeadOfBuffer ELSE errorCode
  /\ looping' = FALSE
  /\ UNCHANGED <<script, sent, stream, readable, conn, delivered, aborted>>

(* defaultErrorCallback, then break: the frame stays in the buffer.        *)
ReportError ==
  /\ looping /\ HeadOfBuffer \notin {"kNoError", "more"}
  /\ errorCode' = IF errorCode = "kNoError" THEN HeadOfBuffer ELSE errorCode
  /\ conn' = IF conn = "connected" THEN "shutdown" ELSE conn
  /\ looping' = FALSE
  /\ UNCHANGED <<script, sent, stream, readable, delivered, aborted>>

WaitForMore ==
  /\ looping /\ HeadOfBuffer = "more"
  /\ looping' = FALSE
  /\ UNCHANGED <<script, sent, stream, readable, conn, errorCode, delivered, aborted>>

(* The peer sees the shutdown and closes.                                  *)
Closed ==
  /\ ~looping /\ conn = "shutdown"
  /\ conn' = "closed"
  /\ UNCHANGED <<script, sent, stream, readable, looping, errorCode, delivered, aborted>>

(* The connection breaks, with whatever was in transit.                    *)
Break ==
  /\ ~looping /\ conn = "connected"
  /\ conn' = "closed"
  /\ UNCHANGED <<script, sent, stream, readable, looping, errorCode, delivered, aborted>>

Next ==
  \/ Send
  \/ \E n \in 1..InTransit : Receive(n)
  \/ HandleFrame \/ ReportError \/ WaitForMore
  \/ Closed \/ Break

(* The event loops run on: what is in transit arrives, onMessage goes on,  *)
(* a peer answers a shutdown by closing.                                   *)
Fairness ==
  /\ WF_vars(\E n \in 1..InTransit : Receive(n))
  /\ WF_vars(HandleFrame) /\ WF_vars(ReportError) /\ WF_vars(WaitForMore)
  /\ WF_vars(Closed)

Spec == Init /\ [][Next]_vars /\ Fairness
-----------------------------------------------------------------------------
(* The receiver can accept what one of our programs sends, also one with   *)
(* more fields, as long as the strings are UTF-8 (bytes fields need not).  *)
Strings(m) ==
  CASE m.type = "Command" -> {m.testcase}
    [] m.type = "File" -> {m.file_name}
    [] m.type \in {"CommandACK", "PushACK"} -> {m.ack_message}
    [] m.type = "HeartBeat" -> {}
    [] m.type = "Return" -> {m.node_info[i].node_msg : i \in 1..Len(m.node_info)}

WellFormed(item) ==
  item.defect \in {"none", "newer"} /\ Strings(item.msg) \cap NotUtf8 = {}

(* A script is made of messages of our classes, whose texts have a length, *)
(* and whose frames are no longer than the receiver allows, 64 MB: a chunk *)
(* of a file is 64 KB, and a Return would need millions of nodes.          *)
Contents(m) == Strings(m) \cup IF m.type = "File" THEN {m.content} ELSE {}

ASSUME ScriptsAssumption ==
  \A s \in Scripts :
    /\ s \in Seq([msg : Message, forwarded : BOOLEAN, defect : Defects])
    /\ \A i \in DOMAIN s :
         /\ \A text \in Contents(s[i].msg) : Len(text) \in Nat
         /\ 2 * kHeaderLen + NameLen + ByteSize(s[i].msg) + 2 <= kMaxMessageLen

Channel == INSTANCE lkpChannel
             WITH Acceptable <- WellFormed, refused <- errorCode # "kNoError"

(* However TCP cuts the stream, the handlers are given the messages that   *)
(* were sent, in order, whole, each once, up to the first frame that is    *)
(* not acceptable (lkpCodec.cc:127-159).                                   *)
ImplementsChannel == Channel!Spec

(* ByteSize agrees with what is written for every message, so the sender   *)
(* is never ended by ByteSizeConsistencyError (lkpCodec.cc:48-55).         *)
SizesAgree == ~aborted

(* When onMessage has returned, no acceptable frame is left complete at    *)
(* the head of the buffer: nothing would handle it until more bytes come,  *)
(* and they may never come (lkpCodec.cc:131).                              *)
NothingLeftBehind == ~looping => HeadOfBuffer # "kNoError"

(* A frame that was refused is never handled later, nor is anything after  *)
(* it, although it stays in the buffer and every arrival of bytes makes    *)
(* onMessage look at it again (lkpCodec.cc:148-152).                       *)
ErrorIsFinal == [][errorCode # "kNoError" => delivered' = delivered /\ errorCode' = errorCode]_vars

(* Every message is handled in the end, unless the connection ends or a    *)
(* frame before it was refused.                                            *)
MessagesArrive ==
  \A k \in 1..3 :
    (Len(sent) >= k) ~> (Len(delivered) >= k \/ conn = "closed" \/ errorCode # "kNoError")

(* A refused frame ends the connection (lkpCodec.cc:114-117).              *)
RefusalCloses == (errorCode # "kNoError") ~> (conn = "closed")
=============================================================================
