------------------------------- MODULE lkpLog -------------------------------
(***************************************************************************)
(* The asynchronous log, the same code in lkpServer and lkpClient: append, *)
(* called by any thread that logs, fills a current and a spare buffer and  *)
(* a list of full ones under mutex_; the thread threadFunc swaps the list  *)
(* for its own two buffers under mutex_, writes outside of it, and makes   *)
(* its next two buffers from what it has written.                          *)
(*                                                                         *)
(* Code under mutex_ is one action.  A log record is its number; a buffer  *)
(* is the sequence of records in it, and a moved-from pointer is NoBuffer. *)
(* A failed assert ends the process: no step of threadFunc is possible.    *)
(* Only a destructor that main does not reach sets running_ to FALSE.      *)
(***************************************************************************)
EXTENDS SequencesExt

CONSTANTS
  Capacity,    \* records that fit in a buffer (4000 KB in muduo)
  MaxBuffers,  \* buffers the writer writes without dropping any (25)
  MaxRecords,  \* bound: records appended
  NoBuffer     \* a null BufferPtr

ASSUME CapacityAssumption == Capacity \in Nat \ {0}
ASSUME MaxBuffersAssumption == MaxBuffers \in Nat /\ MaxBuffers >= 2
ASSUME NoBufferAssumption == NoBuffer \notin Seq(Nat)

VARIABLES
  currentBuffer_, nextBuffer_, buffers_,    \* guarded by mutex_
  newBuffer1, newBuffer2, buffersToWrite,   \* local to threadFunc
  state,    \* where threadFunc is
  written,  \* how many of buffersToWrite its for loop has written
  file,     \* records given to LogFile, in order
  logged    \* records appended

frontVars == <<currentBuffer_, nextBuffer_, buffers_, logged>>
spareVars == <<newBuffer1, newBuffer2>>
vars == <<frontVars, spareVars, buffersToWrite, state, written, file>>

Buffer == Seq(Nat)

TypeOK ==
  /\ currentBuffer_ \in Buffer /\ Len(currentBuffer_) <= Capacity
  /\ nextBuffer_ \in {<<>>, NoBuffer}
  /\ newBuffer1 \in {<<>>, NoBuffer} /\ newBuffer2 \in {<<>>, NoBuffer}
  /\ buffers_ \in Seq(Buffer) /\ buffersToWrite \in Seq(Buffer)
  /\ state \in {"loop", "waiting", "swapped", "writing"}
  /\ written \in 0..Len(buffersToWrite)
  /\ file \in Seq(Nat) /\ logged \in Nat

Init ==
  /\ currentBuffer_ = <<>> /\ nextBuffer_ = <<>> /\ buffers_ = <<>>
  /\ newBuffer1 = <<>> /\ newBuffer2 = <<>> /\ buffersToWrite = <<>>
  /\ state = "loop" /\ written = 0 /\ file = <<>> /\ logged = 0

-----------------------------------------------------------------------------
HasRoomInclusive == Len(currentBuffer_) <= Capacity
HasRoom == Len(currentBuffer_) < Capacity

(* The spare buffer, or a new one when there is none. *)
FreshBuffer == IF nextBuffer_ = NoBuffer THEN <<>> ELSE nextBuffer_

append ==
  /\ logged < MaxRecords
  /\ logged' = logged + 1
  /\ \/ /\ HasRoom
        /\ currentBuffer_' = Append(currentBuffer_, logged')
        /\ UNCHANGED <<nextBuffer_, buffers_>>
     \/ /\ ~HasRoom
        /\ buffers_' = Append(buffers_, currentBuffer_)
        /\ currentBuffer_' = Append(FreshBuffer, logged')
        /\ nextBuffer_' = NoBuffer
  /\ UNCHANGED <<spareVars, buffersToWrite, state, written, file>>

-----------------------------------------------------------------------------
(* The three asserts at the top of the loop. *)
ReadyToSwap == newBuffer1 = <<>> /\ newBuffer2 = <<>> /\ buffersToWrite = <<>>

GiveSpareAlways == nextBuffer_' = newBuffer2 /\ newBuffer2' = NoBuffer

(* The spare buffer is replaced when append has used it. *)
GiveSpare ==
  IF nextBuffer_ = NoBuffer
    THEN nextBuffer_' = newBuffer2 /\ newBuffer2' = NoBuffer
    ELSE UNCHANGED <<nextBuffer_, newBuffer2>>

Swap ==
  /\ buffersToWrite' = Append(buffers_, currentBuffer_)
  /\ buffers_' = buffersToWrite
  /\ currentBuffer_' = newBuffer1
  /\ newBuffer1' = NoBuffer
  /\ GiveSpare
  /\ state' = "swapped"
  /\ UNCHANGED <<logged, written, file>>

SwapFull == state = "loop" /\ ReadyToSwap /\ buffers_ # <<>> /\ Swap

Wait ==
  /\ state = "loop" /\ ReadyToSwap /\ buffers_ = <<>>
  /\ state' = "waiting"
  /\ UNCHANGED <<frontVars, spareVars, buffersToWrite, written, file>>

(* waitForSeconds returns after cond_.notify() or after flushInterval_,    *)
(* and the code does not look at buffers_ again.                           *)
WakeUp == state = "waiting" /\ Swap

KeepNewest(bufs) == SubSeq(bufs, Len(bufs) - 1, Len(bufs))
KeepOldest(bufs) == SubSeq(bufs, 1, 2)

DropExcess ==
  /\ state = "swapped" /\ buffersToWrite # <<>>
  /\ buffersToWrite' = IF Len(buffersToWrite) > MaxBuffers
                         THEN KeepOldest(buffersToWrite) ELSE buffersToWrite
  /\ state' = "writing"
  /\ UNCHANGED <<frontVars, spareVars, written, file>>

WriteBuffer ==
  /\ state = "writing" /\ written < Len(buffersToWrite)
  /\ file' = file \o buffersToWrite[written + 1]
  /\ written' = written + 1
  /\ UNCHANGED <<frontVars, spareVars, buffersToWrite, state>>

-----------------------------------------------------------------------------
(* What resize leaves of the written buffers. *)
Reusable == SubSeq(buffersToWrite, 1, IF Len(buffersToWrite) > 2 THEN 2 ELSE Len(buffersToWrite))

(* How many of the two new buffers have been given away. *)
Missing == (IF newBuffer1 = NoBuffer THEN 1 ELSE 0) + (IF newBuffer2 = NoBuffer THEN 1 ELSE 0)

CanRefill == Missing <= Len(Reusable)

(* FixedBuffer::reset *)
Reset(buf) == <<>>

(* newBuffer1 is refilled from the back, newBuffer2 from what is left.     *)
Recycle ==
  /\ state = "writing" /\ written = Len(buffersToWrite) /\ CanRefill
  /\ newBuffer1' = IF newBuffer1 = NoBuffer THEN Reset(Last(Reusable)) ELSE newBuffer1
  /\ newBuffer2' = IF newBuffer2 = NoBuffer THEN Reset(Reusable[Len(Reusable) + 1 - Missing])
                                          ELSE newBuffer2
  /\ buffersToWrite' = <<>>
  /\ written' = 0
  /\ state' = "loop"
  /\ UNCHANGED <<frontVars, file>>

threadFunc == SwapFull \/ Wait \/ WakeUp \/ DropExcess \/ WriteBuffer \/ Recycle

Next == append \/ threadFunc

(* The wait is timed and the critical sections of append are short, so the *)
(* writer goes on; nothing is assumed of the threads that log.             *)
Spec == Init /\ [][Next]_vars /\ WF_vars(threadFunc)

-----------------------------------------------------------------------------
(* No assert of threadFunc fails: whatever append does while the writer    *)
(* waits or writes, the writer gets back from the list the two buffers it  *)
(* gave away (lkpServer.cc:593-655, lkpClient.cc:437-499).                 *)
AssertsHold ==
  /\ state = "loop" => ReadyToSwap
  /\ state = "swapped" => buffersToWrite # <<>>
  /\ state = "writing" => CanRefill

(* Records that are neither written nor dropped, oldest first. *)
Queued ==
  FlattenSeq(SubSeq(buffersToWrite, written + 1, Len(buffersToWrite)) \o buffers_) \o currentBuffer_

Queue == INSTANCE lkpLogQueue WITH
  Backlog <- MaxBuffers * Capacity, Kept <- 2 * Capacity, count <- logged, queue <- Queued

(* The log is that queue: order, no loss and no repetition below the       *)
(* limit, and every record that is not dropped reaches the file            *)
(* (lkpServer.cc:544-657, lkpClient.cc:388-503).                           *)
ImplementsQueue == Queue!Spec
=============================================================================
