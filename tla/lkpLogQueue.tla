---------------------------- MODULE lkpLogQueue ----------------------------
(***************************************************************************)
(* What the asynchronous log promises: a queue that hands records to the   *)
(* file in the order in which they were appended, each once, all of them   *)
(* in the end.  It loses records only when at least Backlog are queued,    *)
(* and then keeps the Kept oldest of those it considers.                   *)
(***************************************************************************)
EXTENDS Naturals, Sequences

CONSTANTS Backlog, Kept

VARIABLES
  count,  \* records appended so far, which are numbered from 1
  queue,  \* records that are neither in the file nor lost
  file

Init == count = 0 /\ queue = <<>> /\ file = <<>>

Put ==
  /\ count' = count + 1
  /\ queue' = Append(queue, count')
  /\ UNCHANGED file

Take ==
  \E k \in 1..Len(queue) :
    /\ file' = file \o SubSeq(queue, 1, k)
    /\ queue' = SubSeq(queue, k + 1, Len(queue))
    /\ UNCHANGED count

Lose ==
  \E n \in Backlog..Len(queue) :
    /\ queue' = SubSeq(queue, 1, Kept) \o SubSeq(queue, n + 1, Len(queue))
    /\ UNCHANGED <<count, file>>

Next == Put \/ Take \/ Lose

Safety == Init /\ [][Next]_<<count, queue, file>>

Spec == Safety /\ WF_<<count, queue, file>>(Take)
=============================================================================
