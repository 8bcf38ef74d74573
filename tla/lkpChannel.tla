------------------------------ MODULE lkpChannel ------------------------------
(***************************************************************************)
(* What the codec promises to the handlers at the receiving end of a       *)
(* connection: they are given the messages in the order in which they were *)
(* sent, each once and unchanged, up to the first one that cannot be       *)
(* accepted, and nothing from there on.                                    *)
(***************************************************************************)
EXTENDS Sequences, Naturals

CONSTANT Acceptable(_)   \* the receiver can accept this item

VARIABLES
  sent,       \* everything sent, in order
  delivered,  \* the messages handed to a handler, in order
  refused     \* an item could not be accepted

Init == sent = <<>> /\ delivered = <<>> /\ refused = FALSE

Send ==
  /\ Len(sent') = Len(sent) + 1 /\ SubSeq(sent', 1, Len(sent)) = sent
  /\ UNCHANGED <<delivered, refused>>

NextItem == sent[Len(delivered) + 1]

Deliver ==
  /\ ~refused /\ Len(delivered) < Len(sent) /\ Acceptable(NextItem)
  /\ delivered' = Append(delivered, NextItem.msg)
  /\ UNCHANGED <<sent, refused>>

Refuse ==
  /\ ~refused /\ Len(delivered) < Len(sent) /\ ~Acceptable(NextItem)
  /\ refused' = TRUE
  /\ UNCHANGED <<sent, delivered>>

Next == Send \/ Deliver \/ Refuse

Spec == Init /\ [][Next]_<<sent, delivered, refused>>
=============================================================================
