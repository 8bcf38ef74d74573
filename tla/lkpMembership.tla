---------------------------- MODULE lkpMembership ----------------------------
(***************************************************************************)
(* What the server promises about the list of client nodes, without IDs,   *)
(* entries or buckets: a node is listed from the moment it connects; it    *)
(* leaves the list only when its connection closed or it timed out, and    *)
(* then it does leave, unless the server process stops.                    *)
(***************************************************************************)
CONSTANT Node

VARIABLES
  phase,   \* "new" before the connection, "member" while it is up, then "gone"
  listed,  \* the nodes commands are sent to
  stopped  \* the server process has ended

TypeOK ==
  /\ phase \in [Node -> {"new", "member", "gone"}]
  /\ listed \subseteq Node
  /\ stopped \in BOOLEAN

Init ==
  /\ phase = [c \in Node |-> "new"]
  /\ listed = {}
  /\ stopped = FALSE

Join(c) ==
  /\ ~stopped /\ phase[c] = "new"
  /\ phase' = [phase EXCEPT ![c] = "member"]
  /\ listed' = listed \cup {c}
  /\ UNCHANGED stopped

(* The members in leaving are lost; some nodes that are gone, these or     *)
(* earlier ones, leave the list.                                           *)
Lose(leaving) ==
  /\ ~stopped
  /\ \A c \in leaving : phase[c] = "member"
  /\ phase' = [c \in Node |-> IF c \in leaving THEN "gone" ELSE phase[c]]
  /\ listed' \subseteq listed
  /\ \A c \in listed \ listed' : phase'[c] = "gone"
  /\ UNCHANGED stopped

Stop == ~stopped /\ stopped' = TRUE /\ UNCHANGED <<phase, listed>>

Next ==
  \/ \E c \in Node : Join(c)
  \/ \E leaving \in SUBSET Node : Lose(leaving)
  \/ Stop

Safety == Init /\ [][Next]_<<phase, listed, stopped>>

GoneIsUnlisted ==
  \A c \in Node : (phase[c] = "gone" /\ c \in listed) ~> (c \notin listed \/ stopped)

Spec == Safety /\ GoneIsUnlisted
=============================================================================
