---------------------------- MODULE lkpClientPool ----------------------------
(***************************************************************************)
(* The server's table of client nodes (class lkpClientPool): which node ID *)
(* stands for which connection, how many IDs were ever handed out, and     *)
(* which of them are free again.  A new node gets the smallest free ID, or *)
(* the next fresh one when none is free.                                   *)
(***************************************************************************)
EXTENDS Integers, Functions

CONSTANT Node   \* the TCP connections opened by client nodes

VARIABLES
  connections_, \* node ID -> connection, for the registered nodes only
  nodeCount_,   \* number of IDs ever handed out
  idleNodeID    \* IDs handed out earlier that are free again

poolVars == <<connections_, nodeCount_, idleNodeID>>

PoolTypeOK ==
  /\ nodeCount_ \in Nat
  /\ idleNodeID \subseteq Nat
  /\ DOMAIN connections_ \subseteq Nat
  /\ connections_ \in [DOMAIN connections_ -> Node]

(* Mutant: the count starts at -1, like the local nodeID of add.           *)
PoolInitAtMinusOne ==
  /\ connections_ = [id \in {} |-> id]
  /\ nodeCount_ = -1
  /\ idleNodeID = {}

PoolInit ==
  /\ connections_ = [id \in {} |-> id]
  /\ nodeCount_ = 0
  /\ idleNodeID = {}

Registered == Range(connections_)

(* Mutants: any idle ID is taken, as if idleNodeID were unordered; an ID   *)
(* that is taken stays idle.                                               *)
IsAnyIdleID(id) == IF idleNodeID = {} THEN id = nodeCount_ ELSE id \in idleNodeID

addKeepsIdle(c, id) ==
  /\ nodeCount_' = IF idleNodeID = {} THEN nodeCount_ + 1 ELSE nodeCount_
  /\ id = (IF idleNodeID = {} THEN nodeCount_ ELSE CHOOSE i \in idleNodeID : TRUE)
  /\ UNCHANGED idleNodeID
  /\ connections_' = [i \in DOMAIN connections_ \cup {id} |->
                        IF i = id THEN c ELSE connections_[i]]

(***************************************************************************)
(* id is the ID that add would return: a fresh one if no ID is idle, else  *)
(* the smallest idle one (idleNodeID is a std::set, begin() its minimum).  *)
(***************************************************************************)
IsNewID(id) ==
  IF idleNodeID = {}
    THEN id = nodeCount_
    ELSE id \in idleNodeID /\ \A other \in idleNodeID : id <= other

add(c, id) ==
  /\ IsNewID(id)
  /\ nodeCount_' = IF idleNodeID = {} THEN nodeCount_ + 1 ELSE nodeCount_
  /\ idleNodeID' = idleNodeID \ {id}
  /\ connections_' = [i \in DOMAIN connections_ \cup {id} |->
                        IF i = id THEN c ELSE connections_[i]]

(* del, called once for every member of ids: the IDs that are not in use   *)
(* are ignored, the others become idle.                                    *)
del(ids) ==
  /\ connections_' = Restrict(connections_, DOMAIN connections_ \ ids)
  /\ idleNodeID' = idleNodeID \cup (ids \cap DOMAIN connections_)
  /\ UNCHANGED nodeCount_

(***************************************************************************)
(* The pool by itself, under any calls: a connection is added once before  *)
(* it is deleted; del may name any ID, in use or not.                      *)
(***************************************************************************)
Join(c) == c \notin Registered /\ \E id \in 0..nodeCount_ : add(c, id)

Leave(id) == del({id})

PoolNext ==
  \/ \E c \in Node : Join(c)
  \/ \E id \in 0..nodeCount_ : Leave(id)

PoolSpec == PoolInit /\ [][PoolNext]_poolVars

(* Every ID below nodeCount_ is either in use or idle, never both, and no  *)
(* other ID is either: add never hands out an ID that is taken, and del    *)
(* loses none (lkpHelper.cc:92-132).                                       *)
IDsPartitioned ==
  /\ DOMAIN connections_ \cup idleNodeID = 0..(nodeCount_ - 1)
  /\ DOMAIN connections_ \cap idleNodeID = {}

(* The smallest free ID is taken first: when a node is registered, every   *)
(* smaller ID is in use.  So IDs stay below the largest number of nodes    *)
(* that were ever registered at once (lkpHelper.cc:97).                    *)
SmallestIDFirst ==
  [][\A id \in DOMAIN connections_' \ DOMAIN connections_ :
        \A lower \in 0..(id - 1) : lower \in DOMAIN connections_]_poolVars

(* A connection is registered under one ID only: a command for another ID  *)
(* never reaches it.                                                       *)
OneIDPerConnection == IsInjective(connections_)
=============================================================================
