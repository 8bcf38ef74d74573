---------------------------- MODULE MCServerConn ----------------------------
(* Node connections are interchangeable, and so are command lines. *)
EXTENDS lkpServerConn, TLC

Symmetry == Permutations(Node) \cup Permutations(Cli)
=============================================================================
