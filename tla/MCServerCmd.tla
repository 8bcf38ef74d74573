---------------------------- MODULE MCServerCmd ----------------------------
(* Two nodes, with all connections in one IO loop (ServerThreadsNum 0 or 1) *)
(* or every connection in a loop of its own (the default is 4 threads).     *)
EXTENDS lkpServerCmd

CONSTANTS l0, l1, l2   \* IO loops

NodeIDs == {0, 1}

OneLoop == [n \in NodeIDs |-> l0]
OwnLoops == [n \in NodeIDs |-> IF n = 0 THEN l1 ELSE l2]
=============================================================================
