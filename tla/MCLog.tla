------------------------------- MODULE MCLog -------------------------------
(* Buffers of two records and a limit of three buffers: the writer can      *)
(* write one, two or three buffers, and drop.                               *)
EXTENDS lkpLog
=============================================================================
