------------------------------- MODULE MCClient -------------------------------
(* One testcase; files of one chunk, or of two but for result.tar. *)
EXTENDS lkpClient

CONSTANT t1

Files == {t1, "result"}
OneChunk == [f \in Files |-> 1]
TwoChunks == [f \in Files |-> IF f = t1 THEN 2 ELSE 1]
=============================================================================
