------------------------------- MODULE MCCommand -------------------------------
(***************************************************************************)
(* Lines of every make, alone and before or after a proper one for the     *)
(* same key, with one set of arguments; every kind of arguments with one   *)
(* file.  Keys have two characters, as few as AnalyseLine needs.           *)
(***************************************************************************)
EXTENDS lkpCommand

CONSTANT Junk

PortKey == <<"p", "p">>
PathKey == <<"s", "s">>
Keys == <<PortKey, PathKey>>
PortKeys == {PortKey}
Digits == [c \in {"1", "7"} |-> IF c = "1" THEN 1 ELSE 7]

PathLine == PathKey \o <<"=", "s">>
PortLine == PortKey \o <<" ", "=", "1", "7", "#", "7">>   \* 17 does not fit, 77 is no int

(* Nothing, part or all of the key, with or without a blank, a # or a =    *)
(* before it, a blank, a = or both after it, and any two characters; or a  *)
(* - and a digit.                                                          *)
Line ==
  {a \o b \o c \o d :
     a \in {<<>>, <<" ">>, <<"#">>, <<"=">>},
     b \in {<<>>, <<"p">>, PortKey},
     c \in {<<>>, <<" ">>, <<"=">>, <<" ", "=", " ">>},
     d \in UNION {[1..n -> {"7", "#", "=", " "}] : n \in 0..2} \cup {<<"-", "7">>}}

Files ==
  {<<PathLine, l>> : l \in Line} \cup {<<l, PathLine, PortLine>> : l \in Line}
    \cup {<<PortLine, l, PathLine>> : l \in Line}

Argv(argc, word, node, docker, ok) ==
  [argc |-> argc, word |-> word, testcase |-> "tc", node |-> node, docker |-> docker,
   path_ok |-> ok]

MCStarts ==
  {[argv |-> Argv(6, "RUN", -1, 0, TRUE), file |-> f] : f \in Files}
    \cup {[argv |-> Argv(argc, word, node, docker, ok), file |-> <<PathLine, PortLine>>] :
            argc \in {5, 6}, word \in {"UPDATE", "RUN", "LIST", "HELP"},
            node \in {-1, 0, 3, Junk}, docker \in {-1, 0, 2, Junk}, ok \in BOOLEAN}

Info(id, msg) == [NewNodeInfo EXCEPT !.node_id = id, !.node_msg = msg]

ReturnOf(command, client_num, rows) ==
  [NewReturn EXCEPT !.command = command, !.client_num = client_num, !.node_info = rows]

TwoRows == <<Info(1, "ip"), Info(0, "")>>

MCReturns ==
  {ReturnOf(4, 2, TwoRows), ReturnOf(4, 1, TwoRows), ReturnOf(4, 2, <<Info(1, "ip")>>),
   ReturnOf(1, 2, TwoRows), ReturnOf(9, 1, <<Info(1, "ip")>>)}

AnyPortValue == {0, 3}
NoNames == {}
=============================================================================
