--------------------------- MODULE MC_TxMission ---------------------------
(* A small instance of TxMission: two files of one server, of which the    *)
(* second is newer; files of two transactions, with a code inside, just    *)
(* past and far outside the window; a file with a bad entry, one shorter   *)
(* than announced, ones that announce nothing or too much, and one of an   *)
(* unknown id.                                                             *)
EXTENDS TxMission, TLC

CONSTANTS f1, f2

MCFiles == {f1, f2}
MCTime == (f1 :> 1) @@ (f2 :> 2)

File(s, h, n, b) == [head |-> TRUE, server |-> s, hotp |-> h, num |-> n,
                     body |-> b]
TwoWhole == <<"whole", "whole">>

MCContents ==
  {File(1, 1, 2, TwoWhole),
   File(1, 2, 2, TwoWhole),
   File(1, 4, 2, TwoWhole),
   File(1, 1, 2, <<"whole", "bad">>),
   File(1, 1, 2, <<"whole">>),
   File(1, 2, 0, TwoWhole),
   File(1, 9, 0, TwoWhole),
   File(1, 1, 4, TwoWhole),
   File(2, 1, 1, <<"whole">>)}
====
