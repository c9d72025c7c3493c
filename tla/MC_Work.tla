------------------------------ MODULE MC_Work ------------------------------
(* A small instance of Work: one transaction file, two command files, and  *)
(* uploads that keep, keep nothing, cannot be read in one of their         *)
(* sections, or are not vouched for.                                       *)
EXTENDS Work

CONSTANTS t1, c1, c2

MCTxFiles == {t1}
MCCmdFiles == {c1, c2}

Sound(keep, txfiles, commands, broken) ==
  [sound |-> TRUE, framed |-> TRUE, keep |-> keep, txs |-> txfiles,
   cmds |-> commands, broken |-> broken]

MCUploads ==
  {Sound(<<>>, <<t1>>, <<c1, c2>>, "none"),
   Sound(<<t1, c1>>, <<t1>>, <<c2>>, "none"),
   Sound(<<c1, Bad, t1>>, <<>>, <<>>, "none"),
   Sound(<<c2>>, <<t1>>, <<c1>>, "cmds"),
   [Sound(<<>>, <<t1>>, <<>>, "txs") EXCEPT !.sound = FALSE],
   [Sound(<<>>, <<>>, <<>>, "none") EXCEPT !.framed = FALSE]}
====
