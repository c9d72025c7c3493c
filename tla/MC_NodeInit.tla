---------------------------- MODULE MC_NodeInit ----------------------------
(* Instances of NodeInit for TLC.                                          *)
EXTENDS NodeInit, TLC

SymUuids == Permutations(Uuids)
=============================================================================
