---------------------------- MODULE MC_Registry ----------------------------
(* Small instances of Registry: two servers, two key pairs per command,    *)
(* and indexes so narrow that the third command meets their end.           *)
EXTENDS Registry
====
