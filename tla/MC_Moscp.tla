----------------------------- MODULE MC_Moscp -----------------------------
(* Small instances of Moscp: one or two ids, requests in every order.      *)
EXTENDS Moscp
====
