------------------------------- MODULE MCProxy ------------------------------
(* Constants of the proxy model for TLC.                                   *)
EXTENDS Proxy

CONSTANTS c1, c2

MC_Clients == {c1, c2}
====
