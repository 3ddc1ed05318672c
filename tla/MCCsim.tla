------------------------------- MODULE MCCsim ------------------------------
(* Constants of the cache-simulator model for TLC: 4-bit addresses, one    *)
(* set bit and one block bit, so tags are two bits.                        *)
EXTENDS Csim

\* set 0: tags 0, 1, 2, 3 (0 and 1 are the same block); set 1: tag 0
MC_Addrs == {0, 1, 4, 8, 12, 2}
====
