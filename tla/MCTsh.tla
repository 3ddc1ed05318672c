-------------------------------- MODULE MCTsh -------------------------------
(* Constants of the tiny-shell model for TLC.                              *)
EXTENDS Tsh

\* pids far above any jid, as real pids are
MC_Pids2 == {101, 102}
MC_Pids3 == {101, 102, 103}
MC_Pids5 == {101, 102, 103, 104, 105}

\* the user's fg/bg lines: "fg %1", "bg %2", "fg 101", ...
JidBuiltins(n) == [kind : {"fg", "bg"}, byjid : {TRUE}, arg : 1..n]
PidBuiltins(ps) == [kind : {"fg", "bg"}, byjid : {FALSE}, arg : ps]
FgJidBuiltins(n) == [kind : {"fg"}, byjid : {TRUE}, arg : 1..n]

MC_Builtins == JidBuiltins(2)
MC_BuiltinsAll == JidBuiltins(2) \cup PidBuiltins(MC_Pids2)
MC_BuiltinsFg == FgJidBuiltins(2)
MC_NoBuiltins == {}
====
