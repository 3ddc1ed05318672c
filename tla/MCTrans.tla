------------------------------- MODULE MCTrans ------------------------------
(* The sizes the comments of transpose_submit name: 61 x 67, 32 x 32 and   *)
(* 64 x 64 (M x N).                                                        *)
EXTENDS Trans

MC_Sizes == {<<61, 67>>, <<32, 32>>, <<64, 64>>}
====
