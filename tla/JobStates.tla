------------------------------ MODULE JobStates ------------------------------
(***************************************************************************)
(* The job states the comment of src/Tiny_Shell/...tsh.c (lines 31-38)    *)
(* promises: a job is FG, BG or ST; it changes state only by               *)
(*     FG -> ST  : ctrl-z                                                  *)
(*     ST -> FG  : fg command                                              *)
(*     ST -> BG  : bg command                                              *)
(*     BG -> FG  : fg command                                              *)
(* and at most one job is FG.  Besides these, a job is created (FG or BG   *)
(* by a command line) and ends (its process exits or is killed).  Jobs are *)
(* named by their pid.                                                      *)
(***************************************************************************)
CONSTANTS Pids

VARIABLE jobs     \* pid -> UNDEF (no job), FG, BG or ST

UNDEF == 0
FG == 1
BG == 2
ST == 3

\* no job other than p is in the foreground
NoOtherFg(p) == \A q \in Pids \ {p} : jobs[q] # FG

\* from -> to, where the comment allows it
Change(p, from, to) ==
    /\ jobs[p] \in from
    /\ to = FG => NoOtherFg(p)
    /\ jobs' = [jobs EXCEPT ![p] = to]

Init == jobs = [p \in Pids |-> UNDEF]

Create(p) == \E s \in {FG, BG} : Change(p, {UNDEF}, s)
CtrlZ(p) == Change(p, {FG}, ST)
FgCmd(p) == Change(p, {ST, BG}, FG)
BgCmd(p) == Change(p, {ST}, BG)
End(p) == Change(p, {FG, BG, ST}, UNDEF)

Next == \E p \in Pids : Create(p) \/ CtrlZ(p) \/ FgCmd(p) \/ BgCmd(p) \/ End(p)

Spec == Init /\ [][Next]_jobs
====
