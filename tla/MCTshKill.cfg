CONSTANTS
    MAXJOBS = 2
    Pids <- MC_Pids2
    Forks = {"fg", "bg"}
    Builtins <- MC_Builtins
    Keys = {"INT", "TSTP"}
SPECIFICATION Spec
INVARIANT NoKillError
