CONSTANTS
    MAXJOBS = 2
    Pids <- MC_Pids2
    Forks = {"fg"}
    Builtins <- MC_BuiltinsFg
    Keys = {"INT", "TSTP"}
SPECIFICATION FairSpec
PROPERTY ForegroundReturns
