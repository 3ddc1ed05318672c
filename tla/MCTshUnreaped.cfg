CONSTANTS
    MAXJOBS = 2
    Pids <- MC_Pids2
    Forks = {"fg", "bg"}
    Builtins <- MC_NoBuiltins
    Keys = {"TSTP"}
SPECIFICATION FairSpec
PROPERTY ZombiesReaped
