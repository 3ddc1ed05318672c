CONSTANTS
    MAXJOBS = 4
    Pids <- MC_Pids5
    Forks = {"bg"}
    Builtins <- MC_NoBuiltins
    Keys = {}
SPECIFICATION Spec
INVARIANT JidsDistinct
