CONSTANTS
    s = 1
    b = 1
    E = 3
    AddrBits = 4
    Addrs <- MC_Addrs
    Instrs = {"L", "S", "M"}
    MaxTrace = 7
SPECIFICATION Spec
INVARIANTS
    TypeOK
    MissesFillLines
    FindMinMaxCorrect
\* main ends after the last record of the trace
CHECK_DEADLOCK FALSE
