CONSTANTS
    s = 1
    b = 1
    E = 2
    AddrBits = 4
    Addrs <- MC_Addrs
    Instrs = {"L", "S", "M"}
    MaxTrace = 6
SPECIFICATION Spec
INVARIANT LRUAgrees
CHECK_DEADLOCK FALSE
