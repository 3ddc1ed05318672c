\* Each of the two registered functions on each of the three sizes.
CONSTANTS
    Sizes <- MC_Sizes
    Funcs = {"submit", "trans"}
    Undef = Undef
SPECIFICATION FairSpec
INVARIANTS
    TypeOK
    TransposeOnReturn
    NoUninitRead
\* A transpose returns: the last state of each call has no successor.
PROPERTY
    Returns
CHECK_DEADLOCK FALSE
