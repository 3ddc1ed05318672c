\* The root alone, -n 2: the root's send loop leaves i = num_procs.
CONSTANTS
    NumProcs = 1
    Iterations = 2
    MaxRounds = 4
SPECIFICATION FairSpec
INVARIANT
    IterationsBounded
CHECK_DEADLOCK FALSE
