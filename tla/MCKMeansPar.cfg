\* A root and one worker, -n 2.
CONSTANTS
    NumProcs = 2
    Iterations = 2
    MaxRounds = 4
SPECIFICATION FairSpec
PROPERTY
    Terminates
\* The job stops once every rank has finalized or one has ended it.
CHECK_DEADLOCK FALSE
