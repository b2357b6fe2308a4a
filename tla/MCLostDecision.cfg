SPECIFICATION Spec
CONSTANTS
    MaxBets = 2
    MaxFaults = 1
    MaxMoves = 0
INVARIANT OffsetsFollowResults
CHECK_DEADLOCK FALSE
