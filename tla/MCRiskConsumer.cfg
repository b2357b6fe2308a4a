SPECIFICATION FairSpec
CONSTANTS
    MaxBets = 3
    MaxFaults = 2
    MaxMoves = 1
INVARIANTS TypeOK CommittedIsAnswered DebitsAreReported NothingUnseen
PROPERTY EveryBetAnswered
CHECK_DEADLOCK FALSE
