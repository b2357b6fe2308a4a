SPECIFICATION FairSpec
CONSTANTS
    t1 = t1
    t2 = t2
    t3 = t3
    acme = acme
    zeta = zeta
    NoBet = NoBet
    Threads = {t1, t2, t3}
    Accounts = {acme, zeta}
    Seeds = {5, 7}
    Bets <- SmallBets
    Cap = 8
    MaxInt = 15
    MaxCalls = 3
INVARIANTS TypeOK FundsConserved NeverNegative QuietBooks ExposureWithinCap
PROPERTIES EvaluationsEnd ImplementsLedger
CHECK_DEADLOCK FALSE
