SPECIFICATION Spec
CONSTANTS
    w1 = w1
    w2 = w2
    r1 = r1
    r2 = r2
    u1 = u1
    u2 = u2
    u3 = u3
    k1 = k1
    k2 = k2
    k3 = k3
    k4 = k4
    m1 = m1
    m2 = m2
    home = home
    away = away
    Nobody = Nobody
    Users = {u1, u2, u3}
    Username <- UsernameOf
    WalletSeed = 10
    Selections = {home, away}
    Workers = {w1, w2}
    Requests = {r1}
    Keys = {k1, k2}
    Matches = {m1}
    Topics <- WorkerTopics
    MaxBatch = 2
    MaxFaults = 2
    MaxMoves = 1
SYMMETRY Symmetry
INVARIANTS TypeOK BooksBalance OneMovementPerBet NoOverdraft CommittedIsCovered
PROPERTY ImplementsBook
CHECK_DEADLOCK FALSE
