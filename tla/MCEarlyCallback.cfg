SPECIFICATION FairSpec
CONSTANTS
    u1 = u1
    u2 = u2
    d1 = d1
    d2 = d2
    c1 = c1
    c2 = c2
    c3 = c3
    Nobody = Nobody
    Users = {u1, u2}
    Deposits = {d1}
    Callbacks = {c1}
    UserOf <- MCUserOf
    Amount <- MCAmount
    CheckoutOf <- MCCheckoutOf
    Username <- MCUsername
    WalletSeed = 1000
    MaxFaults = 0
PROPERTY PaidIsCredited
CHECK_DEADLOCK FALSE
