SPECIFICATION MCSpec
CONSTANTS
    b1 = b1
    b2 = b2
    Accounts = {a1, a2}
    Nobody = Nobody
    Views <- MCViews
    NoView = NoView
    Stakes = {0, 10}
    MaxPosts = 3
    MaxTickets = 2
    MaxAuths = 2
    Selections = {k1, k2}
    QueueDepth = 1
    MaxTicks = 2
    MaxFaults = 2
    NoOffset = NoOffset
    MaxPolls = 3
    Bets = {b1, b2}
    DemoBets = {b1, b2}
    MaxFetches = 1
    SampleOf <- MCSampleOf
    MaxTraces = 2
    Pressed <- MCPressed
    SelectionOf <- MCSelectionOf
    MaxSettles = 2
    MaxPanels = 2
    MaxReloads = 2
INVARIANTS FrontendTypeOK DoublePostNeedsLateAnswer TraceIsOfShownTicket CookieIsOfShownAccount ShownTraceIsLastAsked OneSimulation
PROPERTIES FrontendRefines OlderPriceNeedsRewind StreamComesBack DeadStreamIsShown HealthNeverGoesBack
CHECK_DEADLOCK FALSE
