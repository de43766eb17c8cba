CONSTANTS
    Clients = {c1}
    Routes <- MCRoutes
    RuledRoutes <- MCRuled
    OwnMax = 2
    DefaultMax = 3
    WindowTicks = 4
    TicksPerSecond = 2
SPECIFICATION FairSpec
INVARIANTS
    CountsExactly
    WindowBound
    RetryAfterHonest
PROPERTIES
    AskersServed
CHECK_DEADLOCK FALSE
