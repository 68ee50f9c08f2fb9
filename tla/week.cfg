\* A webhook and a manual trade against the monitor and the 15:12 force exit, or
\* against the weekly cleanup, a manual exit and a restart; every Redis call and
\* every commit may fail; an admin clears test signals.
SPECIFICATION WeekSpec
CONSTANTS
    a = a
    b = b
    Symbol = {a, b}
    FallbackId = {late}
    None = None
    Trade = {t1, t2}
    Signal = {s1}
    RedisMode = "flaky"
    DbFaults = TRUE
    Hook = {h1}
    Creator = {c1}
    Payloads <- OneSymbol
    PriceOutcome <- AllPrices
    TestSymbols = {a}
    SidTries = 2
    MaxInFlight = 1
    Job <- EveryJob
    Exiter = {e1}
    MaxCrashes = 1
SYMMETRY KeySymmetry
INVARIANTS
    TypeOK
    SignalFollowsTrade
    SweepLeavesNothingOpen
PROPERTIES
    OverwrittenByAnother
    KeepsTheBook
    WipeSparesRead
\* The requests and the run-once jobs come to an end.
CHECK_DEADLOCK FALSE
