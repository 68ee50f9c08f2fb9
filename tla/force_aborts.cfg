\* The force exit with a Redis that may refuse a call; the database is up.
SPECIFICATION LiveSpec
CONSTANTS
    a = a
    b = b
    Symbol = {a, b}
    FallbackId = {late}
    None = None
    Trade = {t1, t2}
    Signal = {s1, s2}
    RedisMode = "flaky"
    DbFaults = FALSE
    Hook = {h1}
    Creator = {}
    Payloads <- Batch
    PriceOutcome <- GoodPrices
    TestSymbols = {}
    SidTries = 2
    MaxInFlight = 1
    Job <- Weekday
    Exiter = {}
    MaxCrashes = 0
PROPERTIES
    ForcedOut
\* The requests and the run-once jobs come to an end.
CHECK_DEADLOCK FALSE
