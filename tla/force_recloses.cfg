\* The minute tick of 15:12:00 and the force exit of 15:12:00, everything up.
SPECIFICATION Spec
CONSTANTS
    a = a
    b = b
    Symbol = {a, b}
    FallbackId = {late}
    None = None
    Trade = {t1, t2}
    Signal = {s1}
    RedisMode = "up"
    DbFaults = FALSE
    Hook = {h1}
    Creator = {}
    Payloads <- OneSymbol
    PriceOutcome <- GoodPrices
    TestSymbols = {}
    SidTries = 2
    MaxInFlight = 1
    Job <- Weekday
    Exiter = {}
    MaxCrashes = 0
SYMMETRY KeySymmetry
PROPERTIES
    ClosedIsFinal
\* The requests and the run-once jobs come to an end.
CHECK_DEADLOCK FALSE
