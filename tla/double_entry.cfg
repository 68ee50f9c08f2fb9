\* Two webhooks about the same symbol at once, everything up.
SPECIFICATION Spec
CONSTANTS
    a = a
    b = b
    Symbol = {a, b}
    FallbackId = {late}
    None = None
    Trade = {t1, t2}
    Signal = {s1, s2}
    RedisMode = "up"
    DbFaults = FALSE
    Hook = {h1, h2}
    Creator = {}
    Payloads <- OneSymbol
    PriceOutcome <- GoodPrices
    TestSymbols = {}
    SidTries = 2
    MaxInFlight = 2
    Job <- NoJob
    Exiter = {}
    MaxCrashes = 0
SYMMETRY KeySymmetry
INVARIANTS
    OneSignalPerSymbol
\* The requests and the run-once jobs come to an end.
CHECK_DEADLOCK FALSE
