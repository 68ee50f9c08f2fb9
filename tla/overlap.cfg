\* Three webhooks of one or two symbols of which two may overlap, with a database that may
\* fail and a restart: how far the duplicate check holds when webhooks overtake one
\* another, and what a symbol is lost by.
SPECIFICATION Spec
CONSTANTS
    a = a
    b = b
    Symbol = {a, b}
    FallbackId = {late}
    None = None
    Trade = {t1, t2}
    Signal = {s1, s2, s3}
    RedisMode = "up"
    DbFaults = TRUE
    Hook = {h1, h2, h3}
    Creator = {}
    Payloads <- UpToTwo
    PriceOutcome <- GoodPrices
    TestSymbols = {a}
    SidTries = 2
    MaxInFlight = 2
    Job <- NoJob
    Exiter = {}
    MaxCrashes = 1
SYMMETRY KeySymmetry
INVARIANTS
    SignalsBoundedByOverlap
PROPERTIES
    LostOnlyUnsaved
\* The requests come to an end.
CHECK_DEADLOCK FALSE
