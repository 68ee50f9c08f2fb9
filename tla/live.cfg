\* Webhooks of one or two symbols, one after the other, the monitor and the force exit,
\* no failures: what the event loop and the scheduler bring about, and what
\* auto-creation gives when no two webhooks overlap.
SPECIFICATION LiveSpec
CONSTANTS
    a = a
    b = b
    Symbol = {a, b}
    FallbackId = {late}
    None = None
    Trade = {t1, t2}
    Signal = {s1, s2}
    RedisMode = "up"
    DbFaults = FALSE
    Hook = {h1, h2}
    Creator = {}
    Payloads <- OneOrTwo
    PriceOutcome <- GoodPrices
    TestSymbols = {}
    SidTries = 2
    MaxInFlight = 1
    Job <- Weekday
    Exiter = {}
    MaxCrashes = 0
INVARIANTS
    SignalGetsTrade
    OpenTradeCached
PROPERTIES
    ForcedOut
    WebhookEnds
\* The requests and the run-once jobs come to an end.
CHECK_DEADLOCK FALSE
