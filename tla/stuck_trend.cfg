\* One scan again and again, with a Redis of which any call may fail.
SPECIFICATION Spec
CONSTANTS
    Scan = {auto}
    Symbol = {x}
    Lookup = {hook}
    Batched = {}
    Slots = 1
    PriceSlots = 1
    Workers = 1
    RedisMode = "flaky"
PROPERTIES
    TrendLapses
