\* The scheduled and a manual scan of two symbols on one thread, with the batch
\* of the monitor and the single lookup of a webhook; Redis is up.
SPECIFICATION Spec
CONSTANTS
    Scan = {auto, manual}
    Symbol = {x, y}
    Lookup = {monitor, hook}
    Batched = {monitor}
    Slots = 1
    PriceSlots = 1
    Workers = 1
    RedisMode = "up"
INVARIANTS
    NobodyWaitsForNothing
    SlotsAddUp
    QueueBounded
    BareIsBeingDated
PROPERTIES
    ScanEnds
    PriceArrives
