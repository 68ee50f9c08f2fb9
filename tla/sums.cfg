\* Prices, levels and exits of one trade; two weeks of minutes; bars, conditions, closed
\* trades and a sample of stocks, each on its own.
SPECIFICATION Spec
CONSTANTS
    Price <- Quotes
    Typed = {49, 152}
    MaxMove = 2
    Quantity = {7}
    Capital = 1000000
    Monitors <- Both
    LastMinute = 20159
    Level = {0, 1, 2, 3, 5}
    Reach = {0, 1, 2, 3, 4, 6}
    Value = {0, 2, 3, 4}
    Indicator = {"ema9", "close", "rsi14", "bb_upper", "ema13"}
    Operator = {"crosses_above", "crosses_below"}
    NaN = NaN
    Pnl <- Results
    Dates = {1, 2, 32}
    MonthOf <- ByMonth
    MaxTrades = 4
    Sample = 12
INVARIANTS
    VerdictHasItsSign
    BudgetRespected
    RiskBounded
    ShownLevelsHold
    BookedAsShown
    ClocksDifferAtTheClose
    OneTradingDate
    CleanupReachesTheWeek
    PriceBesideItsLine
    CrossingsAreReal
    DrawdownIsDeepestFall
    BarsFollowThePoints
    MonthsAreSlices
PROPERTIES
    LineRatchets
    TurnsAtItsLine
    TrendFollowsTheCount
\* A closed trade stays as it is, the clock stops at its bound, the loops end.
CHECK_DEADLOCK FALSE
