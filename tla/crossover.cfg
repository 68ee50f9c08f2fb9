\* A crossing of an indicator over a number, on live snapshots.
SPECIFICATION ScreenSpec
CONSTANTS
    Value = {0, 3, 6}
    Indicator = {"ema9", "rsi14"}
    Operator = {"crosses_above", "crosses_below"}
    NaN = NaN
INVARIANTS
    CrossingsAreSeen
