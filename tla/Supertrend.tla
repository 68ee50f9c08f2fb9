------------------------------ MODULE Supertrend ------------------------------
(***************************************************************************)
(* The supertrend of the stock screener: two bands around the price, of    *)
(* which each is carried from bar to bar until the close is beyond it, and *)
(* a direction that turns when the close crosses the carried band.         *)
(*                                                                         *)
(* Bands are kept doubled, so that the middle of a bar is high + low.  The *)
(* average true range is only known to be large enough: it is the mean of  *)
(* true ranges with weight 2/11 on the newest (span 10), and that one is   *)
(* at least high - low.                                                    *)
(***************************************************************************)
EXTENDS Integers

CONSTANTS
    Level,      \* the prices of a bar
    Reach       \* twice three times the average true range

ASSUME SupertrendAssumption == Level \subseteq Nat /\ Reach \subseteq Nat

VARIABLES
    close,      \* the close of the last bar
    lower,      \* its lower band, as carried
    upper,      \* its upper band, as carried
    direction   \* 1, -1, or 0 as long as it is NaN

trendVars == <<close, lower, upper, direction>>

TrendTypeOK ==
    /\ close \in Level
    /\ lower \in Int
    /\ upper \in Int
    /\ direction \in {-1, 0, 1}

Middle_High(high, low) == 2 * high

-----------------------------------------------------------------------------
Middle(high, low) == high + low

\* reach stands for 6 * atr, and atr >= 2/11 * (high - low).
LongEnough(reach, high, low) == 11 * reach >= 12 * (high - low)

\* A bar whose high and low contain the close, and its bands before carrying.
Bar(high, low, c, reach) == low <= c /\ c <= high /\ LongEnough(reach, high, low)

FirstBar(high, low, c, reach) ==
    /\ Bar(high, low, c, reach)
    /\ close = c
    /\ lower = Middle(high, low) - reach
    /\ upper = Middle(high, low) + reach
    /\ direction = 0

CarryLower_AtTheBand(fresh) == IF fresh > lower \/ 2 * close <= lower THEN fresh ELSE lower

\* The band a bar starts with replaces the carried one if it is the tighter one or
\* the last close was beyond the carried one.
CarryLower(fresh) == IF fresh > lower \/ 2 * close < lower THEN fresh ELSE lower
CarryUpper(fresh) == IF fresh < upper \/ 2 * close > upper THEN fresh ELSE upper

Direction_OfLastClose(c, low, up) ==
    IF 2 * close > up THEN 1 ELSE IF 2 * close < low THEN -1 ELSE direction

Direction(c, low, up) ==
    IF 2 * c > up THEN 1 ELSE IF 2 * c < low THEN -1 ELSE direction

NewBar(high, low, c, reach) ==
    /\ Bar(high, low, c, reach)
    /\ close' = c
    /\ lower' = CarryLower(Middle(high, low) - reach)
    /\ upper' = CarryUpper(Middle(high, low) + reach)
    /\ direction' = Direction(c, lower', upper')

TrendInit ==
    \E high, low, c \in Level, reach \in Reach : FirstBar(high, low, c, reach)

TrendNext ==
    \E high, low, c \in Level, reach \in Reach : NewBar(high, low, c, reach)

TrendSpec == TrendInit /\ [][TrendNext]_trendVars

-----------------------------------------------------------------------------
\* "+1 = bullish (price above supertrend), -1 = bearish": the line that is shown,
\* the lower band of a bullish trend and the upper band of a bearish one, is never
\* on the wrong side of the close.
PriceBesideItsLine ==
    /\ direction = 1 => 2 * close >= lower
    /\ direction = -1 => 2 * close <= upper

\* While a trend lasts its line only moves towards the price.
LineRatchets ==
    [][ /\ direction = 1 /\ direction' = 1 => lower' >= lower
        /\ direction = -1 /\ direction' = -1 => upper' <= upper ]_trendVars

\* A trend ends at the line that was shown on the bar before: a bar's own range
\* cannot end it.
TurnsAtItsLine ==
    [][ /\ direction = 1 /\ direction' = -1 => 2 * close' < lower
        /\ direction = -1 /\ direction' = 1 => 2 * close' > upper ]_trendVars
=============================================================================
