------------------------------- MODULE Screener -------------------------------
(***************************************************************************)
(* Conditions of the stock screener.  A symbol's last two bars become a    *)
(* snapshot: a value for each indicator the caller knows and, for some,    *)
(* the value of the bar before under "_prev_".  The live screener and the  *)
(* backtest build different snapshots and hand them to the same            *)
(* _evaluate_condition.                                                    *)
(*                                                                         *)
(* A behavior is of one reader and of the bars of its own download: three  *)
(* months of them for the live screener, a year for the backtest.  Most    *)
(* indicators depend on the first bar of the download, so the two may give *)
(* different values for one day and nothing here compares them.            *)
(*                                                                         *)
(* Values are counted in thirds of the second digit, to which the live     *)
(* screener rounds, so that no value is half-way between two; the number   *)
(* in a condition has no further digits and is a side that never moves.    *)
(* Candlestick patterns are left out.                                      *)
(***************************************************************************)
EXTENDS Integers

CONSTANTS
    Value,      \* what an indicator may be, in thirds of its second digit
    Indicator,  \* the indicators conditions are written about
    Operator,   \* the operators they use
    NaN         \* what pandas gives where there are too few bars or prices

\* The snapshot of _fetch_and_compute ...
LiveKeys ==
    {"close", "open", "high", "low", "volume", "ema9", "ema20", "ema50", "ema200",
     "sma20", "sma50", "rsi14", "macd_line", "macd_signal", "macd_hist", "vol_avg20",
     "vol_surge", "bb_upper", "bb_mid", "bb_lower", "atr14", "vwap", "supertrend"}
LivePrevious == {"ema9", "ema20", "ema50", "macd_line", "macd_signal", "close"}

\* ... and of backtest_screener.
BackKeys == (LiveKeys \ {"vwap"}) \cup {"ema13"}
BackPrevious ==
    {"ema9", "ema13", "ema20", "ema50", "ema200", "macd_line", "macd_signal", "rsi14",
     "close"}

Crossing == {"crosses_above", "crosses_below"}
Comparing == {">", ">=", "<", "<=", "=="}
Number == "value"

\* What the live screener rounds to two digits: volumes are cut to whole shares, the
\* MACD has four digits, the supertrend is 1 or -1.
TwoDigits ==
    (LiveKeys \cup BackKeys)
        \ {"volume", "vol_avg20", "macd_line", "macd_signal", "macd_hist", "supertrend"}

ASSUME ScreenerAssumption ==
    /\ Value \subseteq Nat /\ NaN \notin Nat
    /\ Indicator \subseteq TwoDigits
    /\ Operator \subseteq Crossing \cup Comparing

\* A condition compares an indicator with another one or with a number; `cased` says
\* that compare_to was not written in lower case.
Condition ==
    [lhs : Indicator, operator : Operator, rhs : Indicator \cup {Number}, cased : BOOLEAN]

VARIABLES
    reader,     \* who asks, of the bars of its own download
    condition,  \* what is asked
    bar,        \* what both sides' indicators are at the last bar ...
    before      \* ... and at the bar before

screenVars == <<reader, condition, bar, before>>

Readers == {"screener", "backtest"}
Sides == [lhs : Value \cup {NaN}, rhs : Value \cup {NaN}]
OnNumber == condition.rhs = Number

ScreenTypeOK ==
    /\ reader \in Readers /\ condition \in Condition
    /\ bar \in Sides /\ before \in Sides

-----------------------------------------------------------------------------
\* The names in a reader's snapshot, and those it has a "_prev_" of.
Keys == IF reader = "screener" THEN LiveKeys ELSE BackKeys
Previous == IF reader = "screener" THEN LivePrevious ELSE BackPrevious

\* round(x, 2).
Round(x) == 3 * ((x + 1) \div 3)

\* A value in a snapshot: the live screener rounds it and leaves a NaN one, the backtest
\* takes it as it is and puts 0.0 for NaN.
Show(x) ==
    IF reader = "screener"
    THEN IF x = NaN THEN NaN ELSE Round(x)
    ELSE IF x = NaN THEN 0 ELSE x

\* The value of the bar before: for NaN the backtest puts that of the last bar.
Recall(x, last) == IF reader = "backtest" /\ x = NaN THEN Show(last) ELSE Show(x)

\* "==" is less than 0.001 apart, a tenth of the second digit.
Holds(operator, left, right) ==
    \/ operator = ">" /\ left > right
    \/ operator = ">=" /\ left >= right
    \/ operator = "<" /\ left < right
    \/ operator = "<=" /\ left <= right
    \/ operator = "==" /\ left = right

\* The crossings: NaN is neither above nor below anything.
Crosses(operator, prevLeft, prevRight, left, right) ==
    /\ NaN \notin {prevLeft, prevRight}
    /\ \/ operator = "crosses_above" /\ prevLeft <= prevRight /\ left > right
       \/ operator = "crosses_below" /\ prevLeft >= prevRight /\ left < right

Evaluate_PrevOfOneSide ==
    LET left == Show(bar.lhs)
        right == Show(bar.rhs)
        prevLeft == IF condition.lhs \in Previous THEN Recall(before.lhs, bar.lhs) ELSE left
        prevRight == right
    IN  /\ condition.lhs \in Keys
        /\ condition.rhs \in Keys \cup {Number}
        /\ NaN \notin {left, right}
        /\ \/ Crosses(condition.operator, prevLeft, prevRight, left, right)
           \/ Holds(condition.operator, left, right)

\* _evaluate_condition on a reader's snapshot.  Where the snapshot has no previous
\* value, the last bar's stands in for it.  The name in compare_to is put in lower case
\* for the last bar but not for the bar before.
Evaluate ==
    LET left == Show(bar.lhs)
        right == Show(bar.rhs)
        prevLeft == IF condition.lhs \in Previous THEN Recall(before.lhs, bar.lhs) ELSE left
        prevRight == IF condition.rhs \in Previous /\ ~condition.cased
                     THEN Recall(before.rhs, bar.rhs) ELSE right
    IN  /\ condition.lhs \in Keys
        /\ condition.rhs \in Keys \cup {Number}
        /\ NaN \notin {left, right}
        /\ \/ Crosses(condition.operator, prevLeft, prevRight, left, right)
           \/ Holds(condition.operator, left, right)

-----------------------------------------------------------------------------
\* A number is one on both bars, and its spelling is nothing.
ScreenInit ==
    /\ reader \in Readers
    /\ condition \in Condition
    /\ condition.lhs # condition.rhs /\ (OnNumber => ~condition.cased)
    /\ bar \in Sides /\ (OnNumber => bar.rhs \in {x \in Value : x % 3 = 0})
    /\ before = bar

\* The next bar closes.
NextBar ==
    /\ bar' \in Sides /\ (OnNumber => bar'.rhs = bar.rhs)
    /\ before' = bar
    /\ UNCHANGED <<reader, condition>>

ScreenSpec == ScreenInit /\ [][NextBar]_screenVars

-----------------------------------------------------------------------------
\* How far the left side is beyond the right one, in the direction asked for.
Beyond(sides) ==
    IF condition.operator = "crosses_above" THEN sides.lhs - sides.rhs
    ELSE sides.rhs - sides.lhs

\* Values the live screener does not tell apart are less than this from each other.
Grain == IF reader = "screener" THEN 3 ELSE 1

Missing == NaN \in {bar.lhs, bar.rhs, before.lhs, before.rhs}

\* The snapshot says of both sides where they were: it has the bar before or the side
\* has not moved since.
Told ==
    /\ condition.lhs \in Previous \/ before.lhs = bar.lhs
    /\ (condition.rhs \in Previous /\ ~condition.cased) \/ before.rhs = bar.rhs

Known == condition.lhs \in Keys /\ (OnNumber \/ condition.rhs \in Keys)

\* "crosses_above: prev_lhs <= prev_rhs AND lhs > rhs", and the opposite: unless a side
\* has moved whose bar before is not in the snapshot (or is asked for in another
\* spelling), a crossing that is reported has happened and one that has happened is
\* reported, exactly in a backtest and up to a digit by the live screener, which
\* rounds.  Where a value is missing the live screener reports none; the backtest,
\* which puts numbers there, is not bound.
CrossingsAreReal ==
    condition.operator \in Crossing /\ Known /\ Told =>
        IF Missing THEN reader = "screener" => ~Evaluate
        ELSE /\ Evaluate => Beyond(before) < Grain /\ Beyond(bar) > 0
             /\ Beyond(before) <= 0 /\ Beyond(bar) >= Grain => Evaluate

\* The definition in _evaluate_condition, for every indicator of a live snapshot: a
\* crossing by a digit is reported.
CrossingsAreSeen ==
    reader = "screener" /\ condition.operator \in Crossing /\ Known /\ ~condition.cased
      /\ ~Missing /\ Beyond(before) <= 0 /\ Beyond(bar) >= Grain
        => Evaluate
=============================================================================
