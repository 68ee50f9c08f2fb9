----------------------------- MODULE MarketProofs -----------------------------
(***************************************************************************)
(* Theorems about what the program makes of the market: the indicators and *)
(* conditions of the stock screener and the trend gate of the EMA scanner, *)
(* for all prices, ranges and samples, and its clocks, for every minute of *)
(* every week and not only for those that a run passes through.            *)
(***************************************************************************)
EXTENDS Supertrend, MarketTrend, Screener, MarketClock, TLAPS

-----------------------------------------------------------------------------
\* Supertrend.

\* What the bars preserve.
TrendInv == TrendTypeOK /\ PriceBesideItsLine

LEMMA FirstBarInv == TrendInit => TrendInv
  BY SupertrendAssumption
     DEF TrendInit, FirstBar, Bar, LongEnough, Middle, TrendInv, TrendTypeOK,
         PriceBesideItsLine

\* A bar's own bands contain it: the average true range is large enough.
LEMMA BandsContainBar ==
  ASSUME NEW high \in Nat, NEW low \in Nat, NEW c \in Nat, NEW reach \in Nat,
         Bar(high, low, c, reach)
  PROVE  /\ Middle(high, low) - reach \in Int /\ Middle(high, low) - reach <= 2 * c
         /\ Middle(high, low) + reach \in Int /\ Middle(high, low) + reach >= 2 * c
  BY DEF Bar, LongEnough, Middle

\* The close of a new bar is never beyond both of its bands: of two bands that are both
\* carried, the close before was inside.
LEMMA CloseBeyondOneBand ==
  ASSUME TrendTypeOK, NEW high \in Level, NEW low \in Level, NEW c \in Level,
         NEW reach \in Reach, NewBar(high, low, c, reach)
  PROVE  /\ lower' \in Int /\ upper' \in Int
         /\ 2 * c > upper' => 2 * c >= lower' /\ upper' = upper
         /\ 2 * c < lower' => 2 * c <= upper' /\ lower' = lower
  <1>1. high \in Nat /\ low \in Nat /\ c \in Nat /\ reach \in Nat
    BY SupertrendAssumption
  <1>2. close \in Nat /\ lower \in Int /\ upper \in Int
    BY SupertrendAssumption DEF TrendTypeOK
  <1> DEFINE down == Middle(high, low) - reach
             up == Middle(high, low) + reach
  <1>3. down \in Int /\ up \in Int /\ down <= 2 * c /\ up >= 2 * c
    BY <1>1, BandsContainBar DEF NewBar
  <1>4. lower' = CarryLower(down) /\ upper' = CarryUpper(up)
    BY DEF NewBar
  <1> HIDE DEF down, up
  <1>5. lower' = down \/ (lower' = lower /\ 2 * close >= lower)
    BY <1>2, <1>3, <1>4 DEF CarryLower
  <1>6. upper' = up \/ (upper' = upper /\ 2 * close <= upper)
    BY <1>2, <1>3, <1>4 DEF CarryUpper
  <1> QED BY <1>1, <1>2, <1>3, <1>5, <1>6

LEMMA NewBarInv ==
  ASSUME TrendTypeOK, NEW high \in Level, NEW low \in Level, NEW c \in Level,
         NEW reach \in Reach, NewBar(high, low, c, reach)
  PROVE  TrendInv'
  <1>1. c \in Nat /\ lower' \in Int /\ upper' \in Int
    BY SupertrendAssumption, CloseBeyondOneBand
  <1>2. TrendTypeOK'
    BY <1>1 DEF NewBar, Direction, TrendTypeOK
  <1>3. /\ 2 * c > upper' => 2 * c >= lower'
        /\ 2 * c < lower' => 2 * c <= upper'
    BY CloseBeyondOneBand
  <1>4. close' = c /\ direction' = Direction(c, lower', upper')
    BY DEF NewBar
  <1>5. PriceBesideItsLine'
    BY <1>1, <1>3, <1>4 DEF Direction, PriceBesideItsLine
  <1> QED BY <1>2, <1>5 DEF TrendInv

LEMMA TrendInvHolds == TrendSpec => []TrendInv
  <1>1. TrendInv /\ [TrendNext]_trendVars => TrendInv'
    <2> SUFFICES ASSUME TrendInv, [TrendNext]_trendVars PROVE TrendInv'
      OBVIOUS
    <2>1. CASE TrendNext
      BY <2>1, NewBarInv DEF TrendNext, TrendInv
    <2>2. CASE UNCHANGED trendVars
      BY <2>2 DEF trendVars, TrendInv, TrendTypeOK, PriceBesideItsLine
    <2> QED BY <2>1, <2>2
  <1> QED BY FirstBarInv, <1>1, PTL DEF TrendSpec

\* The line that is shown is never on the wrong side of the close (_supertrend: "+1 =
\* bullish (price above supertrend)"), whatever the prices and the ranges.
THEOREM LineBesidePrice == TrendSpec => []PriceBesideItsLine
  BY TrendInvHolds, PTL DEF TrendInv

\* While a trend lasts its line only moves towards the price: the lower band is carried
\* until the close is below it, and a bullish close is not.
THEOREM LineNeverRetreats == TrendSpec => LineRatchets
  <1>1. TrendInv /\ [TrendNext]_trendVars
          => [ /\ direction = 1 /\ direction' = 1 => lower' >= lower
               /\ direction = -1 /\ direction' = -1 => upper' <= upper ]_trendVars
    <2> SUFFICES ASSUME TrendInv, NEW high \in Level, NEW low \in Level, NEW c \in Level,
                        NEW reach \in Reach, NewBar(high, low, c, reach)
                 PROVE  /\ direction = 1 => lower' >= lower
                        /\ direction = -1 => upper' <= upper
      BY DEF TrendNext
    <2>1. high \in Nat /\ low \in Nat /\ reach \in Nat /\ close \in Nat
      BY SupertrendAssumption DEF TrendInv, TrendTypeOK
    <2>2. lower \in Int /\ upper \in Int
      BY DEF TrendInv, TrendTypeOK
    <2>3. direction = 1 => 2 * close >= lower
      BY DEF TrendInv, PriceBesideItsLine
    <2>4. direction = -1 => 2 * close <= upper
      BY DEF TrendInv, PriceBesideItsLine
    <2> QED BY <2>1, <2>2, <2>3, <2>4 DEF NewBar, CarryLower, CarryUpper, Middle
  <1> QED BY TrendInvHolds, <1>1, PTL DEF TrendSpec, LineRatchets

\* A trend ends only by a close beyond the line shown on the bar before: a band that a
\* bar brings along contains it.
THEOREM TrendEndsAtItsLine == TrendSpec => TurnsAtItsLine
  <1>1. TrendInv /\ [TrendNext]_trendVars
          => [ /\ direction = 1 /\ direction' = -1 => 2 * close' < lower
               /\ direction = -1 /\ direction' = 1 => 2 * close' > upper ]_trendVars
    <2> SUFFICES ASSUME TrendInv, NEW high \in Level, NEW low \in Level, NEW c \in Level,
                        NEW reach \in Reach, NewBar(high, low, c, reach)
                 PROVE  /\ direction = 1 /\ direction' = -1 => 2 * close' < lower
                        /\ direction = -1 /\ direction' = 1 => 2 * close' > upper
      BY DEF TrendNext
    <2>1. /\ 2 * c > upper' => upper' = upper
          /\ 2 * c < lower' => lower' = lower
      BY CloseBeyondOneBand DEF TrendInv
    <2>2. close' = c /\ direction' = Direction(c, lower', upper')
      BY DEF NewBar
    <2> QED BY <2>1, <2>2 DEF Direction
  <1> QED BY TrendInvHolds, <1>1, PTL DEF TrendSpec, TurnsAtItsLine

-----------------------------------------------------------------------------
\* The trend of the market.

LEMMA CountTypeHolds == CountSpec => []CountTypeOK
  <1>1. CountInit => CountTypeOK
    BY DEF CountInit, CountTypeOK
  <1>2. CountTypeOK /\ [CountNext]_countVars => CountTypeOK'
    BY DEF CountTypeOK, CountNext, Advance, Decline, Rest, countVars
  <1> QED BY <1>1, <1>2, PTL DEF CountSpec

\* An advance never silences BUY or lets SELL in and a decline never the opposite
\* (_fetch_ad_trend_sync and the gate of run_ema_scanner), for every size of the sample.
THEOREM GateFollowsTheCount == CountSpec => TrendFollowsTheCount
  <1> DEFINE was == Shown(Trend(adv, dec))
             is == Shown(Trend(adv', dec'))
  <1>1. CountTypeOK /\ [CountNext]_countVars
          => [ /\ dec' = dec => (("BUY" \in was => "BUY" \in is) /\ ("SELL" \in is => "SELL" \in was))
               /\ adv' = adv => (("SELL" \in was => "SELL" \in is) /\ ("BUY" \in is => "BUY" \in was))
             ]_countVars
    <2> SUFFICES ASSUME CountTypeOK, CountNext
                 PROVE  /\ dec' = dec => (("BUY" \in was => "BUY" \in is) /\ ("SELL" \in is => "SELL" \in was))
                        /\ adv' = adv => (("SELL" \in was => "SELL" \in is) /\ ("BUY" \in is => "BUY" \in was))
      OBVIOUS
    <2>1. CASE Advance
      BY <2>1 DEF Advance, CountTypeOK, Trend, Shown
    <2>2. CASE Decline
      BY <2>2 DEF Decline, CountTypeOK, Trend, Shown
    <2>3. CASE Rest
      BY <2>3 DEF Rest, CountTypeOK, Trend, Shown
    <2> QED BY <2>1, <2>2, <2>3 DEF CountNext
  <1> QED BY CountTypeHolds, <1>1, PTL DEF CountSpec, TrendFollowsTheCount

-----------------------------------------------------------------------------
\* Conditions.

LEMMA ScreenTypeHolds == ScreenSpec => []ScreenTypeOK
  <1>1. ScreenInit => ScreenTypeOK
    BY DEF ScreenInit, ScreenTypeOK
  <1>2. ScreenTypeOK /\ [NextBar]_screenVars => ScreenTypeOK'
    BY DEF ScreenTypeOK, NextBar, screenVars
  <1> QED BY <1>1, <1>2, PTL DEF ScreenSpec

\* Rounding keeps the order, and values a digit apart stay apart.
LEMMA RoundKeepsOrder ==
  ASSUME NEW x \in Nat, NEW y \in Nat
  PROVE  /\ Round(x) \in Int /\ Round(y) \in Int
         /\ x <= y => Round(x) <= Round(y)
         /\ x + 3 <= y => Round(x) < Round(y)
         /\ Round(x) < Round(y) => x < y
         /\ Round(x) <= Round(y) => x - y < 3
  <1> DEFINE a == (x + 1) \div 3
             b == (y + 1) \div 3
  <1>1. /\ a \in Int /\ 3 * a <= x + 1 /\ x + 1 < 3 * a + 3
        /\ b \in Int /\ 3 * b <= y + 1 /\ y + 1 < 3 * b + 3
    OBVIOUS
  <1>2. Round(x) = 3 * a /\ Round(y) = 3 * b
    BY DEF Round
  <1> HIDE DEF a, b
  <1> QED BY <1>1, <1>2

\* What a reader's snapshot shows of a value that is there.
LEMMA ShowKeepsOrder ==
  ASSUME ScreenTypeOK, NEW x \in Nat, NEW y \in Nat
  PROVE  /\ Show(x) \in Int /\ Show(y) \in Int
         /\ x <= y => Show(x) <= Show(y)
         /\ x + Grain <= y => Show(x) < Show(y)
         /\ Show(x) < Show(y) => x < y
         /\ Show(x) <= Show(y) => x - y < Grain
  <1>1. x # NaN /\ y # NaN
    BY ScreenerAssumption
  <1>2. CASE reader = "screener"
    BY <1>1, <1>2, RoundKeepsOrder DEF Show, Grain
  <1>3. CASE reader = "backtest"
    BY <1>1, <1>3 DEF Show, Grain
  <1> QED BY <1>2, <1>3 DEF ScreenTypeOK, Readers

\* Where the snapshot tells of both sides where they were, it is the bar before that is
\* compared.
LEMMA ToldIsBefore ==
  ASSUME ScreenTypeOK, Told, ~Missing, condition.operator \in Crossing, Known
  PROVE  Evaluate <=> Crosses(condition.operator, Show(before.lhs), Show(before.rhs),
                              Show(bar.lhs), Show(bar.rhs))
  <1>1. /\ bar.lhs \in Nat /\ bar.rhs \in Nat /\ before.lhs \in Nat /\ before.rhs \in Nat
        /\ bar.lhs # NaN /\ bar.rhs # NaN /\ before.lhs # NaN /\ before.rhs # NaN
    BY ScreenerAssumption DEF ScreenTypeOK, Sides, Missing
  <1>2. \A x \in Nat : Show(x) \in Int /\ Show(x) # NaN
    <2> SUFFICES ASSUME NEW x \in Nat PROVE Show(x) \in Nat
      BY ScreenerAssumption
    <2>1. Round(x) \in Nat
      BY DEF Round
    <2> QED BY <2>1, ScreenerAssumption DEF Show
  <1>3. \A x, last : x # NaN => Recall(x, last) = Show(x)
    BY DEF Recall
  <1>4. (IF condition.lhs \in Previous THEN Recall(before.lhs, bar.lhs) ELSE Show(bar.lhs))
          = Show(before.lhs)
    BY <1>1, <1>3 DEF Told
  <1>5. (IF condition.rhs \in Previous /\ ~condition.cased
         THEN Recall(before.rhs, bar.rhs) ELSE Show(bar.rhs)) = Show(before.rhs)
    BY <1>1, <1>3 DEF Told
  <1>6. condition.lhs \in Keys /\ condition.rhs \in Keys \cup {Number}
    BY DEF Known, OnNumber
  <1>7. \A l, r : ~Holds(condition.operator, l, r)
    BY DEF Holds, Crossing
  <1>8. NaN \notin {Show(bar.lhs), Show(bar.rhs)}
    BY <1>1, <1>2
  <1> QED BY <1>4, <1>5, <1>6, <1>7, <1>8 DEF Evaluate

\* A missing value among those that are told leaves the live screener nothing to
\* compare.
LEMMA MissingIsSilent ==
  ASSUME ScreenTypeOK, Told, Missing, condition.operator \in Crossing, reader = "screener"
  PROVE  ~Evaluate
  <1>1. Show(NaN) = NaN /\ \A x, last : Recall(x, last) = Show(x)
    BY DEF Show, Recall
  <1>2. \A l, r : ~Holds(condition.operator, l, r)
    BY DEF Holds, Crossing
  <1>3. CASE NaN \in {bar.lhs, bar.rhs}
    BY <1>1, <1>3 DEF Evaluate
  <1>4. CASE before.lhs = NaN /\ NaN \notin {bar.lhs, bar.rhs}
    BY <1>1, <1>2, <1>4 DEF Evaluate, Crosses, Told
  <1>5. CASE before.rhs = NaN /\ NaN \notin {bar.lhs, bar.rhs}
    BY <1>1, <1>2, <1>5 DEF Evaluate, Crosses, Told
  <1> QED BY <1>3, <1>4, <1>5 DEF Missing

\* Where both sides' bar before is in the snapshot, or the side has not moved, the
\* crossings reported are those of the definition in _evaluate_condition: exactly in a
\* backtest, up to a digit by the live screener, none by it where a value is missing.
\* A moving side that the snapshot does not recall is excepted.
THEOREM ReportedCrossingsAreReal == ScreenSpec => []CrossingsAreReal
  <1>1. ASSUME ScreenTypeOK, condition.operator \in Crossing, Known, Told, ~Missing
        PROVE  /\ Evaluate => Beyond(before) < Grain /\ Beyond(bar) > 0
               /\ Beyond(before) <= 0 /\ Beyond(bar) >= Grain => Evaluate
    <2>1. /\ bar.lhs \in Nat /\ bar.rhs \in Nat /\ before.lhs \in Nat /\ before.rhs \in Nat
      BY <1>1, ScreenerAssumption DEF ScreenTypeOK, Sides, Missing
    <2>2. \A x \in Nat : Show(x) # NaN
      <3> SUFFICES ASSUME NEW x \in Nat PROVE Show(x) \in Nat
        BY ScreenerAssumption
      <3>1. Round(x) \in Nat
        BY DEF Round
      <3> QED BY <3>1, ScreenerAssumption DEF Show
    <2>3. Grain \in Nat
      BY DEF Grain
    <2> DEFINE pl == before.lhs
               pr == before.rhs
               l == bar.lhs
               r == bar.rhs
    <2>4. CASE condition.operator = "crosses_above"
      <3>1. Evaluate <=> Show(pl) <= Show(pr) /\ Show(l) > Show(r)
        BY <1>1, <2>1, <2>2, <2>4, ToldIsBefore DEF Crosses
      <3>2. Beyond(before) = pl - pr /\ Beyond(bar) = l - r
        BY <2>4 DEF Beyond
      <3>3. /\ Show(pl) <= Show(pr) => pl - pr < Grain
            /\ pl <= pr => Show(pl) <= Show(pr)
        BY <1>1, <2>1, ShowKeepsOrder
      <3>4. /\ Show(r) \in Int /\ Show(l) \in Int
            /\ Show(r) < Show(l) => r < l
            /\ r + Grain <= l => Show(r) < Show(l)
        BY <1>1, <2>1, ShowKeepsOrder
      <3> QED BY <2>1, <2>3, <3>1, <3>2, <3>3, <3>4
    <2>5. CASE condition.operator = "crosses_below"
      <3>1. Evaluate <=> Show(pl) >= Show(pr) /\ Show(l) < Show(r)
        BY <1>1, <2>1, <2>2, <2>5, ToldIsBefore DEF Crosses
      <3>2. Beyond(before) = pr - pl /\ Beyond(bar) = r - l
        BY <2>5 DEF Beyond
      <3>3. /\ Show(pr) \in Int /\ Show(pl) \in Int
            /\ Show(pr) <= Show(pl) => pr - pl < Grain
            /\ pr <= pl => Show(pr) <= Show(pl)
        BY <1>1, <2>1, ShowKeepsOrder
      <3>4. /\ Show(l) < Show(r) => l < r
            /\ l + Grain <= r => Show(l) < Show(r)
        BY <1>1, <2>1, ShowKeepsOrder
      <3> QED BY <2>1, <2>3, <3>1, <3>2, <3>3, <3>4
    <2> QED BY <1>1, <2>4, <2>5 DEF Crossing
  <1>2. ScreenTypeOK => CrossingsAreReal
    BY <1>1, MissingIsSilent DEF CrossingsAreReal
  <1> QED BY ScreenTypeHolds, <1>2, PTL

\* A crossing for which the snapshot has the bar before of neither side, or has that of
\* the right side only and under another spelling.
NothingToRecall ==
  /\ condition.operator \in Crossing
  /\ condition.lhs \notin Previous
  /\ condition.rhs \notin Previous \/ condition.cased

\* Such a crossing is never reported: RSI crossing 30 is not found by the live screener
\* nor the average of 20 bars crossing that of 50 by either reader, whatever the values
\* (the "_prev_" keys of _fetch_and_compute and backtest_screener and the fall-back of
\* _evaluate_condition to the last bar).
THEOREM SilentWithoutThePrevious == ScreenSpec => [](NothingToRecall => ~Evaluate)
  <1>1. ASSUME ScreenTypeOK, NothingToRecall PROVE ~Evaluate
    <2> DEFINE left == Show(bar.lhs)
               right == Show(bar.rhs)
    <2>1. Evaluate => NaN \notin {left, right} /\ Crosses(condition.operator, left, right, left, right)
      BY <1>1 DEF NothingToRecall, Evaluate, Holds, Crossing
    <2>2. \A x \in Value \cup {NaN} : Show(x) = NaN \/ Show(x) \in Int
      <3> SUFFICES ASSUME NEW x \in Value, x # NaN PROVE Show(x) \in Int
        BY DEF Show
      <3> QED BY <1>1, ShowKeepsOrder, ScreenerAssumption
    <2>3. bar.lhs \in Value \cup {NaN} /\ bar.rhs \in Value \cup {NaN}
      BY <1>1 DEF ScreenTypeOK, Sides
    <2>4. (left = NaN \/ left \in Int) /\ (right = NaN \/ right \in Int)
      BY <2>2, <2>3
    <2> HIDE DEF left, right
    <2> QED BY <2>1, <2>4 DEF Crosses
  <1>2. ScreenTypeOK => (NothingToRecall => ~Evaluate)
    BY <1>1
  <1> QED BY ScreenTypeHolds, <1>2, PTL

-----------------------------------------------------------------------------
\* The clocks.

LEMMA ClockTypeHolds == ClockSpec => []ClockTypeOK
  <1>1. ClockInit => ClockTypeOK
    BY ClockAssumption DEF ClockInit, ClockTypeOK, Minute
  <1>2. ClockTypeOK /\ [Tick]_now => ClockTypeOK'
    BY ClockAssumption DEF Tick, ClockTypeOK, Minute
  <1> QED BY <1>1, <1>2, PTL DEF ClockSpec

\* Division by the minutes of a day.
LEMMA DayOfMinute ==
  ASSUME NEW m \in Nat
  PROVE  /\ m \div Day \in Nat /\ m % Day \in 0 .. Day - 1
         /\ m = Day * (m \div Day) + (m % Day)
  BY DEF Day

\* The minute and the date in India, from those of UTC.
LEMMA IndiaFromUtc ==
  ASSUME NEW m \in Nat
  PROVE  LET mins == (m % Day) + 330
         IN  IF mins >= Day
             THEN IstMinute(m) = mins - Day /\ IstDate(m) = UtcDate(m) + 1
             ELSE IstMinute(m) = mins /\ IstDate(m) = UtcDate(m)
  BY DEF IstMinute, IstDate, UtcDate, Day

LEMMA NextWeekday ==
  ASSUME NEW d \in Nat
  PROVE  /\ (Weekday(d) + 1) % 7 = Weekday(d + 1)
         /\ Weekday(d) % 7 = Weekday(d) /\ Weekday(d) \in 0 .. 6
  BY DEF Weekday

\* is_market_open_ist, which computes on UTC, is the hours of the zone and their last
\* minute.
LEMMA RiskOpenInIndia ==
  ASSUME NEW m \in Nat
  PROVE  RiskOpen(m) <=>
            Weekday(IstDate(m)) <= 4 /\ 555 <= IstMinute(m) /\ IstMinute(m) <= 930
  <1> DEFINE mins == (m % Day) + 330
  <1>1. /\ UtcDate(m) \in Nat /\ mins \in 330 .. Day + 329
    BY DayOfMinute DEF UtcDate, Day
  <1>2. CASE mins >= Day
    <2>1. mins % Day = mins - Day
      BY <1>1, <1>2 DEF Day
    <2>2. (Weekday(UtcDate(m)) + 1) % 7 = Weekday(UtcDate(m) + 1)
      BY <1>1, NextWeekday
    <2> QED BY <1>2, <2>1, <2>2, IndiaFromUtc DEF RiskOpen
  <1>3. CASE mins < Day
    <2>1. mins % Day = mins
      BY <1>1, <1>3 DEF Day
    <2>2. (Weekday(UtcDate(m)) + 0) % 7 = Weekday(UtcDate(m))
      BY <1>1, NextWeekday
    <2> QED BY <1>1, <1>3, <2>1, <2>2, IndiaFromUtc DEF RiskOpen, Day
  <1> QED BY <1>1, <1>2, <1>3 DEF Day

\* The two implementations of the market's hours differ in the minute 15:30 only, on
\* every day (risk_engine.is_market_open_ist, scheduler._is_market_hours).
THEOREM ClocksAgree == ClockSpec => []ClocksDifferAtTheClose
  <1>1. ClockTypeOK => ClocksDifferAtTheClose
    <2> SUFFICES ASSUME ClockTypeOK PROVE ClocksDifferAtTheClose
      OBVIOUS
    <2>1. now \in Nat
      BY ClockAssumption DEF ClockTypeOK, Minute
    <2>2. IstMinute(now) \in Nat /\ Weekday(IstDate(now)) \in 0 .. 6
      BY <2>1 DEF IstMinute, IstDate, Weekday, Day
    <2> QED
      BY <2>1, <2>2, RiskOpenInIndia
         DEF ClocksDifferAtTheClose, SchedulerOpen, SummaryFires, HoursMinutes
  <1> QED BY ClockTypeHolds, <1>1, PTL

\* A minute in which the market is open, or that lies in the rest of the working day, is
\* of the same date in UTC and in India.
LEMMA SameDate ==
  ASSUME NEW m \in Nat, 330 <= IstMinute(m)
  PROVE  /\ Today(m) = IstDate(m)
         /\ m = Day * Today(m) + IstMinute(m) - 330
  BY DayOfMinute, IndiaFromUtc DEF Today, UtcDate, Day

\* The keys, numbers and totals that are named by the date of the process are those of
\* the trading day, and the mark of a symbol outlives the trading day it was made on
\* (receive_webhook's today_key and expireat, eod_summary).
THEOREM OneDatePerTradingDay == ClockSpec => []OneTradingDate
  <1>1. ClockTypeOK => OneTradingDate
    <2> SUFFICES ASSUME ClockTypeOK, RiskOpen(now) \/ ForceExitFires(now) \/ SummaryFires(now)
                 PROVE  /\ Today(now) = IstDate(now)
                        /\ \A m \in now .. now + 400 :
                              RiskOpen(m) /\ IstDate(m) = IstDate(now) => m <= MarkLapses(now)
      BY DEF OneTradingDate
    <2>1. now \in Nat
      BY ClockAssumption DEF ClockTypeOK, Minute
    <2>2. 330 <= IstMinute(now)
      <3>1. IstMinute(now) \in Nat
        BY <2>1 DEF IstMinute, Day
      <3>2. RiskOpen(now) => 555 <= IstMinute(now)
        BY <2>1, RiskOpenInIndia
      <3> QED BY <3>1, <3>2 DEF ForceExitFires, SummaryFires, HoursMinutes
    <2>3. Today(now) = IstDate(now) /\ Today(now) \in Nat
      BY <2>1, <2>2, SameDate, DayOfMinute DEF Today, UtcDate
    <2>4. ASSUME NEW m \in now .. now + 400, RiskOpen(m), IstDate(m) = IstDate(now)
          PROVE  m <= MarkLapses(now)
      <3>1. m \in Nat
        BY <2>1
      <3>2. 555 <= IstMinute(m) /\ IstMinute(m) <= 930 /\ IstMinute(m) \in Nat
        BY <2>4, <3>1, RiskOpenInIndia DEF IstMinute, Day
      <3>3. m = Day * Today(now) + IstMinute(m) - 330
        BY <2>3, <2>4, <3>1, <3>2, SameDate
      <3> QED BY <2>3, <3>2, <3>3 DEF MarkLapses, Today, HoursMinutes, Day
    <2> QED BY <2>3, <2>4
  <1> QED BY ClockTypeHolds, <1>1, PTL

\* The Sunday cleanup deletes the key of every minute of trading since the cleanup
\* before, although it counts days back on the Indian date (weekly_cleanup, step 5).
THEOREM NoKeySurvivesTheWeek == ClockSpec => []CleanupReachesTheWeek
  <1>1. ClockTypeOK => CleanupReachesTheWeek
    <2> SUFFICES ASSUME ClockTypeOK, CleanupFires(now), NEW m \in Minute,
                        now - 7 * Day <= m, m <= now, RiskOpen(m)
                 PROVE  MarkedUnder(m) \in Cleared(now)
      BY DEF CleanupReachesTheWeek
    <2>1. now \in Nat /\ m \in Nat
      BY ClockAssumption DEF ClockTypeOK, Minute
    <2>2. IstMinute(now) = 1380 /\ Weekday(IstDate(now)) = 6
      BY DEF CleanupFires, HoursMinutes
    <2>3. /\ 555 <= IstMinute(m) /\ IstMinute(m) <= 930 /\ IstMinute(m) \in Nat
          /\ Weekday(IstDate(m)) <= 4
      BY <2>1, RiskOpenInIndia DEF IstMinute, Day
    <2>4. /\ Today(now) = IstDate(now) /\ Today(m) = IstDate(m)
          /\ Today(now) \in Nat /\ Today(m) \in Nat
          /\ now = Day * Today(now) + 1050
          /\ m = Day * Today(m) + IstMinute(m) - 330
      BY <2>1, <2>2, <2>3, SameDate, DayOfMinute DEF Today, UtcDate
    <2>5. Today(now) - 7 <= Today(m) /\ Today(m) <= Today(now)
      BY <2>3, <2>4 DEF Day
    <2>6. Today(m) # Today(now) - 7
      <3>1. \A d \in Nat : d >= 7 /\ Weekday(d) = 6 => Weekday(d - 7) = 6
        BY DEF Weekday
      <3> QED BY <2>2, <2>3, <2>4, <3>1
    <2>7. \E i \in 0 .. 6 : Today(m) = Today(now) - i
      <3>1. Today(now) - Today(m) \in 0 .. 6
        BY <2>4, <2>5, <2>6
      <3> QED BY <2>4, <3>1
    <2> QED BY <2>4, <2>7 DEF MarkedUnder, Cleared
  <1> QED BY ClockTypeHolds, <1>1, PTL
=============================================================================
