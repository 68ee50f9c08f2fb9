-------------------------------- MODULE Tally --------------------------------
(***************************************************************************)
(* What the dashboard says of the closed trades: get_strategy_metrics for  *)
(* one strategy, get_equity_curve and get_monthly_pnl over all of them,    *)
(* each a loop or a query of its own, in order of exit_time.               *)
(*                                                                         *)
(* One step takes one trade into all of them; of the metrics only a trade  *)
(* of the strategy is part (a trade made by hand may have none).  `curve`  *)
(* and `mine` are history variables: the cumulative P&L after each trade   *)
(* and after each one of the strategy.  Amounts are whole paise; ratios    *)
(* (win rate, profit factor) are left out.                                 *)
(***************************************************************************)
EXTENDS Integers, Sequences

CONSTANTS
    Pnl,        \* net P&L of a trade
    Dates,      \* the dates of exit_time, as numbers
    MonthOf,    \* the month of a date
    MaxTrades   \* bound: closed trades

Months == {MonthOf[d] : d \in Dates}

ASSUME TallyAssumption ==
    /\ Pnl \subseteq Int
    /\ Dates \subseteq Nat
    /\ MonthOf \in [Dates -> Nat]
    /\ \A d, e \in Dates : d <= e => MonthOf[d] <= MonthOf[e]
    /\ MaxTrades \in Nat

VARIABLES
    sums,       \* the running figures of get_strategy_metrics, for one strategy
    monthly,    \* get_monthly_pnl's sum for each month
    cumulative, \* get_equity_curve's running sum ...
    seenDates,  \* ... and its points: a value for some of the dates
    curve,      \* history: <<date, cumulative P&L>> after each trade
    mine,       \* history: the cumulative P&L of the strategy after each trade of its
    day         \* the date of the last trade taken

tallyVars == <<sums, monthly, cumulative, seenDates, curve, mine, day>>

Figures ==
    [total : Nat, winners : Nat, losers : Nat, grossWin : Int, grossLoss : Int,
     cumulative : Int, peak : Int, maxDrawdown : Int]

\* The keys a point was stored under, and its values.
Points == [date : Dates, value : Int]

TallyTypeOK ==
    /\ sums \in Figures
    /\ monthly \in [Months -> Int]
    /\ cumulative \in Int
    /\ seenDates \in SUBSET Points
    /\ curve \in Seq(Points)
    /\ mine \in Seq(Int)
    /\ day \in Nat

-----------------------------------------------------------------------------
Peak_OfGains(level) == IF level > sums.cumulative THEN level ELSE sums.peak

Peak(level) == IF level > sums.peak THEN level ELSE sums.peak

\* get_strategy_metrics: winners and losers, gross win and loss, net P&L, and the
\* largest fall of the cumulative P&L from its peak; the peak starts at 0.
Metrics(pnl) ==
    LET level == sums.cumulative + pnl
        fall == Peak(level) - level
        won == pnl > 0
    IN  [total |-> sums.total + 1,
         winners |-> sums.winners + (IF won THEN 1 ELSE 0),
         losers |-> sums.losers + (IF won THEN 0 ELSE 1),
         grossWin |-> sums.grossWin + (IF won THEN pnl ELSE 0),
         grossLoss |-> sums.grossLoss + (IF won THEN 0 ELSE -pnl),
         cumulative |-> level,
         peak |-> Peak(level),
         maxDrawdown |-> IF fall > sums.maxDrawdown THEN fall ELSE sums.maxDrawdown]

Plotted_FirstWins(d, value) ==
    IF \E p \in seenDates : p.date = d THEN seenDates
    ELSE seenDates \cup {[date |-> d, value |-> value]}

\* get_equity_curve: seen_dates[date_str] = cumulative, the last trade of a day wins.
Plotted(d, value) ==
    {p \in seenDates : p.date # d} \cup {[date |-> d, value |-> value]}

InMonth_LastTrade(d, pnl) == [monthly EXCEPT ![MonthOf[d]] = pnl]

\* get_monthly_pnl groups by the month of exit_time.
InMonth(d, pnl) == [monthly EXCEPT ![MonthOf[d]] = @ + pnl]

\* The next closed trade; `own` says that it is of the strategy asked for.
Take(pnl, d, own) ==
    /\ Len(curve) < MaxTrades
    /\ d >= day
    /\ sums' = IF own THEN Metrics(pnl) ELSE sums
    /\ mine' = IF own THEN Append(mine, sums.cumulative + pnl) ELSE mine
    /\ monthly' = InMonth(d, pnl)
    /\ cumulative' = cumulative + pnl
    /\ seenDates' = Plotted(d, cumulative')
    /\ curve' = Append(curve, [date |-> d, value |-> cumulative'])
    /\ day' = d

TallyInit ==
    /\ sums = [total |-> 0, winners |-> 0, losers |-> 0, grossWin |-> 0, grossLoss |-> 0,
               cumulative |-> 0, peak |-> 0, maxDrawdown |-> 0]
    /\ monthly = [m \in Months |-> 0]
    /\ cumulative = 0
    /\ seenDates = {}
    /\ curve = <<>>
    /\ mine = <<>>
    /\ day = 0

TallyNext == \E pnl \in Pnl, d \in Dates, own \in BOOLEAN : Take(pnl, d, own)

TallySpec == TallyInit /\ [][TallyNext]_tallyVars

-----------------------------------------------------------------------------
\* The cumulative P&L after the first n trades, of all strategies and of the one.
After(n) == IF n = 0 THEN 0 ELSE curve[n].value
Own(n) == IF n = 0 THEN 0 ELSE mine[n]

\* The drawdown shown is the deepest fall of the strategy's cumulative P&L from an
\* earlier level, the start included, to a later one: no fall is deeper and one is as
\* deep.
DrawdownIsDeepestFall ==
    /\ \A j \in 0 .. Len(mine) : \A i \in 0 .. j : Own(i) - Own(j) <= sums.maxDrawdown
    /\ \E j \in 0 .. Len(mine) : \E i \in 0 .. j : Own(i) - Own(j) = sums.maxDrawdown

\* Where a set of points of the equity curve ends; it starts at 0.
End(points) ==
    IF points = {} THEN 0
    ELSE (CHOOSE p \in points : \A q \in points : q.date <= p.date).value

\* The two charts, one a query by month and the other a dictionary by day, agree: the
\* bar of a month is how far the points of the equity curve get in it, from the last
\* point of an earlier month.
BarsFollowThePoints ==
    \A m \in Months :
        monthly[m] = End({p \in seenDates : MonthOf[p.date] <= m})
                       - End({p \in seenDates : MonthOf[p.date] < m})

MonthAt(n) == MonthOf[curve[n].date]

\* The bar of a month is what the trades of that month made, from the last trade before
\* the month to the last one in it.
MonthsAreSlices ==
    \A m \in Months, i \in 0 .. Len(curve) : \A j \in i .. Len(curve) :
        (/\ \A n \in 1 .. i : MonthAt(n) < m
         /\ \A n \in i + 1 .. j : MonthAt(n) = m
         /\ \A n \in j + 1 .. Len(curve) : MonthAt(n) > m)
        => monthly[m] = After(j) - After(i)
=============================================================================
