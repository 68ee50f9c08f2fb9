-------------------------------- MODULE MCSums --------------------------------
(***************************************************************************)
(* The calculations of the program on small instances, side by side: each  *)
(* is a machine of its own, none reads another's variables, and a behavior *)
(* is one of `part` with the others at rest, so that their state spaces    *)
(* add up.                                                                 *)
(***************************************************************************)
EXTENDS ExitRules, MarketClock, Supertrend, Screener, Tally, MarketTrend

VARIABLE part

Parts == {"rules", "clock", "supertrend", "screener", "tally", "market"}

\* Prices in paise around the places where rounding and the guards turn: levels that
\* coincide with the entry price (50), that are a paisa away (51, 100), half-way ones
\* (150), a share for the whole capital and more than the capital.
Quotes == {50, 51, 52, 99, 100, 101, 150, 152} \cup {495000, 500000, 1000000, 1000001, 1010000}
Both == {"scheduler", "trailing"}

\* Trades that lose, break even and win; two dates of one month and one of the next.
Results == {-3, -1, 0, 2, 5}
ByMonth == [d \in {1, 2, 32} |-> IF d < 32 THEN 1 ELSE 2]

\* The machines that are not looked at start in one state.
AtRest ==
    /\ part # "supertrend" => close = 0 /\ lower = 0 /\ upper = 0
    /\ part # "screener" =>
          /\ reader = "screener"
          /\ condition = [lhs |-> "ema9", operator |-> "crosses_above", rhs |-> Number, cased |-> FALSE]
          /\ bar = [lhs |-> 0, rhs |-> 0]

Init ==
    /\ part \in Parts
    /\ RulesInit /\ ClockInit /\ TrendInit /\ ScreenInit /\ TallyInit /\ CountInit
    /\ AtRest

Next ==
    /\ \/ part = "rules" /\ RulesNext
          /\ UNCHANGED <<now, trendVars, screenVars, tallyVars, countVars>>
       \/ part = "clock" /\ Tick
          /\ UNCHANGED <<pos, trendVars, screenVars, tallyVars, countVars>>
       \/ part = "supertrend" /\ TrendNext
          /\ UNCHANGED <<pos, now, screenVars, tallyVars, countVars>>
       \/ part = "screener" /\ NextBar
          /\ UNCHANGED <<pos, now, trendVars, tallyVars, countVars>>
       \/ part = "tally" /\ TallyNext
          /\ UNCHANGED <<pos, now, trendVars, screenVars, countVars>>
       \/ part = "market" /\ CountNext
          /\ UNCHANGED <<pos, now, trendVars, screenVars, tallyVars>>
    /\ UNCHANGED part

Spec == Init /\ [][Next]_<<part, pos, now, trendVars, screenVars, tallyVars, countVars>>
=============================================================================
