----------------------------- MODULE MarketTrend -----------------------------
(***************************************************************************)
(* The gate of the EMA scanner: a sample of stocks is counted into those   *)
(* that advanced and those that declined, the ratio names the trend of the *)
(* market, and the trend silences one side of the signals of a scan.       *)
(***************************************************************************)
EXTENDS Integers

CONSTANT Sample     \* the number of stocks in AD_SAMPLE

ASSUME TrendAssumption == Sample \in Nat

VARIABLES
    adv,        \* stocks that rose by more than 0.01
    dec,        \* stocks that fell by more
    unmoved     \* the others, and those without two closes

countVars == <<adv, dec, unmoved>>

CountTypeOK == adv \in Nat /\ dec \in Nat /\ unmoved \in Nat

-----------------------------------------------------------------------------
Trend_NoDeclineNoRatio(a, d) ==
    IF d > 0 /\ 5 * a >= 6 * d THEN "BULLISH"
    ELSE IF d = 0 \/ 5 * a <= 4 * d THEN "BEARISH" ELSE "SIDEWAYS"

\* _fetch_ad_trend_sync: the ratio adv / dec, 9.99 without a decline, against 1.2 and 0.8.
Trend(a, d) ==
    IF d = 0 \/ 5 * a >= 6 * d THEN "BULLISH"
    ELSE IF 5 * a <= 4 * d THEN "BEARISH" ELSE "SIDEWAYS"

\* run_ema_scanner: the sides whose signals are in the result.
Shown(trend) ==
    CASE trend = "BULLISH" -> {"BUY"}
      [] trend = "BEARISH" -> {"SELL"}
      [] OTHER -> {"BUY", "SELL"}

Counted == adv + dec + unmoved < Sample

Advance == Counted /\ adv' = adv + 1 /\ UNCHANGED <<dec, unmoved>>
Decline == Counted /\ dec' = dec + 1 /\ UNCHANGED <<adv, unmoved>>
Rest == Counted /\ unmoved' = unmoved + 1 /\ UNCHANGED <<adv, dec>>

CountInit == adv = 0 /\ dec = 0 /\ unmoved = 0

CountNext == Advance \/ Decline \/ Rest

CountSpec == CountInit /\ [][CountNext]_countVars

-----------------------------------------------------------------------------
\* An advance never takes the BUY signals away or lets the SELL signals in, a decline
\* never does the opposite and a stock that did not move does neither.  It holds
\* because a market without a decline is BULLISH, also when nothing in it moved.
TrendFollowsTheCount ==
    [][ LET was == Shown(Trend(adv, dec))
            is == Shown(Trend(adv', dec'))
        IN  /\ dec' = dec => (("BUY" \in was => "BUY" \in is) /\ ("SELL" \in is => "SELL" \in was))
            /\ adv' = adv => (("SELL" \in was => "SELL" \in is) /\ ("BUY" \in is => "BUY" \in was))
      ]_countVars
=============================================================================
