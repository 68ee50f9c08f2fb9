----------------------------- MODULE TallyProofs -----------------------------
(***************************************************************************)
(* For every history of closed trades: the drawdown shown for a strategy   *)
(* is the deepest fall of its cumulative P&L, and the monthly bars follow  *)
(* the points of the equity curve and are the slices of the history.       *)
(***************************************************************************)
EXTENDS Tally, TLAPS

\* Between the trades, the running figures are those of the histories so far, and the
\* peak is the highest level of the strategy's.
SoFar ==
    /\ cumulative = After(Len(curve))
    /\ sums.cumulative = Own(Len(mine))

RisingPeak ==
    /\ \A i \in 0 .. Len(mine) : Own(i) <= sums.peak
    /\ \E i \in 0 .. Len(mine) : Own(i) = sums.peak

\* The latest point is the cumulative P&L, and no other is of its date.
LastPoint ==
    \/ seenDates = {} /\ cumulative = 0
    \/ \E p \in seenDates :
          /\ p.date = day /\ p.value = cumulative
          /\ \A q \in seenDates : q # p => q.date < day

\* Each month begins at a level of the curve.
MonthsBegin == \A m \in Months : End({p \in seenDates : MonthOf[p.date] < m}) \in Int

TallyInv ==
    /\ TallyTypeOK
    /\ SoFar
    /\ RisingPeak
    /\ DrawdownIsDeepestFall
    /\ LastPoint
    /\ MonthsBegin
    /\ BarsFollowThePoints
    /\ MonthsAreSlices

\* The levels of the histories are whole numbers.
LEMMA LevelsWhole ==
    ASSUME TallyTypeOK
    PROVE  /\ \A n \in 0 .. Len(curve) : After(n) \in Int
           /\ \A n \in 0 .. Len(mine) : Own(n) \in Int
  <1>1. \A n \in 1 .. Len(curve) : curve[n].value \in Int
    <2>1. \A n \in 1 .. Len(curve) : curve[n] \in Points
      BY DEF TallyTypeOK
    <2> QED BY <2>1 DEF Points
  <1>2. \A n \in 1 .. Len(mine) : mine[n] \in Int
    BY DEF TallyTypeOK
  <1> QED BY <1>1, <1>2 DEF After, Own, TallyTypeOK

\* One more trade appends a level to the curve and leaves the others ...
Grown(n, pnl, d) ==
    /\ n = Len(curve) /\ pnl \in Int
    /\ Len(curve') = n + 1
    /\ \A i \in 1 .. n : curve'[i] = curve[i]
    /\ curve'[n + 1] = [date |-> d, value |-> cumulative']
    /\ \A i \in 0 .. n : After(i)' = After(i)
    /\ After(n + 1)' = cumulative'

LEMMA CurveGrows ==
    ASSUME TallyTypeOK, NEW pnl \in Pnl, NEW d \in Dates, NEW own \in BOOLEAN,
           Take(pnl, d, own)
    PROVE  \E n \in Nat : Grown(n, pnl, d)
  <1>1. curve \in Seq(Points) /\ pnl \in Int
    BY TallyAssumption DEF TallyTypeOK
  <1>2. PICK n \in Nat : n = Len(curve)
    BY <1>1
  <1>3. curve' = Append(curve, [date |-> d, value |-> cumulative'])
    BY DEF Take
  <1>4. /\ Len(curve') = n + 1
        /\ \A i \in 1 .. n : curve'[i] = curve[i]
        /\ curve'[n + 1] = [date |-> d, value |-> cumulative']
    BY <1>1, <1>2, <1>3
  <1>5. \A i \in 0 .. n : After(i)' = After(i)
    BY <1>2, <1>4 DEF After
  <1>6. After(n + 1)' = cumulative'
    BY <1>2, <1>4 DEF After
  <1> QED BY <1>1, <1>2, <1>4, <1>5, <1>6 DEF Grown

\* ... and one of the strategy a level to its own.
OwnGrown(n, level, pnl) ==
    /\ n = Len(mine) /\ level = sums.cumulative + pnl /\ pnl \in Int
    /\ Len(mine') = n + 1
    /\ \A i \in 0 .. n : Own(i)' = Own(i)
    /\ Own(n + 1)' = level

LEMMA OwnGrows ==
    ASSUME TallyTypeOK, NEW pnl \in Pnl, NEW d \in Dates, Take(pnl, d, TRUE)
    PROVE  \E n \in Nat, level \in Int : OwnGrown(n, level, pnl)
  <1>1. mine \in Seq(Int) /\ pnl \in Int /\ sums.cumulative \in Int
    BY TallyAssumption DEF TallyTypeOK, Figures
  <1>2. PICK n \in Nat, level \in Int : n = Len(mine) /\ level = sums.cumulative + pnl
    BY <1>1
  <1>3. mine' = Append(mine, level)
    BY <1>2 DEF Take
  <1>4. /\ Len(mine') = n + 1
        /\ \A i \in 1 .. n : mine'[i] = mine[i]
        /\ mine'[n + 1] = level
    BY <1>1, <1>2, <1>3
  <1>5. \A i \in 0 .. n : Own(i)' = Own(i)
    BY <1>2, <1>4 DEF Own
  <1>6. Own(n + 1)' = level
    BY <1>2, <1>4 DEF Own
  <1> QED BY <1>1, <1>2, <1>4, <1>5, <1>6 DEF OwnGrown

LEMMA TypesKept ==
    ASSUME TallyInv, NEW pnl \in Pnl, NEW d \in Dates, NEW own \in BOOLEAN,
           Take(pnl, d, own)
    PROVE  TallyTypeOK'
  <1>1. pnl \in Int /\ d \in Nat /\ MonthOf[d] \in Months
    BY TallyAssumption DEF Months
  <1>2. /\ sums \in Figures /\ monthly \in [Months -> Int] /\ curve \in Seq(Points)
        /\ mine \in Seq(Int) /\ cumulative \in Int
    BY DEF TallyInv, TallyTypeOK
  <1>3. /\ sums.cumulative + pnl \in Int /\ cumulative + pnl \in Int
        /\ monthly[MonthOf[d]] + pnl \in Int
    BY <1>1, <1>2 DEF Figures
  <1>4. Metrics(pnl) \in Figures
    <2> DEFINE level == sums.cumulative + pnl
               fall == Peak(level) - level
    <2>1. Peak(level) \in Int /\ fall \in Int
      BY <1>2, <1>3 DEF Peak, Figures
    <2>2. /\ sums.total \in Nat /\ sums.winners \in Nat /\ sums.losers \in Nat
          /\ sums.grossWin \in Int /\ sums.grossLoss \in Int /\ sums.maxDrawdown \in Int
      BY <1>2 DEF Figures
    <2>3. level \in Int
      BY <1>3
    <2> HIDE DEF level, fall
    <2>4. [total |-> sums.total + 1,
           winners |-> sums.winners + (IF pnl > 0 THEN 1 ELSE 0),
           losers |-> sums.losers + (IF pnl > 0 THEN 0 ELSE 1),
           grossWin |-> sums.grossWin + (IF pnl > 0 THEN pnl ELSE 0),
           grossLoss |-> sums.grossLoss + (IF pnl > 0 THEN 0 ELSE -pnl),
           cumulative |-> level,
           peak |-> Peak(level),
           maxDrawdown |-> IF fall > sums.maxDrawdown THEN fall ELSE sums.maxDrawdown]
          \in Figures
      BY <1>1, <2>1, <2>2, <2>3 DEF Figures
    <2> QED BY <2>4 DEF Metrics, level, fall
  <1>5. [date |-> d, value |-> cumulative + pnl] \in Points
    BY <1>3 DEF Points
  <1>6. /\ curve' \in Seq(Points) /\ cumulative' \in Int
        /\ seenDates' \in SUBSET Points
    BY <1>2, <1>3, <1>5 DEF Take, Plotted, TallyInv, TallyTypeOK
  <1>7. InMonth(d, pnl) \in [Months -> Int]
    BY <1>1, <1>2, <1>3 DEF InMonth
  <1>8. mine' \in Seq(Int)
    BY <1>2, <1>3 DEF Take
  <1>9. sums' \in Figures
    BY <1>2, <1>4 DEF Take
  <1> QED BY <1>1, <1>6, <1>7, <1>8, <1>9 DEF Take, TallyTypeOK

LEMMA SumsKept ==
    ASSUME TallyInv, NEW pnl \in Pnl, NEW d \in Dates, NEW own \in BOOLEAN,
           Take(pnl, d, own)
    PROVE  SoFar'
  <1>1. (cumulative = After(Len(curve)))'
    <2>1. PICK n \in Nat : Grown(n, pnl, d)
      BY CurveGrows DEF TallyInv
    <2>2. After(Len(curve))' = After(n + 1)'
      BY <2>1 DEF Grown, After
    <2> QED BY <2>1, <2>2 DEF Grown
  <1>2. (sums.cumulative = Own(Len(mine)))'
    <2>1. CASE own
      <3>1. Take(pnl, d, TRUE) /\ sums' = Metrics(pnl)
        BY <2>1 DEF Take
      <3>2. PICK n \in Nat, level \in Int : OwnGrown(n, level, pnl)
        BY <3>1, OwnGrows DEF TallyInv
      <3>3. Own(Len(mine))' = Own(n + 1)'
        BY <3>2 DEF OwnGrown, Own
      <3>4. sums'.cumulative = sums.cumulative + pnl
        BY <3>1 DEF Metrics
      <3> QED BY <3>2, <3>3, <3>4 DEF OwnGrown
    <2>2. CASE ~own
      BY <2>2 DEF Take, Own, TallyInv, SoFar
    <2> QED BY <2>1, <2>2
  <1> QED BY <1>1, <1>2 DEF SoFar

\* The peak follows the strategy's curve, and with it the deepest fall.
LEMMA PeakKept ==
    ASSUME TallyInv, NEW pnl \in Pnl, NEW d \in Dates, Take(pnl, d, TRUE)
    PROVE  RisingPeak' /\ DrawdownIsDeepestFall'
  <1>0. PICK n \in Nat, level \in Int : OwnGrown(n, level, pnl)
    BY OwnGrows DEF TallyInv
  <1>1. /\ n = Len(mine) /\ level = sums.cumulative + pnl /\ pnl \in Int
        /\ Len(mine') = n + 1
        /\ \A i \in 0 .. n : Own(i)' = Own(i)
        /\ Own(n + 1)' = level
    BY <1>0 DEF OwnGrown
  <1> DEFINE top == IF level > sums.peak THEN level ELSE sums.peak
             fall == top - level
  <1>2. sums' = Metrics(pnl) /\ sums.peak \in Int /\ sums.maxDrawdown \in Int
    BY DEF Take, TallyInv, TallyTypeOK, Figures
  <1>3. /\ sums'.peak = top
        /\ sums'.maxDrawdown = IF fall > sums.maxDrawdown THEN fall ELSE sums.maxDrawdown
    BY <1>1, <1>2 DEF Metrics, Peak
  <1>4. top \in Int /\ fall \in Int
    BY <1>1, <1>2
  <1>5. \A i \in 0 .. n : Own(i) \in Int
    BY <1>1, LevelsWhole DEF TallyInv
  <1>6. /\ \A i \in 0 .. n : Own(i) <= sums.peak
        /\ \E i \in 0 .. n : Own(i) = sums.peak
    BY <1>1 DEF TallyInv, RisingPeak
  <1>7. /\ \A j \in 0 .. n : \A i \in 0 .. j : Own(i) - Own(j) <= sums.maxDrawdown
        /\ \E j \in 0 .. n : \E i \in 0 .. j : Own(i) - Own(j) = sums.maxDrawdown
    BY <1>1 DEF TallyInv, DrawdownIsDeepestFall
  <1> DEFINE Next(i) == Own(i)'
  <1>8. /\ \A i \in 0 .. n : Next(i) = Own(i)
        /\ Next(n + 1) = level
    BY <1>1
  <1> HIDE DEF Next
  <1>9. /\ \A i \in 0 .. n + 1 : Next(i) <= top
        /\ \E i \in 0 .. n + 1 : Next(i) = top
    <2>1. \A i \in 0 .. n + 1 : Next(i) <= top
      BY <1>1, <1>2, <1>5, <1>6, <1>8
    <2>2. \E i \in 0 .. n + 1 : Next(i) = top
      <3>1. CASE level > sums.peak
        BY <1>1, <1>8, <3>1
      <3>2. CASE ~(level > sums.peak)
        <4>1. PICK i \in 0 .. n : Own(i) = sums.peak
          BY <1>6
        <4>2. i \in 0 .. n + 1 /\ Next(i) = top
          BY <1>1, <1>8, <3>2, <4>1
        <4> QED BY <4>2
      <3> QED BY <3>1, <3>2
    <2> QED BY <2>1, <2>2
  <1>10. \A j \in 0 .. n + 1 : \A i \in 0 .. j : Next(i) - Next(j) <= sums'.maxDrawdown
    <2> SUFFICES ASSUME NEW j \in 0 .. n + 1, NEW i \in 0 .. j
                 PROVE  Next(i) - Next(j) <= sums'.maxDrawdown
      OBVIOUS
    <2>1. CASE j \in 0 .. n
      <3>1. i \in 0 .. n /\ Own(i) \in Int /\ Own(j) \in Int
        BY <1>1, <1>5, <2>1
      <3>2. Own(i) - Own(j) <= sums.maxDrawdown
        BY <1>7, <2>1
      <3> QED BY <1>2, <1>3, <1>4, <1>8, <2>1, <3>1, <3>2
    <2>2. CASE j = n + 1
      <3>1. i \in 0 .. n + 1 /\ Next(i) \in Int /\ Next(i) <= top /\ Next(j) = level
        BY <1>1, <1>5, <1>8, <1>9, <2>2
      <3> QED BY <1>1, <1>2, <1>3, <1>4, <3>1
    <2> QED BY <1>1, <2>1, <2>2
  <1>11. \E j \in 0 .. n + 1 : \E i \in 0 .. j : Next(i) - Next(j) = sums'.maxDrawdown
    <2>1. CASE fall > sums.maxDrawdown
      <3>1. PICK i \in 0 .. n + 1 : Next(i) = top
        BY <1>9
      <3>2. Next(i) - Next(n + 1) = sums'.maxDrawdown
        BY <1>3, <1>8, <2>1, <3>1
      <3> QED BY <1>1, <3>2
    <2>2. CASE ~(fall > sums.maxDrawdown)
      <3>1. PICK j \in 0 .. n : \E i \in 0 .. j : Own(i) - Own(j) = sums.maxDrawdown
        BY <1>7
      <3>2. PICK i \in 0 .. j : Own(i) - Own(j) = sums.maxDrawdown
        BY <3>1
      <3>3. Next(i) - Next(j) = sums'.maxDrawdown
        BY <1>1, <1>3, <1>8, <2>2, <3>2
      <3> QED BY <1>1, <3>3
    <2> QED BY <2>1, <2>2
  <1> QED BY <1>1, <1>3, <1>9, <1>10, <1>11
          DEF RisingPeak, DrawdownIsDeepestFall, Next

\* Points whose latest is the only one of its date end there.
LEMMA EndOfPoints ==
    ASSUME NEW P \in SUBSET Points, NEW p \in P, \A q \in P : q # p => q.date < p.date
    PROVE  End(P) = p.value
  <1>1. \A q \in P : q.date \in Nat
    BY TallyAssumption DEF Points
  <1>2. \A q \in P : q.date <= p.date
    BY <1>1
  <1>3. \A r \in P : (\A q \in P : q.date <= r.date) => r = p
    BY <1>1
  <1>4. (CHOOSE r \in P : \A q \in P : q.date <= r.date) = p
    BY <1>2, <1>3
  <1> QED BY <1>4 DEF End

LEMMA PointsEndAtTheSum ==
    ASSUME seenDates \in SUBSET Points, LastPoint, cumulative \in Int
    PROVE  End(seenDates) = cumulative
  <1>1. CASE seenDates = {} /\ cumulative = 0
    BY <1>1 DEF End
  <1>2. CASE \E p \in seenDates :
               /\ p.date = day /\ p.value = cumulative
               /\ \A q \in seenDates : q # p => q.date < day
    BY <1>2, EndOfPoints
  <1> QED BY <1>1, <1>2 DEF LastPoint

\* A trade's point becomes the latest, and takes the place of one of its day.
LEMMA LastPointKept ==
    ASSUME TallyInv, NEW pnl \in Pnl, NEW d \in Dates, NEW own \in BOOLEAN,
           Take(pnl, d, own)
    PROVE  /\ LastPoint'
           /\ \A p \in seenDates : p \in Points /\ p.date <= d
  <1>1. seenDates \in SUBSET Points /\ day \in Nat /\ d \in Nat /\ d >= day /\ day' = d
    BY TallyAssumption DEF TallyInv, TallyTypeOK, Take
  <1>2. \A p \in seenDates : p \in Points /\ p.date \in Nat
    BY <1>1, TallyAssumption DEF Points
  <1>3. \A p \in seenDates : p.date <= d
    BY <1>1, <1>2 DEF TallyInv, LastPoint
  <1> DEFINE new == [date |-> d, value |-> cumulative']
  <1>4. seenDates' = {p \in seenDates : p.date # d} \cup {new}
    BY DEF Take, Plotted
  <1>5. \A q \in seenDates' : q # new => q.date < d
    BY <1>1, <1>2, <1>3, <1>4
  <1>6. new \in seenDates' /\ new.date = day' /\ new.value = cumulative'
    BY <1>1, <1>4
  <1> QED BY <1>1, <1>2, <1>3, <1>5, <1>6 DEF LastPoint

\* Only the bar of the trade's month and the last point move, by the same amount.
LEMMA BarsKept ==
    ASSUME TallyInv, NEW pnl \in Pnl, NEW d \in Dates, NEW own \in BOOLEAN,
           Take(pnl, d, own), TallyTypeOK', LastPoint',
           \A p \in seenDates : p \in Points /\ p.date <= d
    PROVE  BarsFollowThePoints' /\ MonthsBegin'
  <1> DEFINE latest == MonthOf[d]
             new == [date |-> d, value |-> cumulative']
             UpTo(P, m) == {p \in P : MonthOf[p.date] <= m}
             Before(P, m) == {p \in P : MonthOf[p.date] < m}
  <1>1. /\ seenDates' = {p \in seenDates : p.date # d} \cup {new}
        /\ cumulative' = cumulative + pnl
    BY DEF Take, Plotted
  <1>2. latest \in Nat /\ Months \subseteq Nat /\ pnl \in Int /\ cumulative \in Int
    BY TallyAssumption DEF Months, TallyInv, TallyTypeOK
  <1>3. \A m \in Months : monthly'[m] = IF m = latest THEN monthly[m] + pnl ELSE monthly[m]
    BY DEF Take, InMonth, TallyInv, TallyTypeOK
  <1>4. \A p \in seenDates : MonthOf[p.date] \in Nat /\ MonthOf[p.date] <= latest
    <2> SUFFICES ASSUME NEW p \in seenDates
                 PROVE  MonthOf[p.date] \in Nat /\ MonthOf[p.date] <= latest
      OBVIOUS
    <2>1. p.date \in Dates /\ p.date <= d
      BY DEF Points
    <2> QED BY <2>1, TallyAssumption
  <1>5. End(seenDates) = cumulative
    BY PointsEndAtTheSum DEF TallyInv, TallyTypeOK
  <1>6. End(seenDates') = cumulative'
    <2>1. seenDates' \in SUBSET Points /\ cumulative' \in Int
      BY DEF TallyTypeOK
    <2>2. PICK p \in seenDates' :
             /\ p.date = day' /\ p.value = cumulative'
             /\ \A q \in seenDates' : q # p => q.date < day'
      <3>1. new \in seenDates'
        BY <1>1
      <3> QED BY <3>1 DEF LastPoint
    <2> QED BY <2>1, <2>2, EndOfPoints
  <1>7. monthly[latest] \in Int /\ \A m \in Months : monthly[m] = End(UpTo(seenDates, m)) - End(Before(seenDates, m))
    BY DEF TallyInv, TallyTypeOK, BarsFollowThePoints, Months
  <1>8. ASSUME NEW m \in Months
        PROVE  /\ monthly'[m] = End(UpTo(seenDates', m)) - End(Before(seenDates', m))
               /\ End(Before(seenDates', m)) \in Int
    <2>0. m \in Nat /\ MonthOf[new.date] = latest
      BY <1>2
    <2>1. CASE m < latest
      <3>1. /\ UpTo(seenDates', m) = UpTo(seenDates, m)
            /\ Before(seenDates', m) = Before(seenDates, m)
        BY <1>1, <1>2, <2>0, <2>1
      <3> QED BY <1>2, <1>3, <1>7, <2>0, <2>1, <3>1 DEF TallyInv, MonthsBegin
    <2>2. CASE m = latest
      <3>1. Before(seenDates', m) = Before(seenDates, m)
        BY <1>1, <1>2, <2>0, <2>2
      <3>2. UpTo(seenDates', m) = seenDates' /\ UpTo(seenDates, m) = seenDates
        BY <1>1, <1>2, <1>4, <2>0, <2>2
      <3> DEFINE before == End(Before(seenDates, m))
      <3>3. before \in Int
        BY DEF TallyInv, MonthsBegin
      <3>4. monthly[m] = cumulative - before
        BY <1>5, <1>7, <3>2
      <3>5. monthly'[m] = monthly[m] + pnl
        BY <1>3, <2>2
      <3> HIDE DEF before
      <3>6. monthly'[m] = cumulative' - before
        BY <1>1, <1>2, <3>3, <3>4, <3>5
      <3> QED BY <1>6, <3>1, <3>2, <3>3, <3>6 DEF before
    <2>3. CASE m > latest
      <3>1. UpTo(seenDates', m) = seenDates' /\ Before(seenDates', m) = seenDates'
        BY <1>1, <1>2, <1>4, <2>0, <2>3
      <3>2. UpTo(seenDates, m) = seenDates /\ Before(seenDates, m) = seenDates
        BY <1>2, <1>4, <2>0, <2>3
      <3>3. monthly[m] = 0 /\ monthly'[m] = monthly[m]
        BY <1>2, <1>3, <1>5, <1>7, <2>0, <2>3, <3>2
      <3>4. cumulative' \in Int /\ cumulative' - cumulative' = 0
        BY <1>1, <1>2
      <3> QED BY <1>6, <3>1, <3>3, <3>4
    <2> QED BY <1>2, <2>0, <2>1, <2>2, <2>3
  <1> QED BY <1>8 DEF BarsFollowThePoints, MonthsBegin

\* The slice of a month on the curve ends with the last trade of that month.
Slice(m, i, j) ==
    /\ i \in 0 .. Len(curve) /\ j \in i .. Len(curve)
    /\ \A n \in 1 .. i : MonthAt(n) < m
    /\ \A n \in i + 1 .. j : MonthAt(n) = m
    /\ \A n \in j + 1 .. Len(curve) : MonthAt(n) > m

LEMMA MonthsKept ==
    ASSUME TallyInv, NEW pnl \in Pnl, NEW d \in Dates, NEW own \in BOOLEAN,
           Take(pnl, d, own)
    PROVE  MonthsAreSlices'
  <1>0. PICK n \in Nat : Grown(n, pnl, d)
    BY CurveGrows DEF TallyInv
  <1> DEFINE level == cumulative'
  <1>1. /\ n = Len(curve) /\ level = cumulative + pnl /\ pnl \in Int
        /\ Len(curve') = n + 1 /\ curve'[n + 1] = [date |-> d, value |-> level]
        /\ \A k \in 1 .. n : curve'[k] = curve[k]
        /\ \A k \in 0 .. n : After(k)' = After(k)
        /\ After(n + 1)' = level
    BY <1>0 DEF Grown, Take
  <1> HIDE DEF level
  <1>2. PICK latest \in Months : latest = MonthOf[d]
    BY DEF Months
  <1>3. latest \in Nat /\ Months \subseteq Nat
    BY <1>2, TallyAssumption DEF Months
  <1>4. /\ monthly \in [Months -> Int]
        /\ \A m \in Months : monthly'[m] = IF m = latest THEN monthly[m] + pnl ELSE monthly[m]
    BY <1>2 DEF Take, InMonth, TallyInv, TallyTypeOK
  <1>5. /\ \A k \in 1 .. n : MonthAt(k)' = MonthAt(k)
        /\ MonthAt(n + 1)' = latest
    BY <1>1, <1>2 DEF MonthAt
  <1>6. \A m \in Months, i, j \in 0 .. n : Slice(m, i, j) => monthly[m] = After(j) - After(i)
    BY <1>1 DEF TallyInv, MonthsAreSlices, Slice
  <1>7. /\ After(n) = cumulative /\ cumulative \in Int
        /\ \A i \in 0 .. n : After(i) \in Int
    BY <1>1, LevelsWhole DEF TallyInv, SoFar
  <1>8. ASSUME NEW m \in Months, NEW i \in 0 .. n + 1, NEW j \in i .. n + 1,
               \A k \in 1 .. i : MonthAt(k)' < m,
               \A k \in i + 1 .. j : MonthAt(k)' = m,
               \A k \in j + 1 .. n + 1 : MonthAt(k)' > m
        PROVE  monthly'[m] = After(j)' - After(i)'
    <2>0. m \in Nat
      BY <1>3
    <2>1. CASE j <= n
      <3>1. i \in 0 .. n /\ j \in 0 .. n /\ j \in i .. n /\ n + 1 \in j + 1 .. n + 1
        BY <2>1
      <3>2. latest > m
        BY <1>5, <1>8, <3>1
      <3>3. Slice(m, i, j)
        BY <1>1, <1>5, <1>8, <3>1 DEF Slice
      <3>4. monthly'[m] = monthly[m]
        BY <1>3, <1>4, <2>0, <3>2
      <3> QED BY <1>1, <1>6, <3>1, <3>3, <3>4
    <2>2. CASE j = n + 1 /\ i <= n
      <3>1. i \in 0 .. n /\ n + 1 \in i + 1 .. j
        BY <2>2
      <3>2. latest = m
        BY <1>5, <1>8, <3>1
      <3>3. Slice(m, i, n)
        BY <1>1, <1>5, <1>8, <2>2, <3>1 DEF Slice
      <3>4. monthly[m] = After(n) - After(i)
        BY <1>6, <3>1, <3>3
      <3>5. monthly'[m] = monthly[m] + pnl
        BY <1>4, <3>2
      <3>6. After(j)' = level /\ After(i)' = After(i)
        BY <1>1, <2>2, <3>1
      <3>7. cumulative \in Int /\ After(i) \in Int
        BY <1>1, <1>7, <3>1
      <3> QED BY <1>1, <1>7, <3>4, <3>5, <3>6, <3>7
    <2>3. CASE j = n + 1 /\ i = n + 1
      <3>1. latest < m
        BY <1>5, <1>8, <2>3
      <3>2. Slice(m, n, n)
        BY <1>1, <1>5, <1>8, <2>3 DEF Slice
      <3>3. monthly[m] = 0
        BY <1>6, <1>7, <3>2
      <3>4. monthly'[m] = 0
        BY <1>3, <1>4, <2>0, <3>1, <3>3
      <3>5. level \in Int
        BY <1>1, <1>7
      <3> QED BY <1>1, <2>3, <3>4, <3>5
    <2> QED BY <2>1, <2>2, <2>3
  <1> QED BY <1>1, <1>8 DEF MonthsAreSlices

LEMMA TallyStart == TallyInit => TallyInv
  <1> SUFFICES ASSUME TallyInit PROVE TallyInv
    OBVIOUS
  <1>1. /\ curve = <<>> /\ Len(curve) = 0 /\ After(0) = 0
        /\ mine = <<>> /\ Len(mine) = 0 /\ Own(0) = 0
    BY DEF TallyInit, After, Own
  <1>2. TallyTypeOK
    BY <1>1 DEF TallyInit, TallyTypeOK, Figures
  <1>3. SoFar /\ LastPoint
    BY <1>1 DEF TallyInit, SoFar, LastPoint
  <1>4. RisingPeak
    BY <1>1 DEF TallyInit, RisingPeak
  <1>5. DrawdownIsDeepestFall
    BY <1>1 DEF TallyInit, DrawdownIsDeepestFall
  <1>6. BarsFollowThePoints /\ MonthsBegin
    <2>1. \A m \in Months : monthly[m] = 0
      BY DEF TallyInit
    <2>2. \A m \in Months : /\ {p \in seenDates : MonthOf[p.date] <= m} = {}
                            /\ {p \in seenDates : MonthOf[p.date] < m} = {}
      BY DEF TallyInit
    <2> QED BY <2>1, <2>2 DEF BarsFollowThePoints, MonthsBegin, End
  <1>7. MonthsAreSlices
    <2>1. \A m \in Months : monthly[m] = 0
      BY DEF TallyInit
    <2>2. \A i \in 0 .. Len(curve) : i = 0 /\ \A j \in i .. Len(curve) : j = 0
      BY <1>1
    <2>3. \A i \in 0 .. Len(curve) : \A j \in i .. Len(curve) : After(j) - After(i) = 0
      BY <1>1, <2>2
    <2> QED BY <2>1, <2>3 DEF MonthsAreSlices
  <1> QED BY <1>2, <1>3, <1>4, <1>5, <1>6, <1>7 DEF TallyInv

LEMMA TallyInvHolds == TallySpec => []TallyInv
  <1>1. TallyInv /\ [TallyNext]_tallyVars => TallyInv'
    <2> SUFFICES ASSUME TallyInv, [TallyNext]_tallyVars PROVE TallyInv'
      OBVIOUS
    <2>1. ASSUME NEW pnl \in Pnl, NEW d \in Dates, NEW own \in BOOLEAN, Take(pnl, d, own)
          PROVE  TallyInv'
      <3>1. TallyTypeOK' /\ SoFar' /\ MonthsAreSlices'
        BY <2>1, TypesKept, SumsKept, MonthsKept
      <3>2. LastPoint' /\ BarsFollowThePoints' /\ MonthsBegin'
        BY <2>1, <3>1, LastPointKept, BarsKept
      <3>3. CASE own
        <4>1. Take(pnl, d, TRUE)
          BY <2>1, <3>3
        <4>2. RisingPeak' /\ DrawdownIsDeepestFall'
          BY <4>1, PeakKept
        <4> QED BY <3>1, <3>2, <4>2 DEF TallyInv
      <3>4. CASE ~own
        <4>1. sums' = sums /\ mine' = mine
          BY <2>1, <3>4 DEF Take
        <4>2. RisingPeak' /\ DrawdownIsDeepestFall'
          BY <4>1 DEF TallyInv, RisingPeak, DrawdownIsDeepestFall, Own
        <4> QED BY <3>1, <3>2, <4>2 DEF TallyInv
      <3> QED BY <3>3, <3>4
    <2>2. CASE UNCHANGED tallyVars
      <3>1. UNCHANGED <<sums, monthly, cumulative, seenDates, curve, mine, day>>
        BY <2>2 DEF tallyVars
      <3>2. (TallyTypeOK /\ SoFar /\ RisingPeak /\ DrawdownIsDeepestFall)'
        BY <3>1 DEF TallyInv, TallyTypeOK, SoFar, RisingPeak, DrawdownIsDeepestFall, After, Own
      <3>3. (LastPoint /\ BarsFollowThePoints /\ MonthsBegin)'
        BY <3>1 DEF TallyInv, LastPoint, BarsFollowThePoints, MonthsBegin
      <3>4. MonthsAreSlices'
        <4>1. monthly' = monthly /\ Len(curve') = Len(curve)
          BY <3>1
        <4>2. /\ \A n : MonthAt(n)' = MonthAt(n)
              /\ \A n : After(n)' = After(n)
          BY <3>1 DEF MonthAt, After
        <4>3. ASSUME NEW m \in Months, NEW i \in 0 .. Len(curve), NEW j \in i .. Len(curve),
                     \A n \in 1 .. i : MonthAt(n)' < m,
                     \A n \in i + 1 .. j : MonthAt(n)' = m,
                     \A n \in j + 1 .. Len(curve) : MonthAt(n)' > m
              PROVE  monthly[m] = After(j)' - After(i)'
          BY <4>2, <4>3 DEF TallyInv, MonthsAreSlices
        <4> QED BY <4>1, <4>3 DEF MonthsAreSlices
      <3> QED BY <3>2, <3>3, <3>4 DEF TallyInv
    <2> QED BY <2>1, <2>2 DEF TallyNext
  <1> QED BY TallyStart, <1>1, PTL DEF TallySpec

\* The running maximum of get_strategy_metrics finds the deepest fall of any strategy's
\* cumulative P&L.
THEOREM DrawdownIsRight == TallySpec => []DrawdownIsDeepestFall
  <1>1. TallyInv => DrawdownIsDeepestFall
    BY DEF TallyInv
  <1> QED BY TallyInvHolds, <1>1, PTL

\* The months of get_monthly_pnl and the days of get_equity_curve show one history:
\* over all strategies, for every calendar, the bar of a month is the way from the last
\* point before it to the last point in it.
THEOREM ChartsAgree == TallySpec => []BarsFollowThePoints
  <1>1. TallyInv => BarsFollowThePoints
    BY DEF TallyInv
  <1> QED BY TallyInvHolds, <1>1, PTL

\* A month's bar is what the trades of that month made (get_monthly_pnl).
THEOREM BarsAreSlices == TallySpec => []MonthsAreSlices
  <1>1. TallyInv => MonthsAreSlices
    BY DEF TallyInv
  <1> QED BY TallyInvHolds, <1>1, PTL
=============================================================================
