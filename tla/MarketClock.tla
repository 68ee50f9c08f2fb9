----------------------------- MODULE MarketClock -----------------------------
(***************************************************************************)
(* The clocks of the program.  Some of its code asks for the time in India *)
(* (the scheduler, its jobs, the weekly cleanup), some computes it from    *)
(* UTC (risk_engine) and some takes the date of the process, which is UTC  *)
(* where this program is deployed (the key traded_today, the numbering of  *)
(* trades, the end-of-day summary).                                        *)
(*                                                                         *)
(* Time is a number of minutes since 0:00 UTC of some Monday; `now` is the *)
(* minute that is passing.                                                 *)
(***************************************************************************)
EXTENDS Integers

CONSTANT LastMinute     \* bound: the clock stops there

ASSUME ClockAssumption == LastMinute \in Nat

VARIABLE now

Minute == 0 .. LastMinute
ClockTypeOK == now \in Minute

Day == 1440
HoursMinutes(h, m) == 60 * h + m

-----------------------------------------------------------------------------
UtcDate(m) == m \div Day

\* pytz's Asia/Kolkata: 5 hours and 30 minutes ahead, all year.
IstMinute(m) == (m + 330) % Day
IstDate(m) == (m + 330) \div Day
Weekday(date) == date % 7

Today_Behind(m) == (m + Day - 480) \div Day - 1

\* date.today() of a process in UTC, and date(exit_time) in its database.
Today(m) == UtcDate(m)

RiskOpen_InUtc(m) ==
    LET mins == m % Day
    IN  Weekday(UtcDate(m)) <= 4 /\ 555 <= mins /\ mins <= 930

\* is_market_open_ist, on the hour, the minute and the weekday of UTC.
RiskOpen(m) ==
    LET mins == (m % Day) + 330
        day == (Weekday(UtcDate(m)) + (IF mins >= Day THEN 1 ELSE 0)) % 7
    IN  day <= 4 /\ 555 <= mins % Day /\ mins % Day <= 930

\* _is_market_hours, once a minute has begun: the time has microseconds, so that
\* the comparison with 15:30:00 fails throughout the minute 15:30.
SchedulerOpen(m) ==
    /\ Weekday(IstDate(m)) < 5
    /\ HoursMinutes(9, 15) <= IstMinute(m)
    /\ IstMinute(m) < HoursMinutes(15, 30)

\* create_scheduler: which jobs fire at the start of the minute, in the zone of the
\* scheduler.  FORCE_EXIT_TIME is 15:12.
ForceExitFires(m) == Weekday(IstDate(m)) < 5 /\ IstMinute(m) = HoursMinutes(15, 12)
SummaryFires(m) == Weekday(IstDate(m)) < 5 /\ IstMinute(m) = HoursMinutes(15, 30)
CleanupFires(m) == Weekday(IstDate(m)) = 6 /\ IstMinute(m) = HoursMinutes(23, 0)

Cleared_SixDays(m) == {IstDate(m) - i : i \in 0 .. 5}

\* weekly_cleanup: the dates whose traded_today key it deletes.
Cleared(m) == {IstDate(m) - i : i \in 0 .. 6}

\* receive_webhook marks a symbol under this date, until this minute has passed.
MarkedUnder(m) == Today(m)
MarkLapses(m) == UtcDate(m) * Day + HoursMinutes(23, 59)

-----------------------------------------------------------------------------
ClockInit == now = 0

Tick == now < LastMinute /\ now' = now + 1

ClockSpec == ClockInit /\ [][Tick]_now

-----------------------------------------------------------------------------
\* The two notions of an open market differ in the minute after the close only:
\* "9:15 AM - 3:30 PM IST Mon-Fri" in risk_engine includes the whole minute 15:30,
\* _is_market_hours ends with its first instant.
ClocksDifferAtTheClose ==
    RiskOpen(now) <=> SchedulerOpen(now) \/ SummaryFires(now)

\* In every minute of trading, of the force exit and of the summary, the date of the
\* process is the date in India: the key of the duplicate check, the numbers of the
\* trades and the summary are those of the trading day.  A mark made while the
\* market is open outlives it.
OneTradingDate ==
    RiskOpen(now) \/ ForceExitFires(now) \/ SummaryFires(now) =>
        /\ Today(now) = IstDate(now)
        /\ \A m \in now .. now + 400 :
              RiskOpen(m) /\ IstDate(m) = IstDate(now) => m <= MarkLapses(now)

\* The weekly cleanup deletes the key of every trading minute since the cleanup
\* before, also when the key's expiry could not be set (it is set in a call of its
\* own whose failure is swallowed).
CleanupReachesTheWeek ==
    CleanupFires(now) =>
        \A m \in Minute :
            now - 7 * Day <= m /\ m <= now /\ RiskOpen(m) => MarkedUnder(m) \in Cleared(now)
=============================================================================
