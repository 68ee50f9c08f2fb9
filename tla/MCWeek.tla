------------------------------- MODULE MCWeek -------------------------------
(***************************************************************************)
(* A trading day and a Sunday of TradeDash in one instance: the day is     *)
(* chosen at the start, and with it which jobs and clients act.  Manual    *)
(* exits and the restart are left to the Sunday.                           *)
(***************************************************************************)
EXTENDS MCTradeDash

VARIABLE day

Day == {"weekday", "sunday"}
EveryJob == Weekday \cup Sunday

OnDuty == IF day = "weekday" THEN Weekday ELSE Sunday \cup Exiter
OffDuty == Closer \ OnDuty

WeekInit == Init /\ day \in Day

WeekNext ==
    /\ Next
    /\ \A c \in OffDuty : exit'[c] = exit[c]
    /\ day = "weekday" => crashes' = crashes
    /\ UNCHANGED day

WeekSpec == WeekInit /\ [][WeekNext]_<<vars, day>>
=============================================================================
