------------------------------ MODULE Calendar ------------------------------
(***************************************************************************)
(* The calendar of the C libraries (ulibc/time.c; core/libc/time.c has the *)
(* same mktime).  The clock goes on from day to day; a time is the number  *)
(* of seconds since 1970.                                                  *)
(***************************************************************************)
EXTENDS Integers, Sequences

CONSTANTS LastDay,
          Jump,     \* day |-> a later day: years that are left out
          Seconds   \* times of the day

VARIABLES day, sec

SECSPERMIN  == 60
SECSPERHOUR == 3600
SECSPERDAY  == 86400
TM_YEAR_BASE == 1900
EPOCH_YEAR   == 1970
EPOCH_LEAP   == 1968
EPOCH_WDAY   == 4
MaxDay == 24854   \* the last day of which every second is a time_t, an int (l4/arch_types.h)

(* The day after the next one is looked at too.                            *)
ASSUME CalendarAssumption ==
    /\ LastDay \in 0 .. MaxDay - 2 /\ \A d \in DOMAIN Jump : Jump[d] \in 0 .. LastDay
    /\ Seconds \subseteq 0 .. SECSPERDAY - 1

isleap(y) == y % 4 = 0 /\ (y % 100 # 0 \/ y % 400 = 0)
leap_years_from_epoch(y) == (y - EPOCH_LEAP - 1) \div 4

days_to_month == <<0, 31, 59, 90, 120, 151, 181, 212, 243, 273, 304, 334, 365>>
days_to_month_leap == <<0, 31, 60, 91, 121, 152, 182, 213, 244, 274, 305, 335, 366>>
Table(y) == IF isleap(y) THEN days_to_month_leap ELSE days_to_month

mktime(tm) ==
    LET y == tm.year + TM_YEAR_BASE
        days == 365 * (y - EPOCH_YEAR) + leap_years_from_epoch(y) + Table(y)[tm.mon + 1] + tm.mday - 1
    IN  days * SECSPERDAY + tm.hour * SECSPERHOUR + tm.min * SECSPERMIN + tm.sec

(* The year is guessed from the days and corrected once by the leap years  *)
(* of the guess; the day in the year is cut to 0 .. 364.                   *)
(* Slip: the year is not corrected.                                        *)
localtime_r_Guess(t) ==
    LET d == t \div SECSPERDAY
        y == d \div 365
        yday == (d - leap_years_from_epoch(y + EPOCH_YEAR)) % 365
        T == Table(y + EPOCH_YEAR)
        m == CHOOSE m \in 1 .. 12 : T[m] <= yday /\ yday < T[m + 1]
    IN  [year |-> y + EPOCH_YEAR - TM_YEAR_BASE, mon |-> m - 1, mday |-> yday - T[m] + 1, yday |-> yday,
         hour |-> (t % SECSPERDAY) \div SECSPERHOUR, min |-> (t % SECSPERHOUR) \div SECSPERMIN,
         sec |-> t % SECSPERMIN, wday |-> (d + EPOCH_WDAY) % 7]

localtime_r(t) ==
    LET d == t \div SECSPERDAY
        guess == d \div 365
        y == (d - leap_years_from_epoch(guess + EPOCH_YEAR)) \div 365
        yday == (d - leap_years_from_epoch(y + EPOCH_YEAR)) % 365
        T == Table(y + EPOCH_YEAR)
        m == CHOOSE m \in 1 .. 12 : T[m] <= yday /\ yday < T[m + 1]
    IN  [year |-> y + EPOCH_YEAR - TM_YEAR_BASE, mon |-> m - 1, mday |-> yday - T[m] + 1, yday |-> yday,
         hour |-> (t % SECSPERDAY) \div SECSPERHOUR, min |-> (t % SECSPERHOUR) \div SECSPERMIN,
         sec |-> t % SECSPERMIN, wday |-> (d + EPOCH_WDAY) % 7]

CalInit == day = 0 /\ sec = 0
(* The clock goes on to the next day that is looked at, at any time.       *)
CalNext == /\ day < LastDay /\ sec' \in Seconds
           /\ day' = IF day \in DOMAIN Jump THEN Jump[day] ELSE day + 1
CalSpec == CalInit /\ [][CalNext]_<<day, sec>>

-----------------------------------------------------------------------------
Now(d) == d * SECSPERDAY + sec
(* The last day of a leap year: the table has 366 days, the remainder 365. *)
LeapEnd(d) == LET tm == localtime_r(Now(d)) IN tm.yday = 0 /\ localtime_r(Now(d) + SECSPERDAY).yday = 0

(* mktime takes what localtime_r makes of a time back to it, and the date  *)
(* of the next day is the next date: the next of the month, or the first   *)
(* of the next month or year.  The last day of a leap year is the          *)
(* exception: localtime_r calls it the first day of the year.              *)
CalendarRight ==
    ~LeapEnd(day) =>
        LET tm == localtime_r(Now(day))
            next == localtime_r(Now(day) + SECSPERDAY)
        IN  /\ mktime(tm) = Now(day)
            /\ ~LeapEnd(day + 1) =>
                  \/ next = [tm EXCEPT !.mday = @ + 1, !.yday = @ + 1, !.wday = (@ + 1) % 7]
                  \/ next = [tm EXCEPT !.mday = 1, !.mon = @ + 1, !.yday = @ + 1, !.wday = (@ + 1) % 7]
                  \/ /\ tm.mon = 11 /\ tm.mday = 31
                     /\ next = [tm EXCEPT !.mday = 1, !.mon = 0, !.year = @ + 1, !.yday = 0,
                                          !.wday = (@ + 1) % 7]
=============================================================================
