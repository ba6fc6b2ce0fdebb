----------------------------- MODULE CivilTime -----------------------------
(***************************************************************************)
(* Timestamps of the caveat language (crates/capnagent-core/src/           *)
(* caveat_dsl.rs): the range checks and arithmetic of parse_rfc3339 and    *)
(* days_from_civil, and the conversion of the context's clock.  A literal  *)
(* is its fields.  The sizes of minute, hour and day are parameters.       *)
(***************************************************************************)
EXTENDS Integers

CONSTANTS SecondsPerMinute,  \* 60
          MinutesPerHour,    \* 60
          HoursPerDay,       \* 24
          Nanos              \* fractions of a second, 10^9

ASSUME SizesAssumption ==
    {SecondsPerMinute, MinutesPerHour, HoursPerDay, Nanos} \subseteq Nat \ {0, 1}

SecondsPerHour == MinutesPerHour * SecondsPerMinute
SecondsPerDay == HoursPerDay * SecondsPerHour

\* Mutant: every fourth year.
IsLeap_Julian(y) == y % 4 = 0

\* is_leap
IsLeap(y) == (y % 4 = 0 /\ y % 100 # 0) \/ y % 400 = 0

\* days_in_month, 0 for a month that is none
DaysInMonth(y, m) ==
    CASE m \in {1, 3, 5, 7, 8, 10, 12} -> 31
      [] m \in {4, 6, 9, 11} -> 30
      [] m = 2 -> IF IsLeap(y) THEN 29 ELSE 28
      [] OTHER -> 0

\* days_from_civil, in years that begin in March.  The division of a negative
\* year truncates, which the code corrects for.
DaysFromCivil(year, m, d) ==
    LET y == IF m <= 2 THEN year - 1 ELSE year
        era == IF y >= 0 THEN y \div 400 ELSE -((399 - y) \div 400)
        yoe == y - era * 400
        mp == IF m > 2 THEN m - 3 ELSE m + 9
        doy == (153 * mp + 2) \div 5 + d - 1
    IN era * 146097 + yoe * 365 + yoe \div 4 - yoe \div 100 + doy - 719468

\* The checks of parse_rfc3339.  A second of 60 is a leap second.
WellFormed(t) ==
    /\ t.month \in 1..12
    /\ t.day \in 1..DaysInMonth(t.year, t.month)
    /\ t.hour < HoursPerDay
    /\ t.minute < MinutesPerHour
    /\ t.second <= SecondsPerMinute
    /\ t.offsetHour < HoursPerDay
    /\ t.offsetMinute < MinutesPerHour

Offset(t) == t.sign * (t.offsetHour * SecondsPerHour + t.offsetMinute * SecondsPerMinute)

\* parse_rfc3339 of a well-formed timestamp: seconds since 1970 and nanos.
ParseRfc3339(t) ==
    <<DaysFromCivil(t.year, t.month, t.day) * SecondsPerDay
        + t.hour * SecondsPerHour + t.minute * SecondsPerMinute + t.second
        - Offset(t),
      t.nanos>>

\* system_time_to_unix of an instant in nanos since 1970, which may be before.
SystemTimeToUnix(instant) ==
    IF instant >= 0 THEN <<instant \div Nanos, instant % Nanos>>
    ELSE LET secs == (-instant) \div Nanos
             nanos == (-instant) % Nanos
         IN IF nanos = 0 THEN <<-secs, 0>> ELSE <<-secs - 1, Nanos - nanos>>

-----------------------------------------------------------------------------
(* The calendar, by counting.                                                *)

\* Days before the first of each month of a common year.
MonthStarts == <<0, 31, 59, 90, 120, 151, 181, 212, 243, 273, 304, 334, 365>>

\* Every fourth year is longer, but three in 400 years.
IsLongYear(y) == y % 4 = 0 /\ y % 400 \notin {100, 200, 300}

DaysBefore(y, m) == MonthStarts[m] + (IF m > 2 /\ IsLongYear(y) THEN 1 ELSE 0)

\* Days from 1970 to the first of January of a year of this century and the one
\* before and after, by adding up the years between; any other year by whole
\* cycles of 400 years.
YearStart[y \in 1770..2170] ==
    IF y = 1970 THEN 0
    ELSE IF y > 1970 THEN YearStart[y - 1] + DaysBefore(y - 1, 13)
    ELSE YearStart[y + 1] - DaysBefore(y, 13)

FirstOfYear(y) ==
    LET cycles == (y - 1770) \div 400
    IN YearStart[y - cycles * 400] + cycles * (400 * 365 + 97)

IsDate(y, m, d) == m \in 1..12 /\ d \in 1..(DaysBefore(y, m + 1) - DaysBefore(y, m))

\* The instant a timestamp names, in nanos since 1970.
Instant(t) ==
    LET days == FirstOfYear(t.year) + DaysBefore(t.year, t.month) + t.day - 1
        minutes == (days * HoursPerDay + t.hour - t.sign * t.offsetHour) * MinutesPerHour
                   + t.minute - t.sign * t.offsetMinute
    IN (minutes * SecondsPerMinute + t.second) * Nanos + t.nanos
=============================================================================
