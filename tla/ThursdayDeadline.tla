-------------------------- MODULE ThursdayDeadline --------------------------
(***************************************************************************)
(* When a mission has to be requested: thursday-deadline.util.ts.          *)
(* Instants are hours since 1970-01-01 00:00 UTC, days their quotients by  *)
(* 24.  The server is taken to run in UTC, as in its container; the code   *)
(* reads local date fields after adding the three hours of Madagascar.     *)
(***************************************************************************)
EXTENDS Integers

TzOffset == 3    \* TZ_OFFSET_MS, in hours

\* The Gregorian calendar from 1970 to 2099, as the Date object has it.
YearStart(y) == 365 * (y - 1970) + (y - 1969) \div 4
YearOf(day) ==
    CHOOSE y \in 1970 .. 2099 : YearStart(y) <= day /\ day < YearStart(y + 1)

\* The hours of departure whose week has its Thursday in these years.
Hours == {h \in Nat : (h + TzOffset) \div 24 + 3 < YearStart(2100)}

\* getUTCDay() || 7: Monday is 1 and Sunday 7; day 0 was a Thursday.
DayOfWeek(day) == ((day + 3) % 7) + 1

CeilDiv(a, b) == (a + b - 1) \div b

GetISOWeek(day) ==
    LET thursday == day + 4 - DayOfWeek(day)
        year == YearOf(thursday)
    IN  [year |-> year, week |-> CeilDiv(thursday - YearStart(year) + 1, 7)]

\* The first hour after Thursday 23:59:59 in Madagascar.
GetThursdayCutoff(depart) ==
    LET iso == GetISOWeek((depart + TzOffset) \div 24)
        jan4 == YearStart(iso.year) + 3
        weekOneMonday == jan4 - (DayOfWeek(jan4) - 1)
        targetMonday == weekOneMonday + (iso.week - 2) * 7
        thursday == targetMonday + 3
    IN  thursday * 24 + 21

\* Mutant of IsAfterDeadline: the first hour of Friday is still in time.
IsWellAfterDeadline(depart, now) == now > GetThursdayCutoff(depart)

IsAfterDeadline(depart, now) == now >= GetThursdayCutoff(depart)

=============================================================================
