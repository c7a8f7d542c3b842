------------------------------ MODULE Calendar ------------------------------
(***************************************************************************)
(* Dates as the program's Date objects and the date inputs of its requests *)
(* use them.  A day is its number since 1 January 1970, an instant is      *)
(* 24 * day + hour; the last hour of a day stands for its last             *)
(* millisecond.                                                            *)
(***************************************************************************)
EXTENDS Integers

\* The number of the first day of month m of year y; as in the Date of
\* JavaScript, months below 1 and above 12 are of another year.
FirstDay(y, m) ==
  LET year == y + (m - 1) \div 12
      month == ((m - 1) % 12) + 1
      y1 == IF month <= 2 THEN year - 1 ELSE year
      since == IF month > 2 THEN month - 3 ELSE month + 9
  IN  365 * y1 + y1 \div 4 - y1 \div 100 + y1 \div 400
        + (153 * since + 2) \div 5 - 719468
YearOf(day) ==
  CHOOSE y \in 1969 + day \div 366 .. 1971 + day \div 365 :
    FirstDay(y, 1) <= day /\ day < FirstDay(y + 1, 1)
MonthOf(day) ==
  CHOOSE m \in 1 .. 12 :
    FirstDay(YearOf(day), m) <= day /\ day < FirstDay(YearOf(day), m + 1)
DateOf(day) == day - FirstDay(YearOf(day), MonthOf(day)) + 1
Weekday(day) == (day + 4) % 7      \* Sunday is 0
QuarterOf(day) == (MonthOf(day) - 1) \div 3 + 1

Midnight(t) == 24 * (t \div 24)
EndOfDay(t) == Midnight(t) + 23

----------------------------------------------------------------------------
\* The inputs of a request: an instant with its zone, a date with or without
\* a time in Vietnam, or a text of no accepted form.
VietnamOffset == 7
FromVietnam(y, m, d, h) == 24 * (FirstDay(y, m) + d - 1) + h - VietnamOffset
Refused == -1
ParseDateTime(input) ==
  CASE input.form = "zoned" -> input.at
    [] input.form = "local" -> FromVietnam(input.y, input.m, input.d, input.h)
    [] input.form = "date" -> FromVietnam(input.y, input.m, input.d, 0)
    [] OTHER -> Refused
\* A deadline given as a date lasts until the end of that day.
ParseExpiredAt(input) ==
  IF input.form = "date" THEN FromVietnam(input.y, input.m, input.d, 23)
  ELSE ParseDateTime(input)
=============================================================================
