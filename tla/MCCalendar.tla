----------------------------- MODULE MCCalendar -----------------------------
(* Instances of Calendar for TLC: the ends of months and years, leap years,   *)
(* noon, and the first and the last moment there is.                          *)
EXTENDS Calendar

At(days, h, m, s) == [days |-> days, hour |-> h, min |-> m, sec |-> s]
Day(y, m, d) == DayNumber(y, m, d) - DayNumber(1977, 12, 31)

Ends == {<<1978, 12, 31>>, <<1979, 1, 6>>, <<1980, 2, 28>>, <<1980, 2, 29>>, <<1981, 2, 28>>,
         <<1984, 12, 30>>, <<1988, 12, 31>>, <<1989, 1, 1>>, <<1999, 12, 31>>, <<2000, 2, 28>>,
         <<2000, 2, 29>>, <<2000, 12, 31>>, <<2001, 2, 28>>, <<2016, 12, 31>>, <<2023, 9, 9>>,
         <<2023, 12, 31>>, <<2024, 4, 30>>, <<2036, 2, 29>>, <<2037, 12, 31>>}

\* Hours, minutes and seconds are BCD: 35 is 23h, 89 is 59h.  An hour east of
\* Greenwich, two ticks after 02:14:05 on 19 Jan 2038 is the end of the time_t.
MCClocks == {At(Day(e[1], e[2], e[3]), 35, 89, 88) : e \in Ends}
            \cup {At(2, 0, 0, 0), At(Day(1995, 7, 14), 17, 89, 89), At(Day(2038, 1, 19), 2, 20, 5)}

\* 546 minutes is the most whose seconds fit an int.
MCZones == {0, -60, 300, 546}

Format(f, maxs) == [fmt |-> f, maxs |-> maxs]
MCFormats == {Format(ISO, 15), Format(ISO, 14),
              Format(<<"%", "A", ",", "%", "B">>, 16),
              Format(<<"%", "c">>, 25), Format(<<"%", "x">>, 18), Format(<<"%", "X", "%">>, 10),
              Format(<<"%", "j", "%", "U", "%", "W", "%", "w">>, 9),
              Format(<<"%", "a", "%", "b", "%", "y", "%", "I", "%", "p", "%", "Z", "%", "%", "%", "q">>, 40)}

\* The theorems of CalendarProofs are about instances like this.
ASSUME InstanceIsInTime == InTime
=============================================================================
