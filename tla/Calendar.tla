------------------------------ MODULE Calendar ------------------------------
(* The time of the C library: the clock of CP/M 3, time(), gmtime(),          *)
(* localtime(), mktime(), ctime() and strftime(), called in any order while   *)
(* the clock runs.  gmtime(), localtime() and ctime() share one static        *)
(* structure, and a program has one time_t and one text.                      *)
(*                                                                            *)
(* A character is a digit, a letter of a name (which name, which letter) or a *)
(* sign.  Times are between 1978, where the clock's days begin, and the end   *)
(* of a 32-bit time_t.                                                        *)
EXTENDS Integers, Sequences, FiniteSets, SequencesExt

CONSTANTS Clocks,     \* readings of the clock when the program starts
          Zones,      \* values of time_zone: minutes west of Greenwich
          Formats,    \* formats given to strftime(), with maxs
          MaxTicks,   \* bound: how often the clock ticks
          None        \* nothing, yet

Bytes == 0..255
Clock == [days : Nat, hour : Bytes, min : Bytes, sec : Bytes]

ASSUME CalendarAssumption ==
    /\ \A c \in Clocks : c \in Clock
    /\ \A z \in Zones : z \in Int
    /\ \A f \in Formats : f.maxs \in Nat \ {0} /\ f.fmt \in Seq(STRING) /\ f.fmt # None
    /\ MaxTicks \in Nat

VARIABLES clock,      \* the BDOS's date and time: a day number, then two BCD digits each
          time_zone,
          t,          \* the program's time_t
          tim,        \* the static struct tm
          text,       \* the last text: its characters, what was returned, its room
          ticks,      \* ghost: how often the clock has ticked
          stamp,      \* ghost: the reading of the clock that t stands for
          shown,      \* ghost: the reading and the zone that tim stands for
          told        \* ghost: those that text stands for

vars == <<clock, time_zone, t, tim, text, ticks, stamp, shown, told>>

-----------------------------------------------------------------------------
(* Numbers.                                                                   *)

Int16(n) == ((n + 32768) % 65536) - 32768

frmbcdHex(c) == c                                        \* mutant: the byte as it is
frmbcd(c) == (c % 16) + ((c \div 16) % 16) * 10

EPOCH == 2922 - 1
convtime(c) == (((c.days + EPOCH) * 24 + frmbcd(c.hour)) * 60 + frmbcd(c.min)) * 60 + frmbcd(c.sec)

dylen(yr) == IF yr % 4 # 0 THEN 365 ELSE 366
monlen(yr) == <<31, IF yr % 4 = 0 THEN 29 ELSE 28, 31, 30, 31, 30, 31, 31, 30, 31, 30, 31>>

\* The days before year yr, and before month mon of it.
Years == 70..138
Before[yr \in 70..139] == IF yr = 70 THEN 0 ELSE Before[yr - 1] + dylen(yr - 1)
BeforeMonth(yr) ==
    LET days[mon \in 0..12] == IF mon = 0 THEN 0 ELSE days[mon - 1] + monlen(yr)[mon] IN days

gmtime(secs) ==
    LET day == secs \div 86400
        yr  == CHOOSE y \in Years : Before[y] <= day /\ day < Before[y + 1]
        yday == day - Before[yr]
        mon == CHOOSE m \in 0..11 : BeforeMonth(yr)[m] <= yday /\ yday < BeforeMonth(yr)[m + 1]
    IN  [sec |-> secs % 60, min |-> (secs \div 60) % 60, hour |-> (secs \div 3600) % 24,
         wday |-> (day + 4) % 7, year |-> yr, yday |-> yday,
         mon |-> mon, mday |-> yday - BeforeMonth(yr)[mon] + 1]

\* time_zone*60 is a product of ints.
localtime(secs) == gmtime(secs - Int16(time_zone * 60))

LEAP_YEAR(y) == (1900 + y) % 4 = 0 /\ ((1900 + y) % 100 # 0 \/ (1900 + y) % 400 = 0)

\* Mutant: February has its leap day in the years after a leap year, too.
DaysOfMonthLate(y, i) ==
    IF i = 1 /\ (LEAP_YEAR(y) \/ LEAP_YEAR(y - 1)) THEN 29
    ELSE <<31, 28, 31, 30, 31, 30, 31, 31, 30, 31, 30, 31>>[i + 1]
DaysOfMonth(y, i) ==
    IF i = 1 /\ LEAP_YEAR(y) THEN 29
    ELSE <<31, 28, 31, 30, 31, 30, 31, 31, 30, 31, 30, 31>>[i + 1]

\* The leap years before year y, and the days before month i of it.
Leaps[y \in Years] ==
    IF y = 70 THEN 0 ELSE Leaps[y - 1] + (IF LEAP_YEAR(y - 1) THEN 1 ELSE 0)
MonthDays(y) ==
    LET days[i \in 0..11] == IF i = 0 THEN 0 ELSE days[i - 1] + DaysOfMonth(y, i - 1) IN days

mktime(tm) ==
    (tm.year - 70) * (86400 * 365) + Leaps[tm.year] * 86400 + MonthDays(tm.year)[tm.mon] * 86400
    + (tm.mday - 1) * 86400 + tm.hour * 3600 + tm.min * 60 + tm.sec + time_zone * 60

-----------------------------------------------------------------------------
(* Texts.                                                                     *)

Digit(d)   == <<"digit", d>>
Sign(c)    == <<"sign", c>>
Name(kind, which, len) == [i \in 1..len |-> <<kind, which, i>>]

aday(w)   == Name("day", w, 3)
day(w)    == Name("day", w, <<6, 6, 7, 9, 8, 6, 8>>[w + 1])
amonth(m) == Name("month", m, 3)
month(m)  == Name("month", m, <<7, 8, 5, 5, 3, 4, 4, 6, 9, 7, 8, 8>>[m + 1])

\* strfmt(): %1 to %4 are digits, with leading zeros.
\* Mutant: the digits come out in the other order.
pow(k) == <<1, 10, 100, 1000, 10000>>[k + 1]
strfmtBackwards(n, len) == [i \in 1..len |-> Digit((n % pow(i)) \div pow(i - 1))]
strfmt(n, len) == [i \in 1..len |-> Digit((n % pow(len - i + 1)) \div pow(len - i))]
Two(n) == strfmt(n, 2)

\* Weeks begin on `first'; the days before the first one of them are in week 0, and
\* so is a 1 January that is this day itself, with the week it begins.
\* Mutant: the day of the week is forgotten.
WeekOfDays(tm, first) == tm.yday \div 7
Week(tm, first) ==
    (tm.yday \div 7) + (IF tm.yday % 7 > (tm.wday + 7 - first) % 7 THEN 1 ELSE 0)

Clocked(tm) == Two(tm.hour) \o <<Sign(":")>> \o Two(tm.min) \o <<Sign(":")>> \o Two(tm.sec)
Blank == <<Sign("blank")>>

\* %x: "%3s" is three digits, here of a pointer, and an s.
Address(kind, which) == Name(kind, which, 3) \o <<Sign("s")>>

Conversion(c, tm) ==
    CASE c = "%" -> <<Sign("%")>>
      [] c = "a" -> aday(tm.wday)
      [] c = "A" -> day(tm.wday)
      [] c = "b" -> amonth(tm.mon)
      [] c = "B" -> month(tm.mon)
      [] c = "c" -> aday(tm.wday) \o Blank \o amonth(tm.mon) \o Blank \o Two(tm.mday) \o Blank
                    \o Clocked(tm) \o Blank \o strfmt(tm.year + 1900, 4)
      [] c = "d" -> Two(tm.mday)
      [] c = "H" -> Two(tm.hour)
      [] c = "I" -> Two(IF tm.hour % 12 # 0 THEN tm.hour % 12 ELSE 12)
      [] c = "j" -> strfmt(tm.yday + 1, 3)
      [] c = "m" -> Two(tm.mon + 1)
      [] c = "M" -> Two(tm.min)
      [] c = "p" -> Name("noon", IF tm.hour > 11 THEN 1 ELSE 0, 2)
      [] c = "S" -> Two(tm.sec)
      [] c = "U" -> Two(Week(tm, 0))
      [] c = "W" -> Two(Week(tm, 1))
      [] c = "w" -> strfmt(tm.wday, 1)
      [] c = "x" -> Address("aday", tm.wday) \o Blank \o Address("amonth", tm.mon) \o Blank
                    \o Two(tm.mday) \o Blank \o strfmt(tm.year + 1900, 4)
      [] c = "X" -> Clocked(tm)
      [] c = "y" -> Two(tm.year % 100)
      [] c = "Y" -> strfmt(tm.year + 1900, 4)
      [] c = "Z" -> Name("zone", 0, 3)
      [] OTHER   -> <<Sign("%"), Sign(c)>>

\* The text of the format from place i on.  A % at the end stands for itself.
Expanded(fmt, tm) ==
    LET Rest[i \in 1..(Len(fmt) + 1)] ==
            IF i > Len(fmt) THEN <<>>
            ELSE IF fmt[i] # "%" THEN <<Sign(fmt[i])>> \o Rest[i + 1]
            ELSE IF i = Len(fmt) THEN <<Sign("%")>>
            ELSE Conversion(fmt[i + 1], tm) \o Rest[i + 2]
    IN  Rest[1]

\* What is stored in front of the null, and what is returned.
FirstOf(chars, n) == SubSeq(chars, 1, IF Len(chars) < n THEN Len(chars) ELSE n)
\* Mutant: the place of the null is not kept free.
StoredFull(chars, maxs) == [chars |-> FirstOf(chars, maxs),
                            ret |-> IF Len(chars) > maxs THEN 0 ELSE Len(chars), maxs |-> maxs]
Stored(chars, maxs) == [chars |-> FirstOf(chars, maxs - 1),
                        ret |-> IF Len(chars) > maxs - 1 THEN 0 ELSE Len(chars), maxs |-> maxs]

strftime(fmt, maxs, tm) == Stored(Expanded(fmt, tm), maxs)

\* put2d() writes two digits before place `at' of asctime()'s buffer, and ct there.
put2d(buf, at, i, cl, ct) ==
    [buf EXCEPT ![at + 1] = ct, ![at] = Digit(i % 10),
                ![at - 1] = IF i \div 10 # 0 THEN Digit(i \div 10) ELSE cl]

Null == Sign("null")
asctime(tm) ==
    LET names == aday(tm.wday) \o Blank \o amonth(tm.mon) \o Blank
        buf   == [i \in 1..27 |-> IF i <= Len(names) THEN names[i] ELSE Null]
        b1 == put2d(buf, 10, tm.mday, Sign("blank"), Sign("blank"))
        b2 == put2d(b1, 13, tm.hour, Digit(0), Sign(":"))
        b3 == put2d(b2, 16, tm.min, Digit(0), Sign(":"))
        b4 == put2d(b3, 19, tm.sec, Digit(0), Sign("blank"))
        b5 == put2d(b4, 22, (tm.year \div 100) + 19, Sign("blank"), Null)
    IN  put2d(b5, 24, tm.year % 100, Digit(0), Sign("newline"))

-----------------------------------------------------------------------------
(* The clock and the program.                                                 *)

NoText == [chars |-> <<>>, ret |-> 0, maxs |-> 1]

Init ==
    /\ clock \in Clocks /\ time_zone \in Zones
    /\ t = 0 /\ tim = None /\ text = NoText
    /\ ticks = 0 /\ stamp = None /\ shown = None /\ told = None

\* A second; both digits of a byte count to 59, or to 23.
Carried(b) == IF b % 16 = 9 THEN b + 7 ELSE b + 1
Tick ==
    /\ ticks < MaxTicks /\ ticks' = ticks + 1
    /\ LET s == clock.sec = 89          \* 59h
           m == s /\ clock.min = 89
           h == m /\ clock.hour = 35    \* 23h
       IN  clock' = [days |-> clock.days + (IF h THEN 1 ELSE 0),
                     hour |-> IF h THEN 0 ELSE IF m THEN Carried(clock.hour) ELSE clock.hour,
                     min  |-> IF m THEN 0 ELSE IF s THEN Carried(clock.min) ELSE clock.min,
                     sec  |-> IF s THEN 0 ELSE Carried(clock.sec)]
    /\ UNCHANGED <<time_zone, t, tim, text, stamp, shown, told>>

time ==
    /\ t' = convtime(clock) /\ stamp' = clock
    /\ UNCHANGED <<clock, time_zone, tim, text, ticks, shown, told>>

Gmtime ==
    /\ stamp # None
    /\ tim' = gmtime(t) /\ shown' = [clock |-> stamp, west |-> 0]
    /\ UNCHANGED <<clock, time_zone, t, text, ticks, stamp, told>>

Localtime ==
    /\ stamp # None
    /\ tim' = localtime(t) /\ shown' = [clock |-> stamp, west |-> time_zone]
    /\ UNCHANGED <<clock, time_zone, t, text, ticks, stamp, told>>

\* mktime() is for local time.
Mktime ==
    /\ shown # None /\ shown.west = time_zone
    /\ t' = mktime(tim) /\ stamp' = shown.clock
    /\ UNCHANGED <<clock, time_zone, tim, text, ticks, shown, told>>

Told(chars) == text' = [chars |-> chars, ret |-> 25, maxs |-> 28]

Asctime ==
    /\ shown # None
    /\ Told(asctime(tim)) /\ told' = [what |-> shown, fmt |-> None]
    /\ UNCHANGED <<clock, time_zone, t, tim, ticks, stamp, shown>>

Ctime ==
    /\ stamp # None
    /\ tim' = localtime(t) /\ shown' = [clock |-> stamp, west |-> time_zone]
    /\ Told(asctime(tim')) /\ told' = [what |-> shown', fmt |-> None]
    /\ UNCHANGED <<clock, time_zone, t, ticks, stamp>>

Strftime ==
    /\ shown # None
    /\ \E f \in Formats :
          /\ text' = strftime(f.fmt, f.maxs, tim)
          /\ told' = [what |-> shown, fmt |-> f.fmt]
    /\ UNCHANGED <<clock, time_zone, t, tim, ticks, stamp, shown>>

Next == Tick \/ time \/ Gmtime \/ Localtime \/ Mktime \/ Asctime \/ Ctime \/ Strftime

Spec == Init /\ [][Next]_vars

-----------------------------------------------------------------------------
(* Properties.  The reference is the calendar's arithmetic: the number of a   *)
(* day from its date, with the year beginning in March.                       *)

DayNumber(y, m, d) ==
    LET a == (14 - m) \div 12
        Y == y + 4800 - a
    IN  d + (153 * (m + 12 * a - 3) + 2) \div 5 + 365 * Y + Y \div 4 - Y \div 100 + Y \div 400 - 32045
IsDate(y, m, d) ==
    /\ m \in 1..12 /\ d >= 1
    /\ DayNumber(y, m, d) < IF m = 12 THEN DayNumber(y + 1, 1, 1) ELSE DayNumber(y, m + 1, 1)

Seconds(days, h, m, s) == days * 86400 + h * 3600 + m * 60 + s
Decimal(b) == (b \div 16) * 10 + (b % 16)

\* Seconds since 1 Jan 1970 of a reading of the clock, whose day 1 is 1 Jan 1978.
Reference(c) == Seconds(DayNumber(1978, 1, 1) - DayNumber(1970, 1, 1) + c.days - 1,
                        Decimal(c.hour), Decimal(c.min), Decimal(c.sec))
Local(w) == Reference(w.clock) - w.west * 60

\* What the properties suppose of the clock and the zone: two BCD digits each,
\* times that a long holds, west or east, and a zone whose seconds an int holds.
Coded(b, n)  == b % 16 <= 9 /\ Decimal(b) < n
IsReading(c) == c.days >= 1 /\ Coded(c.hour, 24) /\ Coded(c.min, 60) /\ Coded(c.sec, 60)
LastTime     == 2147483647
InTime ==
    /\ \A c \in Clocks : IsReading(c) /\ Reference(c) <= LastTime - MaxTicks
    /\ \A z \in Zones : /\ Int16(z * 60) = z * 60
                        /\ \A c \in Clocks : Reference(c) - z * 60 <= LastTime - MaxTicks

IsTime(y, mo, d, h, mi, s, secs) ==
    /\ IsDate(y, mo, d) /\ h \in 0..23 /\ mi \in 0..59 /\ s \in 0..59
    /\ DayNumber(y, mo, d) - DayNumber(1970, 1, 1) = secs \div 86400
    /\ Seconds(0, h, mi, s) = secs % 86400

\* A format whose text can be read back: year, month, day, hour, minute, second.
ISO == <<"%", "Y", "%", "m", "%", "d", "%", "H", "%", "M", "%", "S">>
ASSUME NoneIsNoFormat == None # ISO

TypeOK ==
    /\ clock \in Clock /\ t \in Nat
    /\ tim # None => /\ tim.wday \in 0..6 /\ tim.yday \in 0..365 /\ tim.mon \in 0..11
                     /\ tim.mday \in 1..31
    /\ Len(text.chars) < text.maxs

\* The program's time_t is the reading of the clock it was made from, also when
\* it has been broken down and put together again (convtime.c, ctime.c, mktime.c).
TimeKept == stamp # None => t = Reference(stamp)

\* The broken-down time is the date and time of that moment, in its zone, with
\* the right day of the week and of the year; and the numbers of a text, read
\* back, are the moment that the text was made of.
MomentTold ==
    /\ shown # None =>
           LET y == tim.year + 1900
           IN  /\ IsTime(y, tim.mon + 1, tim.mday, tim.hour, tim.min, tim.sec, Local(shown))
               /\ tim.wday = (DayNumber(y, tim.mon + 1, tim.mday) + 1) % 7
               /\ tim.yday = DayNumber(y, tim.mon + 1, tim.mday) - DayNumber(y, 1, 1)
    /\ told # None /\ text.ret # 0 /\ told.fmt = ISO =>
           LET digit(i) == text.chars[i][2]
               two(i)   == 10 * digit(i) + digit(i + 1)
           IN  IsTime(100 * two(1) + two(3), two(5), two(7), two(9), two(11), two(13),
                      Local(told.what))

\* strftime() returns the length of the text, and 0 exactly if it did not fit in
\* its room with its null; ctime()'s text is %c's, but for a blank before a short day.
Fits ==
    told # None =>
        LET tm == gmtime(Local(told.what))
        IN  IF told.fmt = None
            THEN LET c == Conversion("c", tm)
                 IN  /\ text.chars[25] = Sign("newline") /\ text.chars[26] = Null
                     /\ \A i \in 1..24 : \/ text.chars[i] = c[i]
                                        \/ (i = 9 /\ c[i] = Digit(0) /\ text.chars[i] = Sign("blank"))
            ELSE LET whole == Expanded(told.fmt, tm)
                 IN  IF Len(whole) < text.maxs THEN text.ret = Len(whole) /\ text.chars = whole
                     ELSE text.ret = 0 /\ IsStrictPrefix(text.chars, whole)

\* How many weeks that begin on `first' have begun in its year on the day of tm.
FirstDays(from, to, first) == {n \in from..to : (n + 1) % 7 = first}
WeeksBegun(tm, first) ==
    LET y == tm.year + 1900
    IN  Cardinality(FirstDays(DayNumber(y, 1, 1), DayNumber(y, tm.mon + 1, tm.mday), first))

\* %U and %W count the Sundays and the Mondays of the year up to the day, in the
\* years that do not begin with this very day (strftime.c).
WeeksCount ==
    shown # None =>
        \A first \in {0, 1} :
            (DayNumber(tim.year + 1900, 1, 1) + 1) % 7 # first
                => Week(tim, first) = WeeksBegun(tim, first)
=============================================================================
