--------------------------- MODULE CalendarProofs ---------------------------
(***************************************************************************)
(* Theorems about Calendar for every clock, zone and format.               *)
(***************************************************************************)
EXTENDS Calendar, FiniteSetTheorems, FunctionTheorems, SequenceTheorems, WellFoundedInduction, TLAPS

(***************************************************************************)
(* Sums over years and months.                                             *)
(***************************************************************************)
\* A set of numbers that is not empty has a least one.
LEMMA LeastNatural ==
    ASSUME NEW T, T \subseteq Nat, T # {}
    PROVE  \E m \in T : \A k \in T : m <= k
<1> DEFINE R == {ss \in Nat \X Nat : ss[1] < ss[2]}
<1>1. IsWellFoundedOn(R, Nat)
  BY NatLessThanWellFounded DEF OpToRel
<1>2. PICK m \in T : \A k \in T : ~(<<k, m>> \in R)
  BY <1>1, WFMin
<1>3. ASSUME NEW k \in T, k < m PROVE FALSE
  <2>1. <<k, m>> \in Nat \X Nat /\ <<k, m>>[1] < <<k, m>>[2]
    BY <1>3
  <2>2. QED
    BY <1>2, <2>1
<1>4. QED
  BY <1>3

\* The days before a year have a closed form.
LEMMA BeforeIs ==
    \A y \in 70..139 : Before[y] = 365 * (y - 70) + (y - 69) \div 4
<1> DEFINE f == [y \in 70..139 |-> 365 * (y - 70) + (y - 69) \div 4]
<1>1. f = [y \in 70..139 |-> IF y = 70 THEN 0 ELSE f[y - 1] + dylen(y - 1)]
  <2>1. ASSUME NEW y \in 70..139
        PROVE  365 * (y - 70) + (y - 69) \div 4 = IF y = 70 THEN 0 ELSE f[y - 1] + dylen(y - 1)
    <3>1. CASE y = 70
      BY <3>1
    <3>2. CASE y # 70
      <4>1. y - 1 \in 70..139 /\ f[y - 1] = 365 * (y - 1 - 70) + (y - 1 - 69) \div 4
        BY <3>2
      <4>2. 365 * (y - 70) + (y - 69) \div 4
              = 365 * (y - 1 - 70) + (y - 1 - 69) \div 4 + (IF (y - 1) % 4 # 0 THEN 365 ELSE 366)
        BY Z3
      <4>3. QED
        BY <3>2, <4>1, <4>2 DEF dylen
    <3>3. QED
      BY <3>1, <3>2
  <2>2. QED
    BY <2>1
<1>2. Before = [y \in 70..139 |-> IF y = 70 THEN 0 ELSE Before[y - 1] + dylen(y - 1)]
  BY <1>1 DEF Before
<1> DEFINE T == {y \in 70..139 : Before[y] # f[y]}
<1>3. ASSUME T # {} PROVE FALSE
  <2>1. T \subseteq Nat
    OBVIOUS
  <2>2. PICK y \in T : \A k \in T : y <= k
    BY <1>3, <2>1, LeastNatural, ZenonT(40)
  <2>3. CASE y = 70
    BY <1>2, <2>2, <2>3
  <2>4. CASE y # 70
    <3>1. y - 1 \in 70..139 /\ ~(y <= y - 1)
      BY <2>4
    <3>2. Before[y - 1] = f[y - 1]
      BY <2>2, <3>1
    <3>3. QED
      BY <1>1, <1>2, <2>4, <3>2
  <2>5. QED
    BY <2>3, <2>4
<1>4. QED
  BY <1>3


\* The days before a month.
LEMMA BeforeMonthIs ==
    ASSUME NEW yr \in Years
    PROVE  \A m \in 0..12 :
               BeforeMonth(yr)[m] = IF m <= 1 THEN 31 * m
                                    ELSE 59 + (IF yr % 4 = 0 THEN 1 ELSE 0) + (153 * (m - 2) + 2) \div 5
<1> DEFINE d(m) == IF m <= 1 THEN 31 * m
                   ELSE 59 + (IF yr % 4 = 0 THEN 1 ELSE 0) + (153 * (m - 2) + 2) \div 5
           f == [m \in 0..12 |-> d(m)]
           F(g) == [m \in 0..12 |-> IF m = 0 THEN 0 ELSE g[m - 1] + monlen(yr)[m]]
<1>1. ASSUME NEW m \in 1..12
      PROVE  d(m) = d(m - 1) + monlen(yr)[m]
  <2>1. /\ monlen(yr)[1] = 31 /\ monlen(yr)[3] = 31 /\ monlen(yr)[4] = 30 /\ monlen(yr)[5] = 31
        /\ monlen(yr)[6] = 30 /\ monlen(yr)[7] = 31 /\ monlen(yr)[8] = 31 /\ monlen(yr)[9] = 30
        /\ monlen(yr)[10] = 31 /\ monlen(yr)[11] = 30 /\ monlen(yr)[12] = 31
        /\ monlen(yr)[2] = IF yr % 4 = 0 THEN 29 ELSE 28
    BY DEF monlen
  <2>2. m \in {1, 2, 3, 4, 5, 6, 7, 8, 9, 10, 11, 12}
    OBVIOUS
  <2>3. QED
    BY <2>1, <2>2
<1>2. \A m \in 0..12 : f[m] = d(m)
  OBVIOUS
<1>3. f = F(f)
  <2>1. ASSUME NEW m \in 0..12
        PROVE  d(m) = IF m = 0 THEN 0 ELSE f[m - 1] + monlen(yr)[m]
    <3>1. CASE m = 0
      BY <3>1
    <3>2. CASE m # 0
      <4>1. m \in 1..12 /\ m - 1 \in 0..12
        BY <3>2
      <4> HIDE DEF d, f
      <4>2. f[m - 1] = d(m - 1)
        BY <1>2, <4>1
      <4>3. QED
        BY <1>1, <3>2, <4>1, <4>2
    <3>3. QED
      BY <3>1, <3>2
  <2> HIDE DEF d
  <2>2. QED
    BY <2>1
<1>4. BeforeMonth(yr) = F(BeforeMonth(yr))
  <2> HIDE DEF f
  <2>1. QED
    BY <1>3 DEF BeforeMonth
<1> HIDE DEF f
<1> DEFINE b == BeforeMonth(yr)
           T == {m \in 0..12 : b[m] # f[m]}
<1>5. ASSUME T # {} PROVE FALSE
  <2>1. T \subseteq Nat
    OBVIOUS
  <2>2. PICK m \in T : \A k \in T : m <= k
    BY <1>5, <2>1, LeastNatural
  <2>3. CASE m = 0
    BY <1>3, <1>4, <2>2, <2>3
  <2>4. CASE m # 0
    <3>1. m - 1 \in 0..12 /\ ~(m <= m - 1)
      BY <2>4
    <3>2. b[m - 1] = f[m - 1]
      BY <2>2, <3>1
    <3>3. QED
      BY <1>3, <1>4, <2>4, <3>2
  <2>5. QED
    BY <2>3, <2>4
<1>6. QED
  BY <1>2, <1>5

\* The years that mktime() takes for leap years are those that dylen() does.
LEMMA LeapYears == \A y \in Years : LEAP_YEAR(y) <=> y % 4 = 0
  BY Z3 DEF LEAP_YEAR, Years


\* The leap years before a year, as mktime() counts them.
LEMMA LeapsIs == \A y \in Years : Leaps[y] = (y - 69) \div 4
<1> DEFINE d(y) == (y - 69) \div 4
           f == [y \in Years |-> d(y)]
           F(g) == [y \in Years |-> IF y = 70 THEN 0
                                    ELSE g[y - 1] + (IF LEAP_YEAR(y - 1) THEN 1 ELSE 0)]
<1>1. \A y \in Years : f[y] = d(y)
  OBVIOUS
<1>2. f = F(f)
  <2>1. ASSUME NEW y \in Years
        PROVE  d(y) = IF y = 70 THEN 0 ELSE f[y - 1] + (IF LEAP_YEAR(y - 1) THEN 1 ELSE 0)
    <3>1. CASE y = 70
      BY <3>1
    <3>2. CASE y # 70
      <4>1. y - 1 \in Years
        BY <3>2 DEF Years
      <4>2. d(y) = d(y - 1) + (IF (y - 1) % 4 = 0 THEN 1 ELSE 0)
        BY Z3 DEF Years
      <4> HIDE DEF d, f
      <4>3. f[y - 1] = d(y - 1)
        BY <1>1, <4>1
      <4>4. LEAP_YEAR(y - 1) <=> (y - 1) % 4 = 0
        BY <4>1, LeapYears
      <4>5. QED
        BY <3>2, <4>2, <4>3, <4>4
    <3>3. QED
      BY <3>1, <3>2
  <2> HIDE DEF d
  <2>2. QED
    BY <2>1
<1>3. Leaps = F(Leaps)
  <2> HIDE DEF f
  <2>1. QED
    BY <1>2 DEF Leaps
<1> HIDE DEF f
<1> DEFINE T == {y \in Years : Leaps[y] # f[y]}
<1>4. ASSUME T # {} PROVE FALSE
  <2>1. T \subseteq Nat
    BY DEF Years
  <2>2. PICK y \in T : \A k \in T : y <= k
    BY <1>4, <2>1, LeastNatural
  <2>3. CASE y = 70
    BY <1>2, <1>3, <2>2, <2>3
  <2>4. CASE y # 70
    <3>1. y - 1 \in Years /\ ~(y <= y - 1)
      BY <2>4 DEF Years
    <3>2. Leaps[y - 1] = f[y - 1]
      BY <2>2, <3>1
    <3>3. QED
      BY <1>2, <1>3, <2>4, <3>2
  <2>5. QED
    BY <2>3, <2>4
<1>5. QED
  BY <1>1, <1>4

\* The days that mktime() counts before a month are those that gmtime() does.
LEMMA MonthDaysIs ==
    ASSUME NEW yr \in Years
    PROVE  \A m \in 0..11 : MonthDays(yr)[m] = BeforeMonth(yr)[m]
<1> DEFINE d(m) == IF m <= 1 THEN 31 * m
                   ELSE 59 + (IF yr % 4 = 0 THEN 1 ELSE 0) + (153 * (m - 2) + 2) \div 5
           f == [m \in 0..11 |-> d(m)]
           F(g) == [m \in 0..11 |-> IF m = 0 THEN 0 ELSE g[m - 1] + DaysOfMonth(yr, m - 1)]
<1>1. ASSUME NEW m \in 1..11
      PROVE  d(m) = d(m - 1) + DaysOfMonth(yr, m - 1)
  <2>1. /\ DaysOfMonth(yr, 0) = 31 /\ DaysOfMonth(yr, 2) = 31 /\ DaysOfMonth(yr, 3) = 30
        /\ DaysOfMonth(yr, 4) = 31 /\ DaysOfMonth(yr, 5) = 30 /\ DaysOfMonth(yr, 6) = 31
        /\ DaysOfMonth(yr, 7) = 31 /\ DaysOfMonth(yr, 8) = 30 /\ DaysOfMonth(yr, 9) = 31
        /\ DaysOfMonth(yr, 10) = 30 /\ DaysOfMonth(yr, 11) = 31
    BY DEF DaysOfMonth
  <2>2. DaysOfMonth(yr, 1) = IF yr % 4 = 0 THEN 29 ELSE 28
    BY LeapYears DEF DaysOfMonth
  <2>3. m \in {1, 2, 3, 4, 5, 6, 7, 8, 9, 10, 11}
    OBVIOUS
  <2>4. QED
    BY <2>1, <2>2, <2>3
<1>2. \A m \in 0..11 : f[m] = d(m)
  OBVIOUS
<1>3. f = F(f)
  <2>1. ASSUME NEW m \in 0..11
        PROVE  d(m) = IF m = 0 THEN 0 ELSE f[m - 1] + DaysOfMonth(yr, m - 1)
    <3>1. CASE m = 0
      BY <3>1
    <3>2. CASE m # 0
      <4>1. m \in 1..11 /\ m - 1 \in 0..11
        BY <3>2
      <4> HIDE DEF d, f
      <4>2. f[m - 1] = d(m - 1)
        BY <1>2, <4>1
      <4>3. QED
        BY <1>1, <3>2, <4>1, <4>2
    <3>3. QED
      BY <3>1, <3>2
  <2> HIDE DEF d
  <2>2. QED
    BY <2>1
<1>4. MonthDays(yr) = F(MonthDays(yr))
  <2> HIDE DEF f
  <2>1. QED
    BY <1>3 DEF MonthDays
<1> HIDE DEF f
<1> DEFINE b == MonthDays(yr)
           T == {m \in 0..11 : b[m] # f[m]}
<1>5. ASSUME T # {} PROVE FALSE
  <2>1. T \subseteq Nat
    OBVIOUS
  <2>2. PICK m \in T : \A k \in T : m <= k
    BY <1>5, <2>1, LeastNatural
  <2>3. CASE m = 0
    BY <1>3, <1>4, <2>2, <2>3
  <2>4. CASE m # 0
    <3>1. m - 1 \in 0..11 /\ ~(m <= m - 1)
      BY <2>4
    <3>2. b[m - 1] = f[m - 1]
      BY <2>2, <3>1
    <3>3. QED
      BY <1>3, <1>4, <2>4, <3>2
  <2>5. QED
    BY <2>3, <2>4
<1>6. \A m \in 0..11 : BeforeMonth(yr)[m] = d(m)
  BY BeforeMonthIs
<1>7. QED
  BY <1>2, <1>5, <1>6

(***************************************************************************)
(* Days.                                                                   *)
(***************************************************************************)
\* A day of a year and a month, as gmtime() finds them, is in them.
IsDay(n, yr, mon, yday) ==
    /\ yr \in Years /\ mon \in 0..11 /\ yday \in Nat
    /\ yday = n - Before[yr] /\ n < Before[yr + 1]
    /\ BeforeMonth(yr)[mon] <= yday /\ yday < BeforeMonth(yr)[mon + 1]

\* The last day that gmtime() can find the year of.
LastDay == 25201

LEMMA YearFound ==
    ASSUME NEW n \in 0..LastDay
    PROVE  \E y \in Years : Before[y] <= n /\ n < Before[y + 1]
<1> DEFINE T == {y \in 71..139 : n < Before[y]}
<1>1. \A y \in 70..139 : Before[y] = 365 * (y - 70) + (y - 69) \div 4
  BY BeforeIs
<1>2. Before[70] = 0 /\ Before[139] = 25202
  BY <1>1
<1>3. 139 \in T /\ T \subseteq Nat
  <2>1. n < 25202
    <3>1. n \in Int /\ LastDay \in Int /\ LastDay < 25202
      BY DEF LastDay
    <3>2. n <= LastDay
      OBVIOUS
    <3>3. QED
      BY <3>1, <3>2
  <2>2. 139 \in 71..139
    OBVIOUS
  <2>3. QED
    BY <1>2, <2>1, <2>2
<1>4. PICK y \in T : \A k \in T : y <= k
  <2> HIDE DEF T
  <2>1. T \subseteq Nat /\ T # {}
    BY <1>3
  <2>2. QED
    BY <2>1, LeastNatural, Zenon
<1>5. CASE y = 71
  <2>1. 70 \in Years /\ 70 + 1 = 71
    BY DEF Years
  <2>2. Before[70] <= n /\ n < Before[70 + 1]
    BY <1>2, <1>4, <1>5
  <2>3. QED
    BY <2>1, <2>2
<1>6. CASE y # 71
  <2>1. y - 1 \in 71..139 /\ ~(y <= y - 1) /\ y - 1 \in Years /\ (y - 1) + 1 = y
    BY <1>4, <1>6 DEF Years
  <2>2. ~(n < Before[y - 1])
    BY <1>4, <2>1
  <2>3. Before[y - 1] \in Int
    BY <1>1, <2>1
  <2>4. QED
    BY <1>4, <2>1, <2>2, <2>3
<1>7. QED
  BY <1>5, <1>6

\* A year has 365 days, or 366.
LEMMA YearLength ==
    ASSUME NEW y \in Years
    PROVE  /\ Before[y] \in Nat /\ Before[y + 1] = Before[y] + dylen(y)
           /\ dylen(y) = BeforeMonth(y)[12]
<1>1. Before[y] = 365 * (y - 70) + (y - 69) \div 4
  BY BeforeIs DEF Years
<1>2. y + 1 \in 70..139
  BY DEF Years
<1>3. Before[y + 1] = 365 * (y + 1 - 70) + (y + 1 - 69) \div 4
  <2>1. PICK z \in 70..139 : z = y + 1
    BY <1>2
  <2>2. Before[z] = 365 * (z - 70) + (z - 69) \div 4
    BY BeforeIs
  <2>3. y \in Int
    BY DEF Years
  <2>4. QED
    BY <2>1, <2>2, <2>3
<1>4. (y + 1 - 69) \div 4 = (y - 69) \div 4 + (IF y % 4 = 0 THEN 1 ELSE 0)
  BY Z3 DEF Years
<1>5. (y - 69) \div 4 \in Nat
  BY Z3 DEF Years
<1>6. dylen(y) = 365 + IF y % 4 = 0 THEN 1 ELSE 0
  BY DEF dylen
<1>7. 12 \in 0..12 /\ (153 * (12 - 2) + 2) \div 5 = 306
  OBVIOUS
<1>8. BeforeMonth(y)[12] = 59 + (IF y % 4 = 0 THEN 1 ELSE 0) + 306
  BY <1>7, BeforeMonthIs
<1>9. QED
  <2>1. Before[y] \in Nat
    BY <1>1, <1>5 DEF Years
  <2>2. Before[y + 1] = Before[y] + dylen(y)
    BY <1>1, <1>3, <1>4, <1>5, <1>6 DEF Years
  <2>3. dylen(y) = BeforeMonth(y)[12]
    BY <1>6, <1>8
  <2>4. QED
    BY <2>1, <2>2, <2>3


LEMMA MonthFound ==
    ASSUME NEW yr \in Years, NEW yday \in Nat, yday < BeforeMonth(yr)[12]
    PROVE  \E m \in 0..11 : BeforeMonth(yr)[m] <= yday /\ yday < BeforeMonth(yr)[m + 1]
<1> DEFINE b == BeforeMonth(yr)
           T == {m \in 1..12 : yday < b[m]}
<1>1. \A m \in 0..12 : b[m] \in Nat
  <2>1. \A m \in 0..12 : b[m] = IF m <= 1 THEN 31 * m
                                ELSE 59 + (IF yr % 4 = 0 THEN 1 ELSE 0) + (153 * (m - 2) + 2) \div 5
    BY BeforeMonthIs
  <2>2. QED
    BY <2>1
<1>2. b[0] = 0
  <2>1. 0 \in 0..12
    OBVIOUS
  <2>2. QED
    BY <2>1, BeforeMonthIs
<1> HIDE DEF b
<1>3. 12 \in T /\ T \subseteq Nat
  BY DEF b
<1>4. PICK m \in T : \A k \in T : m <= k
  BY <1>3, LeastNatural
<1>5. CASE m = 1
  <2>1. 0 \in 0..11 /\ 0 + 1 = 1
    OBVIOUS
  <2>2. b[0] <= yday /\ yday < b[0 + 1]
    BY <1>2, <1>4, <1>5
  <2>3. QED
    BY <2>1, <2>2 DEF b
<1>6. CASE m # 1
  <2>1. m - 1 \in 1..12 /\ ~(m <= m - 1) /\ m - 1 \in 0..11 /\ (m - 1) + 1 = m /\ m - 1 \in 0..12
    BY <1>4, <1>6
  <2>2. ~(yday < b[m - 1])
    BY <1>4, <2>1
  <2>3. b[m - 1] \in Nat
    BY <1>1, <2>1
  <2>4. b[m - 1] <= yday
    BY <2>2, <2>3
  <2>5. yday < b[(m - 1) + 1]
    BY <1>4, <2>1
  <2>6. QED
    BY <2>1, <2>4, <2>5 DEF b
<1>7. QED
  BY <1>5, <1>6

\* What gmtime() makes of a time.
Broken(tm, secs) ==
    /\ IsDay(secs \div 86400, tm.year, tm.mon, tm.yday)
    /\ tm.mday = tm.yday - BeforeMonth(tm.year)[tm.mon] + 1
    /\ tm.wday = ((secs \div 86400) + 4) % 7
    /\ tm.hour = (secs \div 3600) % 24 /\ tm.min = (secs \div 60) % 60 /\ tm.sec = secs % 60

LEMMA GmtimeBreaks ==
    ASSUME NEW secs \in Nat, secs \div 86400 <= LastDay
    PROVE  Broken(gmtime(secs), secs)
<1> DEFINE n == secs \div 86400
           yr == CHOOSE y \in Years : Before[y] <= n /\ n < Before[y + 1]
           yday == n - Before[yr]
           mon == CHOOSE m \in 0..11 : BeforeMonth(yr)[m] <= yday /\ yday < BeforeMonth(yr)[m + 1]
<1>1. n \in 0..LastDay
  BY Z3 DEF LastDay
<1> HIDE DEF n
<1>2. yr \in Years /\ Before[yr] <= n /\ n < Before[yr + 1]
  <2>1. \E y \in Years : Before[y] <= n /\ n < Before[y + 1]
    BY <1>1, YearFound
  <2>2. QED
    BY <2>1
<1> HIDE DEF yr
<1>3. yday \in Nat /\ yday < BeforeMonth(yr)[12]
  <2>1. /\ Before[yr] \in Nat /\ Before[yr + 1] = Before[yr] + dylen(yr)
        /\ dylen(yr) = BeforeMonth(yr)[12]
    BY <1>2, YearLength
  <2>2. dylen(yr) \in Nat
    BY DEF dylen
  <2>3. n \in Int
    BY <1>1
  <2>4. QED
    BY <1>2, <2>1, <2>2, <2>3
<1> HIDE DEF yday
<1>4. mon \in 0..11 /\ BeforeMonth(yr)[mon] <= yday /\ yday < BeforeMonth(yr)[mon + 1]
  <2>1. \E m \in 0..11 : BeforeMonth(yr)[m] <= yday /\ yday < BeforeMonth(yr)[m + 1]
    BY <1>2, <1>3, MonthFound
  <2>2. QED
    BY <2>1
<1> HIDE DEF mon
<1>5. gmtime(secs) = [sec |-> secs % 60, min |-> (secs \div 60) % 60, hour |-> (secs \div 3600) % 24,
                      wday |-> (n + 4) % 7, year |-> yr, yday |-> yday,
                      mon |-> mon, mday |-> yday - BeforeMonth(yr)[mon] + 1]
  BY DEF gmtime, n, yr, yday, mon
<1>6. IsDay(n, yr, mon, yday)
  BY <1>2, <1>3, <1>4 DEF IsDay, yday
<1>7. QED
  BY <1>5, <1>6 DEF Broken, n

\* Quotient and remainder.
LEMMA Quotient ==
    ASSUME NEW n \in Nat, NEW k \in {24, 60}
    PROVE  \E a \in Nat, b \in 0..(k - 1) : n = k * a + b /\ a = n \div k /\ b = n % k
<1>1. CASE k = 24
  <2>1. n \div 24 \in Nat /\ n % 24 \in 0..23
    BY Z3
  <2>2. PICK a \in Nat : a = n \div 24
    BY <2>1
  <2>3. PICK b \in 0..23 : b = n % 24
    BY <2>1
  <2>4. n = 24 * a + b
    BY <2>2, <2>3, Z3
  <2>5. QED
    BY <1>1, <2>2, <2>3, <2>4
<1>2. CASE k = 60
  <2>1. n \div 60 \in Nat /\ n % 60 \in 0..59
    BY Z3
  <2>2. PICK a \in Nat : a = n \div 60
    BY <2>1
  <2>3. PICK b \in 0..59 : b = n % 60
    BY <2>1
  <2>4. n = 60 * a + b
    BY <2>2, <2>3, Z3
  <2>5. QED
    BY <1>2, <2>2, <2>3, <2>4
<1>3. QED
  BY <1>1, <1>2

\* The parts of a time: days, and the time of day.
Parts(secs, d, h, m, s) ==
    /\ secs = d * 86400 + h * 3600 + m * 60 + s
    /\ secs \div 86400 = d /\ (secs \div 3600) % 24 = h /\ (secs \div 60) % 60 = m
    /\ secs % 60 = s /\ secs % 86400 = h * 3600 + m * 60 + s

LEMMA PartsOfTime ==
    ASSUME NEW secs \in Nat
    PROVE  \E d \in Nat : \E h \in 0..23 : \E m \in 0..59 : \E s \in 0..59 : Parts(secs, d, h, m, s)
<1>1. PICK a \in Nat, b \in 0..59 : secs = 60 * a + b /\ a = secs \div 60 /\ b = secs % 60
  BY Quotient
<1>2. PICK h \in Nat, m \in 0..59 : a = 60 * h + m /\ h = a \div 60 /\ m = a % 60
  BY Quotient
<1>3. PICK d \in Nat, k \in 0..23 : h = 24 * d + k /\ d = h \div 24 /\ k = h % 24
  BY Quotient
<1>4. secs = d * 86400 + k * 3600 + m * 60 + b
  <2>1. secs = 60 * a + b /\ a = 60 * h + m /\ h = 24 * d + k
    BY <1>1, <1>2, <1>3
  <2>2. a = 1440 * d + 60 * k + m
    BY <2>1
  <2>3. QED
    BY <2>1, <2>2
<1>5. secs \div 86400 = d
  BY <1>4, Z3
<1>6. secs \div 3600 = h
  <2>1. secs = 60 * a + b /\ a = 60 * h + m
    BY <1>1, <1>2
  <2>2. secs = 3600 * h + 60 * m + b
    BY <2>1
  <2>3. 60 * m + b \in 0..3599
    OBVIOUS
  <2>4. PICK r \in 0..3599 : r = 60 * m + b
    BY <2>3
  <2>5. secs = 3600 * h + r
    BY <2>2, <2>4
  <2>6. QED
    BY <2>5, Z3
<1>7. secs % 86400 = k * 3600 + m * 60 + b
  <2>1. PICK r \in Nat : r = k * 3600 + m * 60 + b
    OBVIOUS
  <2>2. k <= 23 /\ m <= 59 /\ b <= 59
    OBVIOUS
  <2>3. r < 86400
    BY <2>1, <2>2
  <2>4. secs = 86400 * d + r
    BY <1>4, <2>1
  <2>5. secs % 86400 = r
    BY <2>3, <2>4, Z3
  <2>6. QED
    BY <2>1, <2>5
<1>8. (secs \div 3600) % 24 = k
  BY <1>3, <1>6
<1>9. (secs \div 60) % 60 = m
  BY <1>1, <1>2
<1>10. secs % 60 = b
  BY <1>1
<1>11. Parts(secs, d, k, m, b)
  BY <1>4, <1>5, <1>7, <1>8, <1>9, <1>10, SMT DEF Parts
<1>12. QED
  BY <1>11


\* What IsDay() says in numbers.
LEMMA DayFacts ==
    ASSUME NEW n \in Nat, NEW yr, NEW mon, NEW yday, IsDay(n, yr, mon, yday)
    PROVE  /\ yr \in 70..138 /\ mon \in 0..11 /\ yday \in 0..365
           /\ Before[yr] = 365 * (yr - 70) + (yr - 69) \div 4
           /\ Before[yr] \in Nat /\ n = Before[yr] + yday
           /\ BeforeMonth(yr)[mon] \in Nat /\ BeforeMonth(yr)[mon] <= yday
           /\ BeforeMonth(yr)[mon + 1] \in Nat /\ yday < BeforeMonth(yr)[mon + 1]
           /\ BeforeMonth(yr)[mon + 1] <= BeforeMonth(yr)[mon] + 31
           /\ yday < dylen(yr) /\ dylen(yr) = 365 + (IF yr % 4 = 0 THEN 1 ELSE 0)
<1>1. yr \in Years /\ mon \in 0..11 /\ yday \in Nat
  BY DEF IsDay
<1>2. /\ Before[yr] \in Nat /\ Before[yr + 1] = Before[yr] + dylen(yr)
  BY <1>1, YearLength
<1>3. Before[yr] = 365 * (yr - 70) + (yr - 69) \div 4
  BY <1>1, BeforeIs DEF Years
<1>4. dylen(yr) = 365 + (IF yr % 4 = 0 THEN 1 ELSE 0)
  BY DEF dylen
<1>5. n = Before[yr] + yday /\ yday < dylen(yr) /\ yday \in 0..365
  <2>1. yday = n - Before[yr] /\ n < Before[yr + 1]
    BY DEF IsDay
  <2>2. n = Before[yr] + yday
    BY <1>2, <2>1
  <2>3. yday < dylen(yr)
    BY <1>1, <1>2, <1>4, <2>1, <2>2
  <2>4. QED
    BY <1>1, <1>4, <2>2, <2>3
<1>6. /\ BeforeMonth(yr)[mon] \in Nat /\ BeforeMonth(yr)[mon + 1] \in Nat
      /\ BeforeMonth(yr)[mon + 1] <= BeforeMonth(yr)[mon] + 31
  <2> DEFINE l == IF yr % 4 = 0 THEN 1 ELSE 0
             e(m) == IF m <= 1 THEN 31 * m ELSE 59 + l + (153 * (m - 2) + 2) \div 5
  <2>1. PICK k \in 1..12 : k = mon + 1
    BY <1>1
  <2>2. BeforeMonth(yr)[mon] = e(mon) /\ BeforeMonth(yr)[k] = e(k)
    BY <1>1, <2>1, BeforeMonthIs
  <2>3. e(mon) \in Nat /\ e(k) \in Nat
    BY <1>1, <2>1
  <2>4. e(k) <= e(mon) + 31
    <3>1. l \in {0, 1}
      OBVIOUS
    <3> HIDE DEF l
    <3>2. mon \in {0, 1, 2, 3, 4, 5, 6, 7, 8, 9, 10, 11}
      BY <1>1
    <3>3. QED
      BY <2>1, <3>1, <3>2
  <2> HIDE DEF e
  <2>5. QED
    BY <2>1, <2>2, <2>3, <2>4
<1>7. BeforeMonth(yr)[mon] <= yday /\ yday < BeforeMonth(yr)[mon + 1]
  BY DEF IsDay
<1>8. QED
  BY <1>1, <1>2, <1>3, <1>4, <1>5, <1>6, <1>7 DEF Years

\* mktime() is the inverse of gmtime(), but for the zone.
LEMMA MktimeInverts ==
    ASSUME NEW tm, NEW secs \in Nat, Broken(tm, secs), time_zone \in Int
    PROVE  mktime(tm) = secs + time_zone * 60
<1>1. PICK n \in Nat : \E h \in 0..23 : \E m \in 0..59 : \E s \in 0..59 : Parts(secs, n, h, m, s)
  BY PartsOfTime
<1>2. PICK h \in 0..23, m \in 0..59, s \in 0..59 : Parts(secs, n, h, m, s)
  BY <1>1
<1>3. PICK yr, mon, yday, mday : yr = tm.year /\ mon = tm.mon /\ yday = tm.yday /\ mday = tm.mday
  OBVIOUS
<1>4. /\ secs = n * 86400 + h * 3600 + m * 60 + s /\ secs \div 86400 = n
      /\ tm.hour = h /\ tm.min = m /\ tm.sec = s
  BY <1>2 DEF Parts, Broken
<1>5. IsDay(n, yr, mon, yday) /\ mday = yday - BeforeMonth(yr)[mon] + 1
  BY <1>3, <1>4 DEF Broken
<1>6. PICK b \in Nat : b = BeforeMonth(yr)[mon]
  BY <1>5, DayFacts
<1>7. PICK l : l = (yr - 69) \div 4
  OBVIOUS
<1>8. /\ yr \in 70..138 /\ mon \in 0..11 /\ yday \in 0..365 /\ n = 365 * (yr - 70) + l + yday
      /\ Before[yr] = 365 * (yr - 70) + l /\ Before[yr] \in Nat
  BY <1>5, <1>7, DayFacts
<1>9. Leaps[yr] = l /\ MonthDays(yr)[mon] = b /\ l \in Nat
  <2>1. yr \in Years
    BY <1>8 DEF Years
  <2>2. l \in Nat
    BY <1>7, <1>8
  <2>3. QED
    BY <1>6, <1>7, <1>8, <2>1, <2>2, LeapsIs, MonthDaysIs
<1>10. mktime(tm) = (yr - 70) * (86400 * 365) + l * 86400 + b * 86400
                    + (mday - 1) * 86400 + h * 3600 + m * 60 + s + time_zone * 60
  BY <1>3, <1>4, <1>9 DEF mktime
<1>11. mday - 1 = yday - b
  BY <1>5, <1>6, <1>8
<1>12. (yr - 70) * (86400 * 365) + l * 86400 + b * 86400 + (yday - b) * 86400
         = (365 * (yr - 70) + l + yday) * 86400
  BY <1>6, <1>8, <1>9
<1>13. QED
  BY <1>4, <1>6, <1>8, <1>9, <1>10, <1>11, <1>12


(***************************************************************************)
(* The arithmetic of the calendar and that of the code.                    *)
(***************************************************************************)
\* The number of 1 Jan 1970, from which the code counts.
FirstDay == 2440588

\* The days before a month, for any year.
MonthStart(yr, mon) == IF mon <= 1 THEN 31 * mon
                       ELSE 59 + (IF yr % 4 = 0 THEN 1 ELSE 0) + (153 * (mon - 2) + 2) \div 5

\* The number of a day as the code has it.
DayCount(yr, mon, d) == FirstDay + 365 * (yr - 70) + (yr - 69) \div 4 + MonthStart(yr, mon) + d - 1

Counted(yr, mon, d) == DayNumber(yr + 1900, mon + 1, d) = DayCount(yr, mon, d)

LEMMA DayNumberIs == \A yr \in 70..139, mon \in 0..11, d \in Int : Counted(yr, mon, d)
<1> SUFFICES ASSUME NEW yr \in 70..139, NEW mon \in 0..11, NEW d \in Int
             PROVE  DayNumber(yr + 1900, mon + 1, d) = DayCount(yr, mon, d)
  BY DEF Counted
<1> DEFINE DN(e, Y) == d + e + 365 * Y + Y \div 4 - Y \div 100 + Y \div 400 - 32045
<1>1. ASSUME NEW Y \in 6769..6839
      PROVE  Y \div 400 - Y \div 100 = -51
  BY Z3
<1>2. CASE mon <= 1
  <2>1. (14 - (mon + 1)) \div 12 = 1
    BY <1>2, Z3
  <2>2. PICK Y \in 6769..6839 : Y = yr + 1900 + 4800 - 1
    OBVIOUS
  <2>3. (153 * (mon + 1 + 12 * 1 - 3) + 2) \div 5 = 306 + 31 * mon
    <3>1. CASE mon = 0
      BY <3>1
    <3>2. CASE mon = 1
      BY <3>2
    <3>3. QED
      BY <1>2, <3>1, <3>2
  <2>4. DayNumber(yr + 1900, mon + 1, d) = DN(306 + 31 * mon, Y)
    BY <2>1, <2>2, <2>3 DEF DayNumber
  <2>5. Y \div 4 = 1692 + (yr - 69) \div 4
    BY <2>2, Z3
  <2>6. MonthStart(yr, mon) = 31 * mon
    BY <1>2 DEF MonthStart
  <2>7. PICK q \in Int : q = (yr - 69) \div 4
    OBVIOUS
  <2>8. PICK c \in Int, k \in Int : c = Y \div 100 /\ k = Y \div 400 /\ k - c = -51
    BY <1>1
  <2>9. DN(306 + 31 * mon, Y) = d + 306 + 31 * mon + 365 * Y + 1692 + q - 51 - 32045
    BY <2>5, <2>7, <2>8
  <2>10. QED
    BY <2>2, <2>4, <2>6, <2>7, <2>9 DEF FirstDay, DayCount
<1>3. CASE mon > 1
  <2>1. (14 - (mon + 1)) \div 12 = 0
    BY <1>3, Z3
  <2>2. PICK Y \in 6769..6839 : Y = yr + 1900 + 4800 - 0
    OBVIOUS
  <2>3. PICK e \in Int : e = (153 * (mon - 2) + 2) \div 5
    OBVIOUS
  <2>4. (153 * (mon + 1 + 12 * 0 - 3) + 2) \div 5 = e
    <3>1. mon + 1 + 12 * 0 - 3 = mon - 2
      OBVIOUS
    <3>2. QED
      BY <2>3, <3>1
  <2>5. DayNumber(yr + 1900, mon + 1, d) = DN(e, Y)
    BY <2>1, <2>2, <2>4 DEF DayNumber
  <2>6. Y \div 4 = 1692 + (yr - 69) \div 4 + (IF yr % 4 = 0 THEN 1 ELSE 0)
    BY <2>2, Z3
  <2>7. MonthStart(yr, mon) = 59 + (IF yr % 4 = 0 THEN 1 ELSE 0) + e
    BY <1>3, <2>3 DEF MonthStart
  <2>8. PICK q \in Int, l \in Int : q = (yr - 69) \div 4 /\ l = IF yr % 4 = 0 THEN 1 ELSE 0
    OBVIOUS
  <2>9. PICK c \in Int, k \in Int : c = Y \div 100 /\ k = Y \div 400 /\ k - c = -51
    BY <1>1
  <2>10. DN(e, Y) = d + e + 365 * Y + 1692 + q + l - 51 - 32045
    BY <2>6, <2>8, <2>9
  <2>11. QED
    BY <2>2, <2>5, <2>7, <2>8, <2>10 DEF FirstDay, DayCount
<1>4. QED
  BY <1>2, <1>3


\* The number of a New Year's Day.
LEMMA NewYear ==
    ASSUME NEW yr \in 70..139
    PROVE  DayNumber(yr + 1900, 1, 1) = FirstDay + Before[yr] /\ Before[yr] \in Int
<1>1. PICK mon \in 0..11, d \in Int : mon = 0 /\ d = 1
  OBVIOUS
<1>2. DayNumber(yr + 1900, mon + 1, d) = DayCount(yr, mon, d)
  <2>1. Counted(yr, mon, d)
    BY DayNumberIs
  <2>2. QED
    BY <2>1 DEF Counted
<1>3. mon + 1 = 1 /\ MonthStart(yr, mon) = 0
  BY <1>1 DEF MonthStart
<1>4. PICK q \in Int : q = (yr - 69) \div 4
  OBVIOUS
<1>5. Before[yr] = 365 * (yr - 70) + q
  BY <1>4, BeforeIs
<1>6. DayCount(yr, mon, d) = FirstDay + 365 * (yr - 70) + q + 0 + 1 - 1
  BY <1>1, <1>3, <1>4 DEF DayCount
<1>7. QED
  BY <1>1, <1>2, <1>3, <1>5, <1>6 DEF FirstDay

\* The date of a day that gmtime() breaks down.
LEMMA DateIsDay ==
    ASSUME NEW n \in Nat, NEW yr, NEW mon, NEW yday, IsDay(n, yr, mon, yday),
           NEW mday, mday = yday - BeforeMonth(yr)[mon] + 1
    PROVE  /\ mday \in 1..31
           /\ DayNumber(yr + 1900, mon + 1, mday) = FirstDay + n
           /\ DayNumber(yr + 1900, 1, 1) = FirstDay + n - yday
           /\ IsDate(yr + 1900, mon + 1, mday)
<1>1. PICK b \in Nat, e \in Nat : b = BeforeMonth(yr)[mon] /\ e = BeforeMonth(yr)[mon + 1]
  BY DayFacts
<1>2. PICK l : l = (yr - 69) \div 4
  OBVIOUS
<1>3. /\ yr \in 70..138 /\ mon \in 0..11 /\ yday \in 0..365 /\ n = 365 * (yr - 70) + l + yday
      /\ b <= yday /\ yday < e /\ e <= b + 31 /\ Before[yr] = 365 * (yr - 70) + l
  BY <1>1, <1>2, DayFacts
<1>4. l \in Int
  BY <1>2, <1>3
<1>5. \A k \in 0..12 : BeforeMonth(yr)[k] = MonthStart(yr, k)
  BY <1>3, BeforeMonthIs, ZenonT(40) DEF MonthStart, Years
<1>6. mday = yday - b + 1 /\ mday \in 1..31
  BY <1>1, <1>3
<1>7. b = MonthStart(yr, mon)
  BY <1>1, <1>3, <1>5
<1>8. DayNumber(yr + 1900, mon + 1, mday) = FirstDay + n
  <2>1. yr \in 70..139 /\ mon \in 0..11 /\ mday \in Int
    BY <1>3, <1>6
  <2>2. DayNumber(yr + 1900, mon + 1, mday) = FirstDay + 365 * (yr - 70) + l + b + mday - 1
    <3>1. DayNumber(yr + 1900, mon + 1, mday) = DayCount(yr, mon, mday)
      <4>1. Counted(yr, mon, mday)
        BY <2>1, DayNumberIs
      <4>2. QED
        BY <4>1 DEF Counted
    <3>2. QED
      BY <1>2, <1>7, <3>1 DEF DayCount
  <2>3. QED
    BY <1>3, <1>4, <1>6, <2>2 DEF FirstDay
<1>9. DayNumber(yr + 1900, 1, 1) = FirstDay + n - yday
  <2>1. yr \in 70..139
    BY <1>3
  <2>2. DayNumber(yr + 1900, 1, 1) = FirstDay + Before[yr]
    BY <2>1, NewYear
  <2>3. QED
    BY <1>3, <1>4, <2>2 DEF FirstDay
<1>10. IsDate(yr + 1900, mon + 1, mday)
  <2>1. mon + 1 \in 1..12 /\ mday >= 1
    BY <1>3, <1>6
  <2>2. CASE mon = 11
    <3>1. PICK z \in 70..139 : z = yr + 1
      BY <1>3
    <3>2. DayNumber(z + 1900, 1, 1) = FirstDay + Before[z] /\ Before[z] \in Int
      BY NewYear
    <3>3. n < Before[z]
      BY <3>1 DEF IsDay
    <3>8. yr + 1900 + 1 = z + 1900
      BY <1>3, <3>1
    <3>9. DayNumber(yr + 1900, mon + 1, mday) < DayNumber(yr + 1900 + 1, 1, 1)
      BY <1>8, <3>2, <3>3, <3>8 DEF FirstDay
    <3>10. mon + 1 = 12
      BY <2>2
    <3>11. QED
      BY <2>1, <3>9, <3>10 DEF IsDate
  <2>3. CASE mon # 11
    <3>1. PICK k \in 0..11 : k = mon + 1
      BY <1>3, <2>3
    <3>2. e = MonthStart(yr, k)
      BY <1>1, <1>5, <3>1
    <3>3. yr \in 70..139 /\ 1 \in Int
      BY <1>3
    <3>4. DayNumber(yr + 1900, k + 1, 1) = FirstDay + 365 * (yr - 70) + l + e + 1 - 1
      <4>1. DayNumber(yr + 1900, k + 1, 1) = DayCount(yr, k, 1)
        <5>1. Counted(yr, k, 1)
          BY <3>3, DayNumberIs
        <5>2. QED
          BY <5>1 DEF Counted
      <4>2. QED
        BY <1>2, <3>2, <4>1 DEF DayCount
    <3>5. DayNumber(yr + 1900, mon + 1, mday) < DayNumber(yr + 1900, mon + 1 + 1, 1)
      BY <1>3, <1>4, <1>8, <3>1, <3>4 DEF FirstDay
    <3>6. mon + 1 # 12
      BY <1>3, <2>3
    <3>7. QED
      BY <2>1, <3>5, <3>6 DEF IsDate
  <2>4. QED
    BY <2>2, <2>3
<1>11. QED
  BY <1>6, <1>8, <1>9, <1>10

\* What gmtime() makes of a time is its date and time of day.
Dated(tm, secs) ==
    LET y == tm.year + 1900
    IN  /\ IsTime(y, tm.mon + 1, tm.mday, tm.hour, tm.min, tm.sec, secs)
        /\ tm.wday = (DayNumber(y, tm.mon + 1, tm.mday) + 1) % 7
        /\ tm.yday = DayNumber(y, tm.mon + 1, tm.mday) - DayNumber(y, 1, 1)

Ranges(tm) ==
    /\ tm.year \in 70..138 /\ tm.mon \in 0..11 /\ tm.mday \in 1..31 /\ tm.yday \in 0..365
    /\ tm.wday \in 0..6 /\ tm.hour \in 0..23 /\ tm.min \in 0..59 /\ tm.sec \in 0..59

LEMMA BrokenIsDated ==
    ASSUME NEW tm, NEW secs \in Nat, Broken(tm, secs)
    PROVE  Dated(tm, secs) /\ Ranges(tm)
<1>1. PICK n \in Nat : \E h \in 0..23 : \E m \in 0..59 : \E s \in 0..59 : Parts(secs, n, h, m, s)
  BY PartsOfTime
<1>2. PICK h \in 0..23, m \in 0..59, s \in 0..59 : Parts(secs, n, h, m, s)
  BY <1>1
<1>3. PICK yr, mon, yday, mday : yr = tm.year /\ mon = tm.mon /\ yday = tm.yday /\ mday = tm.mday
  OBVIOUS
<1>4. /\ secs \div 86400 = n /\ secs % 86400 = h * 3600 + m * 60 + s
      /\ tm.hour = h /\ tm.min = m /\ tm.sec = s
  BY <1>2 DEF Parts, Broken
<1>5. IsDay(n, yr, mon, yday) /\ mday = yday - BeforeMonth(yr)[mon] + 1 /\ tm.wday = (n + 4) % 7
  <2>1. secs \div 86400 = n
    BY <1>4
  <2>2. IsDay(n, yr, mon, yday) /\ tm.wday = (n + 4) % 7
    BY <1>3, <2>1 DEF Broken
  <2>3. QED
    BY <1>3, <2>2 DEF Broken
<1>6. /\ mday \in 1..31 /\ IsDate(yr + 1900, mon + 1, mday)
      /\ DayNumber(yr + 1900, mon + 1, mday) = FirstDay + n
      /\ DayNumber(yr + 1900, 1, 1) = FirstDay + n - yday
  BY <1>5, DateIsDay
<1>7. yr \in 70..138 /\ mon \in 0..11 /\ yday \in 0..365
  BY <1>5, DayFacts
<1>8. tm.wday = (FirstDay + n + 1) % 7 /\ tm.wday \in 0..6
  <2>1. (FirstDay + n + 1) % 7 = (n + 4) % 7
    BY Z3 DEF FirstDay
  <2>2. (n + 4) % 7 \in 0..6
    OBVIOUS
  <2>3. QED
    BY <1>5, <2>1, <2>2
<1>9. yday = (FirstDay + n) - (FirstDay + n - yday)
  BY <1>7 DEF FirstDay
<1>10. DayNumber(1970, 1, 1) = FirstDay
  BY DEF DayNumber, FirstDay
<1>11. IsTime(yr + 1900, mon + 1, mday, h, m, s, secs)
  <2>1. PICK y, mo : y = yr + 1900 /\ mo = mon + 1
    OBVIOUS
  <2>2. IsDate(y, mo, mday) /\ DayNumber(y, mo, mday) = FirstDay + n
    BY <1>6, <2>1
  <2>3. PICK c \in Int : c = FirstDay
    BY DEF FirstDay
  <2>4. DayNumber(y, mo, mday) - DayNumber(1970, 1, 1) = n
    BY <1>10, <2>2, <2>3
  <2>5. secs % 86400 = Seconds(0, h, m, s) /\ secs \div 86400 = n
    BY <1>4 DEF Seconds
  <2>6. IsTime(y, mo, mday, h, m, s, secs)
    BY <2>2, <2>4, <2>5 DEF IsTime
  <2>7. QED
    BY <2>1, <2>6
<1>12. Dated(tm, secs)
  BY <1>3, <1>4, <1>6, <1>8, <1>9, <1>11 DEF Dated
<1>13. QED
  BY <1>3, <1>4, <1>6, <1>7, <1>8, <1>12 DEF Ranges


-----------------------------------------------------------------------------
(***************************************************************************)
(* The clock.                                                              *)
(***************************************************************************)
LEMMA DecimalIs ==
    ASSUME NEW b \in Bytes
    PROVE  frmbcd(b) = Decimal(b) /\ Decimal(b) \in Nat
<1>1. b \in 0..255
  BY DEF Bytes
<1>2. (b \div 16) % 16 = b \div 16
  BY <1>1, Z3
<1>3. b \div 16 \in Nat /\ b % 16 \in Nat
  BY <1>1, Z3
<1>4. QED
  BY <1>2, <1>3 DEF frmbcd, Decimal

LEMMA ReferenceIs ==
    ASSUME NEW c \in Clock
    PROVE  /\ Reference(c) = (c.days + 2921) * 86400 + Decimal(c.hour) * 3600 + Decimal(c.min) * 60 + Decimal(c.sec)
           /\ Reference(c) \in Nat /\ convtime(c) = Reference(c)
<1>1. c.days \in Nat /\ c.hour \in Bytes /\ c.min \in Bytes /\ c.sec \in Bytes
  BY DEF Clock
<1>2. PICK d \in Nat, h \in Nat, m \in Nat, s \in Nat :
          d = c.days /\ h = Decimal(c.hour) /\ m = Decimal(c.min) /\ s = Decimal(c.sec)
  BY <1>1, DecimalIs
<1>3. frmbcd(c.hour) = h /\ frmbcd(c.min) = m /\ frmbcd(c.sec) = s
  BY <1>1, <1>2, DecimalIs
<1>4. DayNumber(1978, 1, 1) - DayNumber(1970, 1, 1) = 2922
  BY DEF DayNumber
<1>5. Reference(c) = (d + 2921) * 86400 + h * 3600 + m * 60 + s
  <2>1. 2922 + d - 1 = d + 2921
    OBVIOUS
  <2>2. QED
    BY <1>2, <1>4, <2>1 DEF Reference, Seconds
<1>6. convtime(c) = (d + 2921) * 86400 + h * 3600 + m * 60 + s
  <2>1. convtime(c) = (((d + 2921) * 24 + h) * 60 + m) * 60 + s
    BY <1>2, <1>3 DEF convtime, EPOCH
  <2>2. QED
    BY <2>1
<1>7. QED
  BY <1>2, <1>5, <1>6

\* The next of two BCD digits.
LEMMA CarriedIs ==
    ASSUME NEW b \in Bytes, NEW n \in {24, 60}, Coded(b, n),
           n = 24 => b # 35, n = 60 => b # 89
    PROVE  /\ Carried(b) \in Bytes /\ Coded(Carried(b), n)
           /\ Decimal(Carried(b)) = Decimal(b) + 1
<1>1. PICK x \in 0..15, y \in 0..15 : x = b \div 16 /\ y = b % 16
  <2>1. b \div 16 \in 0..15 /\ b % 16 \in 0..15
    BY Z3 DEF Bytes
  <2>2. QED
    BY <2>1
<1>2. b = 16 * x + y
  <2>1. b \in Nat
    BY DEF Bytes
  <2>2. x = b \div 16 /\ y = b % 16 /\ x \in Nat /\ y \in Nat
    BY <1>1
  <2>3. QED
    BY <2>1, <2>2, Z3
<1>3. Decimal(b) = 10 * x + y /\ y <= 9 /\ 10 * x + y < n
  <2>1. Decimal(b) = x * 10 + y
    BY <1>1 DEF Decimal
  <2>2. y <= 9 /\ Decimal(b) < n
    BY <1>1 DEF Coded
  <2>3. QED
    BY <2>1, <2>2
<1>4. CASE y = 9
  <2>1. Carried(b) = 16 * (x + 1)
    BY <1>1, <1>2, <1>4 DEF Carried
  <2>2. 10 * x + 10 < n
    BY <1>2, <1>3, <1>4
  <2>3. x <= 4
    BY <2>2
  <2>4. (16 * (x + 1)) \div 16 = x + 1 /\ (16 * (x + 1)) % 16 = 0
    BY Z3
  <2>5. Decimal(Carried(b)) = 10 * x + 10
    BY <2>1, <2>4 DEF Decimal
  <2>6. Carried(b) \in Bytes
    BY <2>1, <2>3 DEF Bytes
  <2>7. QED
    BY <1>3, <1>4, <2>1, <2>2, <2>4, <2>5, <2>6 DEF Coded
<1>5. CASE y # 9
  <2>1. Carried(b) = 16 * x + (y + 1) /\ y + 1 <= 9
    BY <1>1, <1>2, <1>3, <1>5 DEF Carried
  <2>2. 10 * x + y + 1 < n
    BY <1>2, <1>3, <1>5
  <2>3. x <= 5
    BY <2>2
  <2>4. PICK z \in 0..9 : z = y + 1
    BY <2>1
  <2>5. (16 * x + z) \div 16 = x /\ (16 * x + z) % 16 = z
    BY Z3
  <2>6. Decimal(Carried(b)) = 10 * x + y + 1
    BY <2>1, <2>4, <2>5 DEF Decimal
  <2>7. Carried(b) \in Bytes
    BY <2>1, <2>3 DEF Bytes
  <2>8. Carried(b) % 16 <= 9
    BY <2>1, <2>4, <2>5
  <2>9. QED
    BY <1>3, <2>2, <2>6, <2>7, <2>8 DEF Coded
<1>6. QED
  BY <1>4, <1>5

\* A tick is a second.
LEMMA TickIsASecond ==
    ASSUME clock \in Clock, IsReading(clock), Tick
    PROVE  clock' \in Clock /\ IsReading(clock') /\ Reference(clock') = Reference(clock) + 1
<1> DEFINE s == clock.sec = 89
           m == s /\ clock.min = 89
           h == m /\ clock.hour = 35
           c == [days |-> clock.days + (IF h THEN 1 ELSE 0),
                 hour |-> IF h THEN 0 ELSE IF m THEN Carried(clock.hour) ELSE clock.hour,
                 min  |-> IF m THEN 0 ELSE IF s THEN Carried(clock.min) ELSE clock.min,
                 sec  |-> IF s THEN 0 ELSE Carried(clock.sec)]
<1>1. clock' = c
  BY DEF Tick
<1>2. /\ clock.days \in Nat /\ clock.hour \in Bytes /\ clock.min \in Bytes /\ clock.sec \in Bytes
      /\ clock.days >= 1 /\ Coded(clock.hour, 24) /\ Coded(clock.min, 60) /\ Coded(clock.sec, 60)
  BY DEF Clock, IsReading
<1>3. 0 \in Bytes /\ Decimal(0) = 0 /\ Coded(0, 24) /\ Coded(0, 60) /\ Decimal(89) = 59 /\ Decimal(35) = 23
  BY DEF Bytes, Decimal, Coded
<1>4. \A b \in Bytes : Decimal(b) \in Nat
  BY DecimalIs
<1>5. PICK C : C = c
  OBVIOUS
<1>6. /\ C.days = clock.days + (IF h THEN 1 ELSE 0)
      /\ C.hour = IF h THEN 0 ELSE IF m THEN Carried(clock.hour) ELSE clock.hour
      /\ C.min = IF m THEN 0 ELSE IF s THEN Carried(clock.min) ELSE clock.min
      /\ C.sec = IF s THEN 0 ELSE Carried(clock.sec)
      /\ C = [days |-> C.days, hour |-> C.hour, min |-> C.min, sec |-> C.sec]
  BY <1>5
<1> HIDE DEF c
<1>7. /\ C.sec \in Bytes /\ Coded(C.sec, 60)
      /\ Decimal(C.sec) = IF s THEN Decimal(clock.sec) - 59 ELSE Decimal(clock.sec) + 1
  BY <1>2, <1>3, <1>6, CarriedIs
<1>8. /\ C.min \in Bytes /\ Coded(C.min, 60)
      /\ Decimal(C.min) = IF m THEN Decimal(clock.min) - 59
                          ELSE IF s THEN Decimal(clock.min) + 1 ELSE Decimal(clock.min)
  BY <1>2, <1>3, <1>6, CarriedIs
<1>9. /\ C.hour \in Bytes /\ Coded(C.hour, 24)
      /\ Decimal(C.hour) = IF h THEN Decimal(clock.hour) - 23
                           ELSE IF m THEN Decimal(clock.hour) + 1 ELSE Decimal(clock.hour)
  BY <1>2, <1>3, <1>6, CarriedIs
<1>10. C.days \in Nat /\ C.days >= 1
  BY <1>2, <1>6
<1>11. C \in Clock /\ IsReading(C)
  <2>1. C \in Clock
    BY <1>6, <1>7, <1>8, <1>9, <1>10 DEF Clock
  <2>2. QED
    BY <2>1, <1>7, <1>8, <1>9, <1>10 DEF IsReading
<1>12. Reference(C) = Reference(clock) + 1
  <2>1. PICK d \in Nat, x \in Nat, y \in Nat, z \in Nat :
            d = clock.days /\ x = Decimal(clock.hour) /\ y = Decimal(clock.min) /\ z = Decimal(clock.sec)
    BY <1>2, <1>4
  <2>2. Reference(clock) = (d + 2921) * 86400 + x * 3600 + y * 60 + z
    BY <2>1, ReferenceIs
  <2>3. Reference(C) = (C.days + 2921) * 86400 + Decimal(C.hour) * 3600 + Decimal(C.min) * 60 + Decimal(C.sec)
    BY <1>11, ReferenceIs
  <2>4. CASE h
    BY <1>6, <1>7, <1>8, <1>9, <2>1, <2>2, <2>3, <2>4
  <2>5. CASE m /\ ~h
    BY <1>6, <1>7, <1>8, <1>9, <2>1, <2>2, <2>3, <2>5
  <2>6. CASE s /\ ~m
    BY <1>6, <1>7, <1>8, <1>9, <2>1, <2>2, <2>3, <2>6
  <2>7. CASE ~s
    BY <1>6, <1>7, <1>8, <1>9, <2>1, <2>2, <2>3, <2>7
  <2>8. QED
    BY <2>4, <2>5, <2>6, <2>7
<1>13. QED
  BY <1>1, <1>5, <1>11, <1>12


-----------------------------------------------------------------------------
(***************************************************************************)
(* Weeks.                                                                  *)
(***************************************************************************)
LEMMA SevenDays ==
    ASSUME NEW n, NEW a \in Nat, NEW r \in 0..6, n = 7 * a + r
    PROVE  n \div 7 = a /\ n % 7 = r
  BY Z3

\* Day j is v days past a week's first one, and j + d is e days past the k-th behind j.
WeeksBehind(j, d, first, v, k, e) ==
    /\ j \in Int /\ d \in Nat /\ first \in {0, 1} /\ v \in 1..6 /\ v = (j + 1 - first) % 7
    /\ k \in Nat /\ e \in 0..6 /\ d + v = 7 * k + e

\* How many of a week's first days are behind j up to j + d.
LEMMA FirstDaysAre ==
    ASSUME NEW j, NEW d, NEW first, NEW v, NEW k, NEW e, WeeksBehind(j, d, first, v, k, e)
    PROVE  Cardinality(FirstDays(j, j + d, first)) = k
<1> DEFINE D == {n \in j..(j + d) : (n + 1) % 7 = first}
           f == [i \in 1..k |-> j - v + 7 * i]
<1>0. /\ j \in Int /\ d \in Nat /\ first \in {0, 1} /\ v \in 1..6 /\ v = (j + 1 - first) % 7
      /\ k \in Nat /\ e \in 0..6 /\ d + v = 7 * k + e
  BY DEF WeeksBehind
<1>1. PICK c \in Int : j + 1 - first - v = 7 * c
  BY <1>0, Z3
<1>2. ASSUME NEW i \in 1..k PROVE f[i] \in D
  <2>1. f[i] = j - v + 7 * i
    BY <1>0
  <2>2. j - v + 7 * i >= j /\ j - v + 7 * i <= j + d
    BY <1>0, SMT
  <2>3. j - v + 7 * i + 1 = 7 * (c + i) + first
    BY <1>0, <1>1
  <2>4. (j - v + 7 * i + 1) % 7 = first
    BY <1>0, <2>3, Z3
  <2>5. j - v + 7 * i \in j..(j + d)
    BY <1>0, <2>2
  <2>6. QED
    BY <2>1, <2>4, <2>5
<1>3. ASSUME NEW n \in D PROVE \E i \in 1..k : f[i] = n
  <2>1. PICK a \in Int : n + 1 = 7 * a + first
    BY <1>0, Z3
  <2>2. PICK i \in Int : i = a - c
    BY <1>0, <1>1
  <2>3. n = j - v + 7 * i
    BY <1>0, <1>1, <2>1, <2>2
  <2>4. n >= j /\ n <= j + d
    BY <1>0
  <2>5. i >= 1 /\ i <= k
    BY <1>0, <2>3, <2>4
  <2>6. QED
    BY <1>0, <2>3, <2>5
<1>4. f \in Bijection(1..k, D)
  <2>1. f \in [1..k -> D]
    BY <1>2
  <2>2. \A a, b \in 1..k : f[a] = f[b] => a = b
    BY <1>0
  <2>3. \A n \in D : \E i \in 1..k : f[i] = n
    BY <1>3
  <2> HIDE DEF f, D
  <2>4. QED
    BY <2>1, <2>2, <2>3, Fun_IsBij
<1>5. Cardinality(D) = k
  <2> HIDE DEF f, D
  <2>1. ExistsBijection(1..k, D)
    BY <1>0, <1>4 DEF ExistsBijection
  <2>2. QED
    BY <1>0, <2>1, FS_CountingElements
<1>6. QED
  BY <1>5 DEF FirstDays

\* The number of a week is that of its first days, in a year that begins on another.
LEMMA WeeksAre ==
    ASSUME NEW tm, NEW j \in Int, NEW first \in {0, 1}, (j + 1) % 7 # first,
           tm.yday \in Nat, tm.wday = (j + tm.yday + 1) % 7
    PROVE  Week(tm, first) = Cardinality(FirstDays(j, j + tm.yday, first))
<1>1. PICK d \in Nat, x \in 0..6 : d = tm.yday /\ x = tm.wday
  <2>1. (j + tm.yday + 1) % 7 \in 0..6
    BY Z3
  <2>2. QED
    BY <2>1
<1>2. PICK v \in 1..6 : v = (j + 1 - first) % 7
  <2>1. (j + 1 - first) % 7 \in 1..6
    BY Z3
  <2>2. QED
    BY <2>1
<1>3. PICK a \in Nat, r \in 0..6 : d = 7 * a + r
  <2>1. d \div 7 \in Nat /\ d % 7 \in 0..6 /\ d = (7 * (d \div 7)) + (d % 7)
    BY Z3
  <2>2. QED
    BY <2>1
<1>4. d \div 7 = a /\ d % 7 = r
  BY <1>3, SevenDays
<1>5. PICK w : w = (x + 7 - first) % 7
  OBVIOUS
<1>6. w = IF r + v >= 7 THEN r + v - 7 ELSE r + v
  <2>1. PICK c \in Int : j + 1 - first = 7 * c + v
    BY <1>2, Z3
  <2>2. x \in 0..6 /\ \E b \in Int : j + d + 1 = 7 * b + x
    BY <1>1, Z3
  <2>3. PICK b \in Int : j + d + 1 = 7 * b + x
    BY <2>2
  <2>4. x + 7 - first = 7 * (c + a - b + 1) + (r + v)
    BY <1>3, <2>1, <2>2, <2>3
  <2>5. QED
    BY <1>5, <2>2, <2>4, Z3
<1>7. Week(tm, first) = a + (IF r > w THEN 1 ELSE 0)
  BY <1>1, <1>4, <1>5 DEF Week
<1>8. CASE r + v >= 7
  <2>1. Week(tm, first) = a + 1
    BY <1>6, <1>7, <1>8
  <2>2. PICK k \in Nat, e \in 0..6 : k = a + 1 /\ e = r + v - 7
    BY <1>8
  <2>3. d + v = 7 * k + e
    BY <1>3, <2>2
  <2>4. Cardinality(FirstDays(j, j + d, first)) = k
    <3>1. WeeksBehind(j, d, first, v, k, e)
      BY <1>2, <2>3 DEF WeeksBehind
    <3>2. QED
      BY <3>1, FirstDaysAre
  <2>5. Week(tm, first) = Cardinality(FirstDays(j, j + d, first))
    BY <2>1, <2>2, <2>4
  <2>6. QED
    BY <1>1, <2>5
<1>9. CASE ~(r + v >= 7)
  <2>1. Week(tm, first) = a
    BY <1>6, <1>7, <1>9
  <2>2. PICK e \in 0..6 : e = r + v
    BY <1>9
  <2>3. d + v = 7 * a + e
    BY <1>3, <2>2
  <2>4. Cardinality(FirstDays(j, j + d, first)) = a
    <3>1. WeeksBehind(j, d, first, v, a, e)
      BY <1>2, <2>3 DEF WeeksBehind
    <3>2. QED
      BY <3>1, FirstDaysAre
  <2>5. QED
    BY <1>1, <2>1, <2>4
<1>10. QED
  BY <1>8, <1>9


-----------------------------------------------------------------------------
(***************************************************************************)
(* Texts.                                                                  *)
(***************************************************************************)
Signs == STRING \cup {":", "blank", "%", "null", "newline", "s"}
Glyph == ({"digit", "sign"} \X (Int \cup Signs)) \cup ({"day", "month", "noon", "zone", "aday", "amonth"} \X Int \X Int)

\* What is stored of a text, and what is returned.
LEMMA StoredFacts ==
    ASSUME NEW S, NEW chars \in Seq(S), NEW maxs \in Nat \ {0}, NEW r, r = Stored(chars, maxs)
    PROVE  /\ r.maxs = maxs /\ Len(r.chars) < maxs
           /\ IF Len(chars) < maxs THEN r.ret = Len(chars) /\ r.chars = chars
              ELSE r.ret = 0 /\ IsStrictPrefix(r.chars, chars)
<1>1. PICK n \in Nat, k \in Nat : n = Len(chars) /\ k = IF n < maxs - 1 THEN n ELSE maxs - 1
  OBVIOUS
<1>2. k <= n /\ k <= maxs - 1
  BY <1>1
<1>3. r.chars = SubSeq(chars, 1, k) /\ r.maxs = maxs /\ r.ret = IF n > maxs - 1 THEN 0 ELSE n
  BY <1>1 DEF Stored, FirstOf
<1>4. PICK q : q = SubSeq(chars, 1, k)
  OBVIOUS
<1>5. q = [i \in 1..k |-> chars[i]]
  BY <1>1, <1>2, <1>4
<1>6. \A i \in 1..k : chars[i] \in S
  BY <1>1, <1>2
<1>7. q \in Seq(S) /\ Len(q) = k
  BY <1>5, <1>6
<1>8. CASE n < maxs
  <2>1. k = n /\ ~(n > maxs - 1)
    BY <1>1, <1>8
  <2>2. \A i \in 1..Len(q) : q[i] = chars[i]
    BY <1>5, <1>7
  <2>3. q = chars
    BY <1>1, <1>7, <2>1, <2>2, SeqEqual
  <2>4. QED
    BY <1>1, <1>2, <1>3, <1>4, <1>7, <1>8, <2>1, <2>3
<1>9. CASE ~(n < maxs)
  <2>1. n > maxs - 1 /\ k = maxs - 1 /\ k # n
    BY <1>1, <1>9
  <2>2. SubSeq(q, 1, Len(q)) = [i \in 1..k |-> q[i]]
    BY <1>7
  <2>3. [i \in 1..k |-> q[i]] = q
    BY <1>5
  <2>4. IsPrefix(q, chars)
    BY <1>1, <1>2, <1>4, <1>7, <2>2, <2>3 DEF IsPrefix
  <2>5. q # chars
    BY <1>1, <1>7, <2>1
  <2>6. QED
    BY <1>1, <1>2, <1>3, <1>4, <1>7, <1>9, <2>1, <2>4, <2>5 DEF IsStrictPrefix
<1>10. QED
  BY <1>8, <1>9

LEMMA PowIs == pow(0) = 1 /\ pow(1) = 10 /\ pow(2) = 100 /\ pow(3) = 1000 /\ pow(4) = 10000
  BY DEF pow

\* Numbers are digits.
LEMMA NumberIsText ==
    \A n \in Nat, len \in 1..4 : strfmt(n, len) \in Seq(Glyph) /\ Len(strfmt(n, len)) = len
<1>0. SUFFICES ASSUME NEW n \in Nat, NEW len \in 1..4
               PROVE  strfmt(n, len) \in Seq(Glyph) /\ Len(strfmt(n, len)) = len
  OBVIOUS
<1>1. \A k \in 0..4 : pow(k) \in Nat \ {0}
  BY PowIs
<1>2. ASSUME NEW i \in 1..len
      PROVE  Digit((n % pow(len - i + 1)) \div pow(len - i)) \in Glyph
  <2>1. PICK a \in Nat \ {0}, b \in Nat \ {0} : a = pow(len - i + 1) /\ b = pow(len - i)
    <3>1. len - i + 1 \in 0..4 /\ len - i \in 0..4
      OBVIOUS
    <3>2. QED
      BY <1>1, <3>1
  <2>2. PICK c \in Int : c = (n % a) \div b
    OBVIOUS
  <2>3. <<"digit", c>> \in {"digit", "sign"} \X (Int \cup Signs)
    OBVIOUS
  <2>4. QED
    BY <2>1, <2>2, <2>3 DEF Digit, Glyph
<1>3. strfmt(n, len) = [i \in 1..len |-> Digit((n % pow(len - i + 1)) \div pow(len - i))]
  BY DEF strfmt
<1>4. strfmt(n, len) \in [1..len -> Glyph]
  BY <1>2, <1>3
<1>5. QED
  BY <1>4

LEMMA SignIsText == \A c \in Signs : Sign(c) \in Glyph /\ <<Sign(c)>> \in Seq(Glyph) /\ Len(<<Sign(c)>>) = 1
<1>1. SUFFICES ASSUME NEW c \in Signs
               PROVE  Sign(c) \in Glyph /\ <<Sign(c)>> \in Seq(Glyph) /\ Len(<<Sign(c)>>) = 1
  OBVIOUS
<1>2. <<"sign", c>> \in {"digit", "sign"} \X (Int \cup Signs)
  OBVIOUS
<1>3. PICK g \in Glyph : g = Sign(c)
  BY <1>2 DEF Sign, Glyph
<1>4. <<g>> \in Seq(Glyph) /\ Len(<<g>>) = 1
  OBVIOUS
<1>5. QED
  BY <1>3, <1>4

Kinds == {"day", "month", "noon", "zone", "aday", "amonth"}
LEMMA NameIsText ==
    \A kind \in Kinds, which \in Int, len \in Nat :
        Name(kind, which, len) \in Seq(Glyph) /\ Len(Name(kind, which, len)) = len
<1>1. SUFFICES ASSUME NEW kind \in Kinds, NEW which \in Int, NEW len \in Nat
               PROVE  Name(kind, which, len) \in Seq(Glyph) /\ Len(Name(kind, which, len)) = len
  OBVIOUS
<1>2. \A i \in 1..len : <<kind, which, i>> \in Glyph
  BY DEF Glyph, Kinds
<1>3. Name(kind, which, len) \in [1..len -> Glyph]
  BY <1>2 DEF Name
<1>4. PICK f \in [1..len -> Glyph] : f = Name(kind, which, len)
  BY <1>3
<1>5. f \in Seq(Glyph) /\ Len(f) = len
  OBVIOUS
<1>6. QED
  BY <1>4, <1>5

\* c is a text of m characters with one of n characters behind it.
Cat(c, a, b, m, n) ==
    /\ c \in Seq(Glyph) /\ Len(c) = m + n
    /\ \A i \in 1..(m + n) : c[i] = IF i <= m THEN a[i] ELSE b[i - m]

LEMMA Joined == \A a, b \in Seq(Glyph) : Cat(a \o b, a, b, Len(a), Len(b))
<1>1. SUFFICES ASSUME NEW a \in Seq(Glyph), NEW b \in Seq(Glyph)
               PROVE  Cat(a \o b, a, b, Len(a), Len(b))
  OBVIOUS
<1>2. PICK m \in Nat, n \in Nat : m = Len(a) /\ n = Len(b)
  OBVIOUS
<1>3. a \o b \in Seq(Glyph) /\ Len(a \o b) = m + n
  BY <1>2, ConcatProperties
<1>4. \A i \in 1..(m + n) : (a \o b)[i] = IF i <= m THEN a[i] ELSE b[i - m]
  BY <1>2, ConcatProperties
<1>5. QED
  BY <1>2, <1>3, <1>4 DEF Cat

\* The texts that several conversions are made of.
LEMMA DayIsText ==
    \A w \in 0..6 : /\ aday(w) \in Seq(Glyph) /\ Len(aday(w)) = 3
                    /\ day(w) \in Seq(Glyph)
<1>1. SUFFICES ASSUME NEW w \in 0..6
               PROVE  aday(w) \in Seq(Glyph) /\ Len(aday(w)) = 3 /\ day(w) \in Seq(Glyph)
  OBVIOUS
<1>2. PICK l \in Nat : l = <<6, 6, 7, 9, 8, 6, 8>>[w + 1]
  <2>1. w + 1 \in 1..7
    OBVIOUS
  <2>2. QED
    BY <2>1
<1>3. PICK k \in Kinds, n \in Nat : k = "day" /\ n = 3
  BY DEF Kinds
<1>4. Name(k, w, n) \in Seq(Glyph) /\ Len(Name(k, w, n)) = n /\ Name(k, w, l) \in Seq(Glyph)
  BY NameIsText
<1>5. QED
  BY <1>2, <1>3, <1>4 DEF aday, day

LEMMA MonthIsText ==
    \A m \in 0..11 : /\ amonth(m) \in Seq(Glyph) /\ Len(amonth(m)) = 3
                     /\ month(m) \in Seq(Glyph)
<1>1. SUFFICES ASSUME NEW m \in 0..11
               PROVE  amonth(m) \in Seq(Glyph) /\ Len(amonth(m)) = 3 /\ month(m) \in Seq(Glyph)
  OBVIOUS
<1>2. PICK l \in Nat : l = <<7, 8, 5, 5, 3, 4, 4, 6, 9, 7, 8, 8>>[m + 1]
  <2>1. m + 1 \in 1..12
    OBVIOUS
  <2>2. QED
    BY <2>1
<1>3. PICK k \in Kinds, n \in Nat : k = "month" /\ n = 3
  BY DEF Kinds
<1>4. Name(k, m, n) \in Seq(Glyph) /\ Len(Name(k, m, n)) = n /\ Name(k, m, l) \in Seq(Glyph)
  BY NameIsText
<1>5. QED
  BY <1>2, <1>3, <1>4 DEF amonth, month

LEMMA TwoIsText == \A n \in Nat : Two(n) \in Seq(Glyph) /\ Len(Two(n)) = 2
<1>1. SUFFICES ASSUME NEW n \in Nat
               PROVE  Two(n) \in Seq(Glyph) /\ Len(Two(n)) = 2
  OBVIOUS
<1>2. PICK l \in 1..4 : l = 2
  OBVIOUS
<1>3. QED
  BY <1>2, NumberIsText DEF Two

LEMMA BlankIsText == Blank \in Seq(Glyph) /\ Len(Blank) = 1 /\ Blank[1] = Sign("blank")
<1>1. PICK c \in Signs : c = "blank"
  BY DEF Signs
<1>2. <<Sign(c)>> \in Seq(Glyph) /\ Len(<<Sign(c)>>) = 1
  BY SignIsText
<1>3. QED
  BY <1>1, <1>2 DEF Blank

LEMMA SeparatorIsText ==
    /\ <<Sign(":")>> \in Seq(Glyph) /\ Len(<<Sign(":")>>) = 1
    /\ <<Sign("%")>> \in Seq(Glyph) /\ Len(<<Sign("%")>>) = 1
<1>1. PICK c \in Signs, d \in Signs : c = ":" /\ d = "%"
  BY DEF Signs
<1>2. /\ <<Sign(c)>> \in Seq(Glyph) /\ Len(<<Sign(c)>>) = 1
      /\ <<Sign(d)>> \in Seq(Glyph) /\ Len(<<Sign(d)>>) = 1
  BY SignIsText
<1>3. QED
  BY <1>1, <1>2

\* hh:mm:ss, place by place.
Places(x, h, n, s, c) ==
    /\ x \in Seq(Glyph) /\ Len(x) = 8
    /\ x[1] = h[1] /\ x[2] = h[2] /\ x[3] = c[1] /\ x[4] = n[1] /\ x[5] = n[2]
    /\ x[6] = c[1] /\ x[7] = s[1] /\ x[8] = s[2]

LEMMA FiveJoined ==
    \A h, n, s, c \in Seq(Glyph) :
        Len(h) = 2 /\ Len(n) = 2 /\ Len(s) = 2 /\ Len(c) = 1
            => Places(h \o c \o n \o c \o s, h, n, s, c)
<1> SUFFICES ASSUME NEW h \in Seq(Glyph), NEW n \in Seq(Glyph), NEW s \in Seq(Glyph),
                      NEW c \in Seq(Glyph), Len(h) = 2, Len(n) = 2, Len(s) = 2, Len(c) = 1,
                      NEW x, x = h \o c \o n \o c \o s
               PROVE  Places(x, h, n, s, c)
  OBVIOUS
<1>1. PICK u : u = h \o c
  OBVIOUS
<1>2. Cat(u, h, c, 2, 1)
  BY <1>1, Joined
<1>3. PICK v : v = u \o n
  OBVIOUS
<1>4. Cat(v, u, n, 3, 2)
  <2>1. u \in Seq(Glyph) /\ Len(u) = 3
    BY <1>2 DEF Cat
  <2>2. QED
    BY <2>1, <1>3, Joined
<1>5. PICK w : w = v \o c
  OBVIOUS
<1>6. Cat(w, v, c, 5, 1)
  <2>1. v \in Seq(Glyph) /\ Len(v) = 5
    BY <1>4 DEF Cat
  <2>2. QED
    BY <2>1, <1>5, Joined
<1>7. x = w \o s
  BY <1>1, <1>3, <1>5
<1>8. Cat(x, w, s, 6, 2)
  <2>1. w \in Seq(Glyph) /\ Len(w) = 6
    BY <1>6 DEF Cat
  <2>2. QED
    BY <2>1, <1>7, Joined
<1>9. u[1] = h[1] /\ u[2] = h[2] /\ u[3] = c[1]
  BY <1>2 DEF Cat
<1>10. v[1] = u[1] /\ v[2] = u[2] /\ v[3] = u[3] /\ v[4] = n[1] /\ v[5] = n[2]
  BY <1>4 DEF Cat
<1>11. w[1] = v[1] /\ w[2] = v[2] /\ w[3] = v[3] /\ w[4] = v[4] /\ w[5] = v[5] /\ w[6] = c[1]
  BY <1>6 DEF Cat
<1>12. /\ x[1] = w[1] /\ x[2] = w[2] /\ x[3] = w[3] /\ x[4] = w[4] /\ x[5] = w[5] /\ x[6] = w[6]
       /\ x[7] = s[1] /\ x[8] = s[2]
  BY <1>8 DEF Cat
<1>13. x \in Seq(Glyph) /\ Len(x) = 8
  BY <1>8 DEF Cat
<1>14. QED
  BY <1>9, <1>10, <1>11, <1>12, <1>13 DEF Places

LEMMA ClockedIsText ==
    ASSUME NEW tm, tm.hour \in Nat, tm.min \in Nat, tm.sec \in Nat
    PROVE  /\ Clocked(tm) \in Seq(Glyph) /\ Len(Clocked(tm)) = 8
           /\ Clocked(tm)[1] = Two(tm.hour)[1] /\ Clocked(tm)[2] = Two(tm.hour)[2]
           /\ Clocked(tm)[3] = Sign(":") /\ Clocked(tm)[6] = Sign(":")
           /\ Clocked(tm)[4] = Two(tm.min)[1] /\ Clocked(tm)[5] = Two(tm.min)[2]
           /\ Clocked(tm)[7] = Two(tm.sec)[1] /\ Clocked(tm)[8] = Two(tm.sec)[2]
<1>1. PICK c \in Seq(Glyph) : c = <<Sign(":")>> /\ Len(c) = 1 /\ c[1] = Sign(":")
  BY SeparatorIsText
<1>2. PICK h \in Seq(Glyph), n \in Seq(Glyph), s \in Seq(Glyph) :
          /\ h = Two(tm.hour) /\ n = Two(tm.min) /\ s = Two(tm.sec)
          /\ Len(h) = 2 /\ Len(n) = 2 /\ Len(s) = 2
  <2>1. PICK x \in Nat, y \in Nat, z \in Nat : x = tm.hour /\ y = tm.min /\ z = tm.sec
    OBVIOUS
  <2>2. QED
    BY <2>1, TwoIsText
<1>3. PICK x : x = h \o c \o n \o c \o s
  OBVIOUS
<1>4. Places(x, h, n, s, c)
  BY <1>1, <1>2, <1>3, FiveJoined
<1>5. Clocked(tm) = x
  BY <1>1, <1>2, <1>3 DEF Clocked
<1>6. QED
  BY <1>1, <1>2, <1>4, <1>5 DEF Places


\* The numbers that a broken-down time gives to the conversions.
LEMMA NumbersOf ==
    ASSUME NEW tm, Ranges(tm)
    PROVE  /\ tm.hour \in Nat /\ tm.min \in Nat /\ tm.sec \in Nat /\ tm.mday \in Nat
           /\ tm.wday \in Nat /\ tm.yday + 1 \in Nat /\ tm.mon + 1 \in Nat
           /\ tm.year % 100 \in Nat /\ tm.year + 1900 \in Nat
           /\ Week(tm, 0) \in Nat /\ Week(tm, 1) \in Nat
           /\ tm.hour % 12 \in Nat
<1>1. PICK y \in 70..138, mo \in 0..11, md \in 1..31, yd \in 0..365, w \in 0..6, h \in 0..23,
           mi \in 0..59, s \in 0..59 :
          /\ y = tm.year /\ mo = tm.mon /\ md = tm.mday /\ yd = tm.yday /\ w = tm.wday
          /\ h = tm.hour /\ mi = tm.min /\ s = tm.sec
  BY DEF Ranges
<1>2. h \in Nat /\ mi \in Nat /\ s \in Nat /\ md \in Nat /\ w \in Nat /\ yd + 1 \in Nat /\ mo + 1 \in Nat
      /\ y % 100 \in Nat /\ y + 1900 \in Nat /\ yd \div 7 \in Nat /\ h % 12 \in Nat
  OBVIOUS
<1>3. Week(tm, 0) \in Nat /\ Week(tm, 1) \in Nat
  BY <1>1, <1>2 DEF Week
<1>4. QED
  BY <1>1, <1>2, <1>3

\* What %c and asctime() begin with.
Names(tm) == aday(tm.wday) \o Blank \o amonth(tm.mon) \o Blank
LEMMA NamesAreText ==
    ASSUME NEW tm, Ranges(tm)
    PROVE  Names(tm) \in Seq(Glyph) /\ Len(Names(tm)) = 8
<1>1. PICK a \in Seq(Glyph), b \in Seq(Glyph), c \in Seq(Glyph) :
          /\ a = aday(tm.wday) /\ b = Blank /\ c = amonth(tm.mon)
          /\ Len(a) = 3 /\ Len(b) = 1 /\ Len(c) = 3
  <2>1. PICK w \in 0..6, m \in 0..11 : w = tm.wday /\ m = tm.mon
    BY DEF Ranges
  <2>2. QED
    BY <2>1, DayIsText, MonthIsText, BlankIsText
<1>2. PICK u : u = a \o b
  OBVIOUS
<1>3. u \in Seq(Glyph) /\ Len(u) = 4
  <2>1. Cat(u, a, b, 3, 1)
    BY <1>1, <1>2, Joined
  <2>2. QED
    BY <2>1 DEF Cat
<1>4. PICK v : v = u \o c
  OBVIOUS
<1>5. v \in Seq(Glyph) /\ Len(v) = 7
  <2>1. Cat(v, u, c, 4, 3)
    BY <1>1, <1>3, <1>4, Joined
  <2>2. QED
    BY <2>1 DEF Cat
<1>6. PICK x : x = v \o b
  OBVIOUS
<1>7. x \in Seq(Glyph) /\ Len(x) = 8
  <2>1. Cat(x, v, b, 7, 1)
    BY <1>1, <1>5, <1>6, Joined
  <2>2. QED
    BY <2>1 DEF Cat
<1>8. Names(tm) = x
  BY <1>1, <1>2, <1>4, <1>6 DEF Names
<1>9. QED
  BY <1>7, <1>8

\* %c, place by place.
DatePlaces(x, n, b, d, k, y) ==
    /\ x \in Seq(Glyph) /\ Len(x) = 24
    /\ \A i \in 1..8 : x[i] = n[i]
    /\ x[9] = d[1] /\ x[10] = d[2] /\ x[11] = b[1]
    /\ x[12] = k[1] /\ x[13] = k[2] /\ x[14] = k[3] /\ x[15] = k[4]
    /\ x[16] = k[5] /\ x[17] = k[6] /\ x[18] = k[7] /\ x[19] = k[8]
    /\ x[20] = b[1]
    /\ x[21] = y[1] /\ x[22] = y[2] /\ x[23] = y[3] /\ x[24] = y[4]

LEMMA SixJoined ==
    \A n, b, d, k, y \in Seq(Glyph) :
        Len(n) = 8 /\ Len(b) = 1 /\ Len(d) = 2 /\ Len(k) = 8 /\ Len(y) = 4
            => DatePlaces(n \o d \o b \o k \o b \o y, n, b, d, k, y)
<1> SUFFICES ASSUME NEW n \in Seq(Glyph), NEW b \in Seq(Glyph), NEW d \in Seq(Glyph),
                    NEW k \in Seq(Glyph), NEW y \in Seq(Glyph),
                    Len(n) = 8, Len(b) = 1, Len(d) = 2, Len(k) = 8, Len(y) = 4
             PROVE  DatePlaces(n \o d \o b \o k \o b \o y, n, b, d, k, y)
  OBVIOUS
<1>1. PICK u : u = n \o d
  OBVIOUS
<1>2. Cat(u, n, d, 8, 2)
  BY <1>1, Joined
<1>3. PICK v : v = u \o b
  OBVIOUS
<1>4. Cat(v, u, b, 10, 1)
  <2>1. u \in Seq(Glyph) /\ Len(u) = 10
    BY <1>2 DEF Cat
  <2>2. QED
    BY <2>1, <1>3, Joined
<1>5. PICK w : w = v \o k
  OBVIOUS
<1>6. Cat(w, v, k, 11, 8)
  <2>1. v \in Seq(Glyph) /\ Len(v) = 11
    BY <1>4 DEF Cat
  <2>2. QED
    BY <2>1, <1>5, Joined
<1>7. PICK z : z = w \o b
  OBVIOUS
<1>8. Cat(z, w, b, 19, 1)
  <2>1. w \in Seq(Glyph) /\ Len(w) = 19
    BY <1>6 DEF Cat
  <2>2. QED
    BY <2>1, <1>7, Joined
<1>9. PICK x : x = z \o y
  OBVIOUS
<1>10. Cat(x, z, y, 20, 4)
  <2>1. z \in Seq(Glyph) /\ Len(z) = 20
    BY <1>8 DEF Cat
  <2>2. QED
    BY <2>1, <1>9, Joined
<1>11. (\A i \in 1..8 : u[i] = n[i]) /\ u[9] = d[1] /\ u[10] = d[2]
  BY <1>2 DEF Cat
<1>12. (\A i \in 1..10 : v[i] = u[i]) /\ v[11] = b[1]
  BY <1>4 DEF Cat
<1>13. /\ \A i \in 1..11 : w[i] = v[i]
       /\ w[12] = k[1] /\ w[13] = k[2] /\ w[14] = k[3] /\ w[15] = k[4]
       /\ w[16] = k[5] /\ w[17] = k[6] /\ w[18] = k[7] /\ w[19] = k[8]
  BY <1>6 DEF Cat
<1>14. (\A i \in 1..19 : z[i] = w[i]) /\ z[20] = b[1]
  BY <1>8 DEF Cat
<1>15. /\ \A i \in 1..20 : x[i] = z[i]
       /\ x[21] = y[1] /\ x[22] = y[2] /\ x[23] = y[3] /\ x[24] = y[4]
  BY <1>10 DEF Cat
<1>16. x \in Seq(Glyph) /\ Len(x) = 24
  BY <1>10 DEF Cat
<1>17. \A i \in 1..8 : x[i] = n[i]
  <2>1. ASSUME NEW i \in 1..8
        PROVE  x[i] = n[i]
    <3>1. i \in 1..10 /\ i \in 1..11 /\ i \in 1..19 /\ i \in 1..20
      OBVIOUS
    <3>2. u[i] = n[i] /\ v[i] = u[i] /\ w[i] = v[i]
      BY <1>11, <1>12, <1>13, <3>1
    <3>3. x[i] = z[i] /\ z[i] = w[i]
      BY <1>14, <1>15, <3>1
    <3>4. QED
      BY <3>2, <3>3
  <2>2. QED
    BY <2>1
<1>18. x[9] = d[1] /\ x[10] = d[2] /\ x[11] = b[1] /\ x[20] = b[1]
  <2>1. v[9] = d[1] /\ v[10] = d[2]
    BY <1>11, <1>12
  <2>2. w[9] = v[9] /\ w[10] = v[10] /\ w[11] = v[11]
    BY <1>13
  <2>3. z[9] = w[9] /\ z[10] = w[10] /\ z[11] = w[11]
    BY <1>14
  <2>4. x[9] = z[9] /\ x[10] = z[10] /\ x[11] = z[11] /\ x[20] = z[20]
    BY <1>15
  <2>5. QED
    BY <1>12, <1>14, <2>1, <2>2, <2>3, <2>4
<1>19. /\ x[12] = k[1] /\ x[13] = k[2] /\ x[14] = k[3] /\ x[15] = k[4]
       /\ x[16] = k[5] /\ x[17] = k[6] /\ x[18] = k[7] /\ x[19] = k[8]
  <2>1. ASSUME NEW i \in 12..19
        PROVE  x[i] = w[i]
    <3>1. i \in 1..19 /\ i \in 1..20
      OBVIOUS
    <3>2. x[i] = z[i] /\ z[i] = w[i]
      BY <1>14, <1>15, <3>1
    <3>3. QED
      BY <3>2
  <2>2. QED
    BY <1>13, <2>1, SMTT(30)
<1>20. QED
  <2>1. DatePlaces(x, n, b, d, k, y)
    BY <1>15, <1>16, <1>17, <1>18, <1>19 DEF DatePlaces
  <2>2. QED
    BY <1>1, <1>3, <1>5, <1>7, <1>9, <2>1


\* %c is that text.
DatePieces(tm, n, d, k, y, x) ==
    /\ n = Names(tm) /\ d = Two(tm.mday) /\ k = Clocked(tm) /\ y = strfmt(tm.year + 1900, 4)
    /\ x = Conversion("c", tm)

LEMMA DateIsText ==
    ASSUME NEW tm, Ranges(tm), NEW n, NEW d, NEW k, NEW y, NEW x, DatePieces(tm, n, d, k, y, x)
    PROVE  DatePlaces(x, n, Blank, d, k, y)
<1>1. n \in Seq(Glyph) /\ Len(n) = 8
  BY NamesAreText DEF DatePieces
<1>2. tm.hour \in Nat /\ tm.min \in Nat /\ tm.sec \in Nat /\ tm.mday \in Nat /\ tm.year + 1900 \in Nat
  BY NumbersOf
<1>3. k \in Seq(Glyph) /\ Len(k) = 8
  BY <1>2, ClockedIsText DEF DatePieces
<1>4. d \in Seq(Glyph) /\ Len(d) = 2
  <2>1. PICK p \in Nat : p = tm.mday
    BY <1>2
  <2>2. QED
    BY <2>1, TwoIsText DEF DatePieces
<1>5. y \in Seq(Glyph) /\ Len(y) = 4
  <2>1. PICK q \in Nat : q = tm.year + 1900
    BY <1>2
  <2>2. PICK l \in 1..4 : l = 4
    OBVIOUS
  <2>3. QED
    BY <2>1, <2>2, NumberIsText DEF DatePieces
<1>6. Blank \in Seq(Glyph) /\ Len(Blank) = 1
  BY BlankIsText
<1>7. DatePlaces(n \o d \o Blank \o k \o Blank \o y, n, Blank, d, k, y)
  BY <1>1, <1>3, <1>4, <1>5, <1>6, SixJoined
<1>8. x = n \o d \o Blank \o k \o Blank \o y
  <2>1. Conversion("c", tm) = Names(tm) \o Two(tm.mday) \o Blank \o Clocked(tm) \o Blank
                              \o strfmt(tm.year + 1900, 4)
    BY Z3 DEF Conversion, Names
  <2>2. QED
    BY <2>1 DEF DatePieces
<1>9. QED
  BY <1>7, <1>8

\* What stands for a conversion is a text.
LEMMA ConversionIsText ==
    ASSUME NEW tm, Ranges(tm), NEW c \in Signs
    PROVE  Conversion(c, tm) \in Seq(Glyph)
<1>1. /\ tm.hour \in Nat /\ tm.min \in Nat /\ tm.sec \in Nat /\ tm.mday \in Nat
      /\ tm.wday \in Nat /\ tm.yday + 1 \in Nat /\ tm.mon + 1 \in Nat
      /\ tm.year % 100 \in Nat /\ tm.year + 1900 \in Nat
      /\ Week(tm, 0) \in Nat /\ Week(tm, 1) \in Nat
      /\ tm.hour % 12 \in Nat
  BY NumbersOf
<1>2. PICK T \in SUBSET Seq(Glyph) : T = Seq(Glyph)
  OBVIOUS
<1>3. /\ Two(tm.hour) \in T /\ Two(tm.min) \in T /\ Two(tm.sec) \in T /\ Two(tm.mday) \in T
      /\ Two(tm.mon + 1) \in T /\ Two(tm.year % 100) \in T
      /\ Two(Week(tm, 0)) \in T /\ Two(Week(tm, 1)) \in T
      /\ Two(IF tm.hour % 12 # 0 THEN tm.hour % 12 ELSE 12) \in T
  <2>1. \A n \in Nat : Two(n) \in T
    BY <1>2, TwoIsText
  <2>2. Two(tm.hour) \in T
    <3>1. PICK n \in Nat : n = tm.hour
      BY <1>1
    <3>2. Two(n) \in T
      BY <2>1
    <3>3. QED
      BY <3>1, <3>2
  <2>3. Two(tm.min) \in T
    <3>1. PICK n \in Nat : n = tm.min
      BY <1>1
    <3>2. Two(n) \in T
      BY <2>1
    <3>3. QED
      BY <3>1, <3>2
  <2>4. Two(tm.sec) \in T
    <3>1. PICK n \in Nat : n = tm.sec
      BY <1>1
    <3>2. Two(n) \in T
      BY <2>1
    <3>3. QED
      BY <3>1, <3>2
  <2>5. Two(tm.mday) \in T
    <3>1. PICK n \in Nat : n = tm.mday
      BY <1>1
    <3>2. Two(n) \in T
      BY <2>1
    <3>3. QED
      BY <3>1, <3>2
  <2>6. Two(tm.mon + 1) \in T
    <3>1. PICK n \in Nat : n = tm.mon + 1
      BY <1>1
    <3>2. Two(n) \in T
      BY <2>1
    <3>3. QED
      BY <3>1, <3>2
  <2>7. Two(tm.year % 100) \in T
    BY <1>1, <2>1
  <2>8. Two(Week(tm, 0)) \in T
    BY <1>1, <2>1
  <2>9. Two(Week(tm, 1)) \in T
    BY <1>1, <2>1
  <2>10. Two(IF tm.hour % 12 # 0 THEN tm.hour % 12 ELSE 12) \in T
    <3>1. PICK h \in Nat : h = tm.hour % 12
      BY <1>1
    <3>2. PICK r \in Nat : r = IF h # 0 THEN h ELSE 12
      OBVIOUS
    <3>3. Two(r) \in T
      BY <2>1
    <3>4. QED
      BY <3>1, <3>2, <3>3
  <2>11. QED
    BY <2>2, <2>3, <2>4, <2>5, <2>6, <2>7, <2>8, <2>9, <2>10
<1>4. strfmt(tm.yday + 1, 3) \in T /\ strfmt(tm.wday, 1) \in T /\ strfmt(tm.year + 1900, 4) \in T
  <2>1. PICK a \in Nat, b \in Nat, d \in Nat, i \in 1..4, j \in 1..4, k \in 1..4 :
            a = tm.yday + 1 /\ b = tm.wday /\ d = tm.year + 1900 /\ i = 3 /\ j = 1 /\ k = 4
    BY <1>1, SMTT(30)
  <2>2. strfmt(a, i) \in T /\ strfmt(b, j) \in T /\ strfmt(d, k) \in T
    BY <1>2, NumberIsText
  <2>3. QED
    BY <2>1, <2>2
<1>5. /\ aday(tm.wday) \in T /\ day(tm.wday) \in T /\ amonth(tm.mon) \in T /\ month(tm.mon) \in T
  <2>1. PICK w \in 0..6, m \in 0..11 : w = tm.wday /\ m = tm.mon
    BY DEF Ranges
  <2>2. QED
    BY <1>2, <2>1, DayIsText, MonthIsText
<1>6. Clocked(tm) \in T
  BY <1>1, <1>2, ClockedIsText, SMTT(30)
<1>7. Conversion("c", tm) \in T
  <2>1. PICK n, d, k, y, x : DatePieces(tm, n, d, k, y, x)
    BY DEF DatePieces
  <2>2. DatePlaces(x, n, Blank, d, k, y)
    BY <2>1, DateIsText
  <2>3. QED
    BY <1>2, <2>1, <2>2 DEF DatePlaces, DatePieces
<1>8. Name("noon", IF tm.hour > 11 THEN 1 ELSE 0, 2) \in T /\ Name("zone", 0, 3) \in T
  <2>1. PICK k \in Kinds, q \in Kinds, w \in Int, x \in Int, l \in Nat, m \in Nat :
            /\ k = "noon" /\ q = "zone" /\ w = (IF tm.hour > 11 THEN 1 ELSE 0) /\ x = 0
            /\ l = 2 /\ m = 3
    BY DEF Kinds
  <2>2. Name(k, w, l) \in T /\ Name(q, x, m) \in T
    BY <1>2, NameIsText
  <2>3. QED
    BY <2>1, <2>2
<1>8a. Address("aday", tm.wday) \o Blank \o Address("amonth", tm.mon) \o Blank
       \o Two(tm.mday) \o Blank \o strfmt(tm.year + 1900, 4) \in T
  <2>0. "aday" \in Kinds /\ "amonth" \in Kinds /\ "s" \in Signs /\ tm.wday \in Int /\ tm.mon \in Int
    BY DEF Kinds, Ranges, Signs
  <2>1. PICK k \in Kinds, q \in Kinds, w \in Int, m \in Int, l \in Nat, ss \in Signs :
            k = "aday" /\ q = "amonth" /\ w = tm.wday /\ m = tm.mon /\ l = 3 /\ ss = "s"
    BY <2>0
  <2>2. Name(k, w, l) \in T /\ Name(q, m, l) \in T /\ <<Sign(ss)>> \in T /\ Blank \in T
    <3>1. Name(k, w, l) \in T /\ Name(q, m, l) \in T
      BY <1>2, NameIsText
    <3>2. <<Sign(ss)>> \in T /\ Blank \in T
      BY <1>2, SignIsText, BlankIsText
    <3>3. QED
      BY <3>1, <3>2
  <2>3. \A g, h \in T : g \o h \in T
    BY <1>2, ConcatProperties
  <2>4. Address("aday", tm.wday) \in T /\ Address("amonth", tm.mon) \in T
    BY <2>1, <2>2, <2>3 DEF Address
  <2>5. \A g, h, p, d, y \in T : g \o p \o h \o p \o d \o p \o y \in T
    BY <2>3
  <2>6. Two(tm.mday) \in T /\ strfmt(tm.year + 1900, 4) \in T /\ Blank \in T
    BY <1>3, <1>4, <2>2
  <2>7. PICK g \in T, h \in T, p \in T, d \in T, y \in T :
            /\ g = Address("aday", tm.wday) /\ h = Address("amonth", tm.mon) /\ p = Blank
            /\ d = Two(tm.mday) /\ y = strfmt(tm.year + 1900, 4)
    BY <2>4, <2>6
  <2>8. g \o p \o h \o p \o d \o p \o y \in T
    BY <2>5
  <2>9. QED
    BY <2>7, <2>8
<1>9. <<Sign("%")>> \in T
  BY <1>2, SeparatorIsText
<1>10. <<Sign("%"), Sign(c)>> \in T
  <2>1. PICK d \in Signs : d = "%"
    BY DEF Signs
  <2>2. PICK g \in Glyph, h \in Glyph : g = Sign(d) /\ h = Sign(c)
    BY SignIsText
  <2>3. <<g, h>> \in Seq(Glyph)
    OBVIOUS
  <2>4. QED
    BY <1>2, <2>1, <2>2, <2>3
<1>11. Conversion(c, tm) \in T
  <2>1. CASE c = "c"
    BY <1>7, <2>1
  <2>2. CASE c # "c"
    BY <1>3, <1>4, <1>5, <1>6, <1>8, <1>8a, <1>9, <1>10, <2>2 DEF Conversion
  <2>3. QED
    BY <2>1, <2>2
<1>12. QED
  BY <1>2, <1>11


-----------------------------------------------------------------------------
(***************************************************************************)
(* The text of a format.                                                   *)
(***************************************************************************)
\* What stands from place i on, given what stands behind it.
From(g, fmt, tm, i) ==
    IF i > Len(fmt) THEN <<>>
    ELSE IF fmt[i] # "%" THEN <<Sign(fmt[i])>> \o g[i + 1]
    ELSE IF i = Len(fmt) THEN <<Sign("%")>>
    ELSE Conversion(fmt[i + 1], tm) \o g[i + 2]
Rests(g, fmt, tm) == g = [i \in 1..(Len(fmt) + 1) |-> From(g, fmt, tm, i)]

\* There is a function of the places that the recursion defines.
LEMMA RestsExist ==
    ASSUME NEW fmt, NEW len \in Nat, Len(fmt) = len, NEW tm
    PROVE  \E g : Rests(g, fmt, tm)
<1> DEFINE From_(g, i) == From(g, fmt, tm, i)
           Behind(g, k) == /\ DOMAIN g = 1..(len + 1) /\ g = [i \in 1..(len + 1) |-> g[i]]
                           /\ \A i \in (len + 1 - k)..(len + 1) : g[i] = From_(g, i)
           T == {k \in 0..len : ~\E g : Behind(g, k)}
<1>1. ASSUME T # {} PROVE FALSE
  <2>1. PICK m \in T : \A k \in T : m <= k
    <3>1. T \subseteq Nat
      OBVIOUS
    <3>2. QED
      BY <1>1, <3>1, LeastNatural
  <2>2. m \in 0..len /\ ~\E g : Behind(g, m)
    OBVIOUS
  <2>3. CASE m = 0
    <3> DEFINE g == [i \in 1..(len + 1) |-> <<>>]
    <3>1. \A i \in (len + 1 - 0)..(len + 1) : g[i] = From_(g, i)
      <4>1. ASSUME NEW i \in (len + 1)..(len + 1)
            PROVE  g[i] = From_(g, i)
        <5>1. i = len + 1 /\ i > Len(fmt)
          OBVIOUS
        <5>2. g[i] = <<>>
          BY <5>1
        <5>3. From_(g, i) = <<>>
          BY <5>1 DEF From
        <5>4. QED
          BY <5>2, <5>3
      <4>2. QED
        BY <4>1
    <3>2. Behind(g, 0)
      BY <3>1
    <3>3. QED
      BY <2>2, <2>3, <3>2
  <2>4. CASE m # 0
    <3>1. m - 1 \in 0..len /\ ~(m <= m - 1)
      BY <2>2, <2>4
    <3>2. PICK g : Behind(g, m - 1)
      BY <2>1, <3>1
    <3>3. PICK j \in 1..len : j = len + 1 - m
      BY <2>2, <2>4
    <3>4. PICK x : x = From_(g, j)
      OBVIOUS
    <3>5. PICK h : h = [i \in 1..(len + 1) |-> IF i = j THEN x ELSE g[i]]
      OBVIOUS
    <3>6. \A i \in 1..(len + 1) : i # j => h[i] = g[i]
      BY <3>5
    <3>7. h[j] = x
      BY <3>5
    <3>8. ASSUME NEW i \in (len + 1 - m)..(len + 1)
          PROVE  h[i] = From_(h, i)
      <4>1. i \in 1..(len + 1) /\ i >= j
        BY <3>3
      <4>2. From_(h, i) = From_(g, i)
        <5>1. CASE i <= len
          <6>1. i + 1 \in 1..(len + 1) /\ i + 1 # j
            BY <4>1, <5>1
          <6>2. h[i + 1] = g[i + 1]
            BY <3>6, <6>1
          <6>3. CASE i = len
            BY <6>2, <6>3 DEF From
          <6>4. CASE i # len
            <7>1. i + 2 \in 1..(len + 1) /\ i + 2 # j
              BY <4>1, <5>1, <6>4
            <7>2. h[i + 2] = g[i + 2]
              BY <3>6, <7>1
            <7>3. QED
              BY <6>2, <7>2 DEF From
          <6>5. QED
            BY <6>3, <6>4
        <5>2. CASE ~(i <= len)
          <6>1. i > Len(fmt)
            BY <4>1, <5>2
          <6>2. QED
            BY <6>1 DEF From
        <5>3. QED
          BY <5>1, <5>2
      <4>3. CASE i = j
        BY <3>4, <3>7, <4>2, <4>3
      <4>4. CASE i # j
        <5>1. i \in (len + 1 - (m - 1))..(len + 1)
          BY <2>2, <3>3, <4>1, <4>4
        <5>2. g[i] = From_(g, i)
          BY <3>2, <5>1
        <5>3. QED
          BY <3>6, <4>1, <4>2, <4>4, <5>2
      <4>5. QED
        BY <4>3, <4>4
    <3>9. DOMAIN h = 1..(len + 1) /\ h = [i \in 1..(len + 1) |-> h[i]]
      BY <3>5
    <3>10. Behind(h, m)
      BY <3>8, <3>9
    <3>11. QED
      BY <2>2, <3>10
  <2>5. QED
    BY <2>3, <2>4
<1>2. PICK g : Behind(g, len)
  BY <1>1
<1>3. g = [i \in 1..(len + 1) |-> From_(g, i)]
  <2>1. \A i \in 1..(len + 1) : g[i] = From_(g, i)
    BY <1>2
  <2>2. g = [i \in 1..(len + 1) |-> g[i]]
    BY <1>2
  <2> HIDE DEF From_
  <2>3. QED
    BY <2>1, <2>2
<1>4. QED
  BY <1>3 DEF Rests


\* The text of a format is the first of the rests.
LEMMA ExpandedIs ==
    ASSUME NEW fmt, Len(fmt) \in Nat, NEW tm
    PROVE  \E g : Rests(g, fmt, tm) /\ Expanded(fmt, tm) = g[1]
<1> DEFINE r == CHOOSE g : g = [i \in 1..(Len(fmt) + 1) |->
                                  IF i > Len(fmt) THEN <<>>
                                  ELSE IF fmt[i] # "%" THEN <<Sign(fmt[i])>> \o g[i + 1]
                                  ELSE IF i = Len(fmt) THEN <<Sign("%")>>
                                  ELSE Conversion(fmt[i + 1], tm) \o g[i + 2]]
<1>1. PICK h : Rests(h, fmt, tm)
  BY RestsExist
<1>2. Rests(r, fmt, tm)
  BY <1>1 DEF Rests, From
<1>3. Expanded(fmt, tm) = r[1]
  BY DEF Expanded
<1>4. QED
  BY <1>2, <1>3

LEMMA SignsHold == STRING \subseteq Signs
  BY DEF Signs

LEMMA EmptyIsText == <<>> \in Seq(Glyph)
  OBVIOUS

\* Each of the rests is a text.
LEMMA RestsAreText ==
    ASSUME NEW fmt \in Seq(STRING), NEW tm, Ranges(tm), NEW g, Rests(g, fmt, tm)
    PROVE  \A i \in 1..(Len(fmt) + 1) : g[i] \in Seq(Glyph)
<1>1. PICK len \in Nat : len = Len(fmt)
  OBVIOUS
<1> DEFINE T == {k \in 0..len : g[len + 1 - k] \notin Seq(Glyph)}
<1>2. \A i \in 1..(len + 1) : g[i] = From(g, fmt, tm, i)
  BY <1>1 DEF Rests
<1>3. ASSUME T # {} PROVE FALSE
  <2>1. PICK m \in T : \A k \in T : m <= k
    <3>1. T \subseteq Nat
      OBVIOUS
    <3>2. QED
      BY <1>3, <3>1, LeastNatural
  <2>2. PICK i \in 1..(len + 1) : i = len + 1 - m
    OBVIOUS
  <2>3. m \in 0..len /\ g[i] \notin Seq(Glyph)
    BY <2>2
  <2>4. \A j \in (i + 1)..(len + 1) : g[j] \in Seq(Glyph)
    <3>1. ASSUME NEW j \in (i + 1)..(len + 1)
          PROVE  g[j] \in Seq(Glyph)
      <4>1. len + 1 - j \in 0..len /\ ~(m <= len + 1 - j)
        BY <2>2, <2>3
      <4>2. len + 1 - (len + 1 - j) = j
        OBVIOUS
      <4>3. len + 1 - j \notin T
        BY <2>1, <4>1
      <4>4. QED
        BY <4>1, <4>2, <4>3
    <3>2. QED
      BY <3>1
  <2> HIDE DEF T
  <2>5. CASE i > len
    <3>1. From(g, fmt, tm, i) = <<>>
      BY <1>1, <2>5 DEF From
    <3>2. QED
      BY <1>2, <2>3, <3>1, EmptyIsText
  <2>6. CASE ~(i > len)
    <3>1. i \in 1..len /\ i + 1 \in (i + 1)..(len + 1)
      BY <2>6
    <3>2. PICK c \in Signs : c = fmt[i]
      <4>1. fmt[i] \in STRING
        BY <1>1, <3>1
      <4>2. QED
        BY <4>1, SignsHold
    <3>3. g[i + 1] \in Seq(Glyph)
      BY <2>4, <3>1
    <3>4. CASE c # "%"
      <4>1. From(g, fmt, tm, i) = <<Sign(c)>> \o g[i + 1]
        BY <1>1, <2>6, <3>2, <3>4 DEF From
      <4>2. <<Sign(c)>> \o g[i + 1] \in Seq(Glyph)
        <5>1. PICK a \in Seq(Glyph), b \in Seq(Glyph) : a = <<Sign(c)>> /\ b = g[i + 1]
          BY <3>3, SignIsText
        <5>2. a \o b \in Seq(Glyph)
          OBVIOUS
        <5>3. QED
          BY <5>1, <5>2
      <4>3. QED
        BY <1>2, <2>3, <4>1, <4>2
    <3>5. CASE c = "%" /\ i = len
      <4>1. From(g, fmt, tm, i) = <<Sign("%")>>
        BY <1>1, <2>6, <3>2, <3>5 DEF From
      <4>2. QED
        BY <1>2, <2>3, <4>1, SeparatorIsText
    <3>6. CASE c = "%" /\ i # len
      <4>1. i + 1 \in 1..len /\ i + 2 \in (i + 1)..(len + 1)
        BY <3>1, <3>6
      <4>2. PICK d \in Signs : d = fmt[i + 1]
        <5>1. fmt[i + 1] \in STRING
          BY <1>1, <4>1
        <5>2. QED
          BY <5>1, SignsHold
      <4>3. PICK a \in Seq(Glyph) : a = Conversion(d, tm)
        BY ConversionIsText
      <4>4. PICK b \in Seq(Glyph) : b = g[i + 2]
        BY <2>4, <4>1
      <4>5. From(g, fmt, tm, i) = a \o b
        BY <1>1, <2>6, <3>2, <3>6, <4>2, <4>3, <4>4 DEF From
      <4>6. a \o b \in Seq(Glyph)
        OBVIOUS
      <4>7. QED
        BY <1>2, <2>3, <4>5, <4>6
    <3>7. QED
      BY <3>4, <3>5, <3>6
  <2>7. QED
    BY <2>5, <2>6
<1>4. ASSUME NEW i \in 1..(len + 1)
      PROVE  g[i] \in Seq(Glyph)
  <2>1. len + 1 - i \in 0..len /\ len + 1 - (len + 1 - i) = i
    OBVIOUS
  <2>2. QED
    BY <1>3, <2>1
<1>5. QED
  BY <1>1, <1>4

LEMMA ExpandedIsText ==
    ASSUME NEW fmt \in Seq(STRING), NEW tm, Ranges(tm)
    PROVE  Expanded(fmt, tm) \in Seq(Glyph)
<1>1. Len(fmt) \in Nat
  OBVIOUS
<1>2. PICK g : Rests(g, fmt, tm) /\ Expanded(fmt, tm) = g[1]
  BY <1>1, ExpandedIs
<1>3. \A i \in 1..(Len(fmt) + 1) : g[i] \in Seq(Glyph)
  BY <1>2, RestsAreText
<1>4. 1 \in 1..(Len(fmt) + 1)
  BY <1>1
<1>5. QED
  BY <1>2, <1>3, <1>4


-----------------------------------------------------------------------------
(***************************************************************************)
(* Digits, read back.                                                      *)
(***************************************************************************)
LEMMA DigitReads == \A d : Digit(d)[2] = d
  BY DEF Digit

LEMMA TwoReads ==
    \A n \in 0..99 : /\ Two(n)[1] = Digit(n \div 10) /\ Two(n)[2] = Digit(n % 10)
                     /\ 10 * Two(n)[1][2] + Two(n)[2][2] = n
<1>1. SUFFICES ASSUME NEW n \in 0..99
               PROVE  /\ Two(n)[1] = Digit(n \div 10) /\ Two(n)[2] = Digit(n % 10)
                      /\ 10 * Two(n)[1][2] + Two(n)[2][2] = n
  OBVIOUS
<1>2. PICK q \in 0..9, r \in 0..9 : n = 10 * q + r /\ q = n \div 10 /\ r = n % 10
  OBVIOUS
<1>3. (n % 100) \div 10 = q /\ (n % 10) \div 1 = r
  BY <1>2
<1>4. Two(n)[1] = Digit((n % pow(2)) \div pow(1)) /\ Two(n)[2] = Digit((n % pow(1)) \div pow(0))
  BY DEF Two, strfmt
<1>5. Two(n)[1] = Digit(q) /\ Two(n)[2] = Digit(r)
  BY <1>3, <1>4, PowIs
<1>6. Two(n)[1][2] = q /\ Two(n)[2][2] = r
  BY <1>5, DigitReads
<1>7. QED
  BY <1>2, <1>5, <1>6

YearDigits(x, n) ==
    /\ x[1] = Digit(n \div 1000) /\ x[2] = Digit((n \div 100) % 10)
    /\ x[3] = Digit((n \div 10) % 10) /\ x[4] = Digit(n % 10)
    /\ 100 * (10 * x[1][2] + x[2][2]) + (10 * x[3][2] + x[4][2]) = n

LEMMA YearReads == \A n \in 1970..2038 : YearDigits(strfmt(n, 4), n)
<1>1. SUFFICES ASSUME NEW n \in 1970..2038
               PROVE  YearDigits(strfmt(n, 4), n)
  OBVIOUS
<1>2. PICK a \in 1..2, b \in {0, 9}, c \in 0..9, d \in 0..9 : n = 1000 * a + 100 * b + 10 * c + d
  <2>1. PICK m \in 197..203, d \in 0..9 : n = 10 * m + d
    <3>1. n \div 10 \in 197..203 /\ n % 10 \in 0..9 /\ n = 10 * (n \div 10) + (n % 10)
      BY Z3
    <3>2. QED
      BY <3>1
  <2>2. PICK a \in 1..2, b \in {0, 9}, c \in 0..9 : m = 100 * a + 10 * b + c
    <3>1. CASE m <= 199
      <4>1. m - 190 \in 0..9 /\ m = 100 * 1 + 10 * 9 + (m - 190)
        BY <3>1
      <4>2. QED
        BY <4>1
    <3>2. CASE ~(m <= 199)
      <4>1. m - 200 \in 0..9 /\ m = 100 * 2 + 10 * 0 + (m - 200)
        BY <3>2
      <4>2. QED
        BY <4>1
    <3>3. QED
      BY <3>1, <3>2
  <2>3. QED
    BY <2>1, <2>2
<1>3. n \div 1000 = a /\ (n \div 100) % 10 = b /\ (n \div 10) % 10 = c /\ n % 10 = d
  BY <1>2, Z3
<1>4. /\ (n % 10000) \div 1000 = a /\ (n % 1000) \div 100 = b /\ (n % 100) \div 10 = c
      /\ (n % 10) \div 1 = d
  BY <1>2, Z3
<1>5. /\ strfmt(n, 4)[1] = Digit((n % pow(4)) \div pow(3)) /\ strfmt(n, 4)[2] = Digit((n % pow(3)) \div pow(2))
      /\ strfmt(n, 4)[3] = Digit((n % pow(2)) \div pow(1)) /\ strfmt(n, 4)[4] = Digit((n % pow(1)) \div pow(0))
  BY DEF strfmt
<1>6. /\ strfmt(n, 4)[1] = Digit(a) /\ strfmt(n, 4)[2] = Digit(b)
      /\ strfmt(n, 4)[3] = Digit(c) /\ strfmt(n, 4)[4] = Digit(d)
  BY <1>4, <1>5, PowIs
<1>7. /\ strfmt(n, 4)[1][2] = a /\ strfmt(n, 4)[2][2] = b
      /\ strfmt(n, 4)[3][2] = c /\ strfmt(n, 4)[4][2] = d
  BY <1>6, DigitReads
<1>8. QED
  BY <1>2, <1>3, <1>6, <1>7 DEF YearDigits

\* The places of a four-digit year with five numbers of two digits behind it.
SixNumbers(x, y, a, b, c, d, e) ==
    /\ Len(x) = 14
    /\ x[1] = y[1] /\ x[2] = y[2] /\ x[3] = y[3] /\ x[4] = y[4]
    /\ x[5] = a[1] /\ x[6] = a[2] /\ x[7] = b[1] /\ x[8] = b[2] /\ x[9] = c[1] /\ x[10] = c[2]
    /\ x[11] = d[1] /\ x[12] = d[2] /\ x[13] = e[1] /\ x[14] = e[2]

LEMMA NumbersJoined ==
    \A y, a, b, c, d, e \in Seq(Glyph) :
        Len(y) = 4 /\ Len(a) = 2 /\ Len(b) = 2 /\ Len(c) = 2 /\ Len(d) = 2 /\ Len(e) = 2
            => SixNumbers(y \o (a \o (b \o (c \o (d \o (e \o <<>>))))), y, a, b, c, d, e)
<1> SUFFICES ASSUME NEW y \in Seq(Glyph), NEW a \in Seq(Glyph), NEW b \in Seq(Glyph),
                    NEW c \in Seq(Glyph), NEW d \in Seq(Glyph), NEW e \in Seq(Glyph),
                    Len(y) = 4, Len(a) = 2, Len(b) = 2, Len(c) = 2, Len(d) = 2, Len(e) = 2
             PROVE  SixNumbers(y \o (a \o (b \o (c \o (d \o (e \o <<>>))))), y, a, b, c, d, e)
  OBVIOUS
<1>1. PICK f : f = e \o <<>>
  OBVIOUS
<1>2. f \in Seq(Glyph) /\ Len(f) = 2 /\ f[1] = e[1] /\ f[2] = e[2]
  <2>1. PICK z \in Seq(Glyph) : z = <<>> /\ Len(z) = 0
    BY EmptyIsText
  <2>2. Cat(f, e, z, 2, 0)
    BY <1>1, <2>1, Joined
  <2>3. QED
    BY <2>2 DEF Cat
<1>3. PICK g : g = d \o f
  OBVIOUS
<1>4. g \in Seq(Glyph) /\ Len(g) = 4 /\ g[1] = d[1] /\ g[2] = d[2] /\ g[3] = f[1] /\ g[4] = f[2]
  <2>1. Cat(g, d, f, 2, 2)
    BY <1>2, <1>3, Joined
  <2>2. QED
    BY <2>1 DEF Cat
<1>5. PICK h : h = c \o g
  OBVIOUS
<1>6. /\ h \in Seq(Glyph) /\ Len(h) = 6 /\ h[1] = c[1] /\ h[2] = c[2]
      /\ h[3] = g[1] /\ h[4] = g[2] /\ h[5] = g[3] /\ h[6] = g[4]
  <2>1. Cat(h, c, g, 2, 4)
    BY <1>4, <1>5, Joined
  <2>2. QED
    BY <2>1 DEF Cat
<1>7. PICK k : k = b \o h
  OBVIOUS
<1>8. /\ k \in Seq(Glyph) /\ Len(k) = 8 /\ k[1] = b[1] /\ k[2] = b[2]
      /\ k[3] = h[1] /\ k[4] = h[2] /\ k[5] = h[3] /\ k[6] = h[4] /\ k[7] = h[5] /\ k[8] = h[6]
  <2>1. Cat(k, b, h, 2, 6)
    BY <1>6, <1>7, Joined
  <2>2. QED
    BY <2>1 DEF Cat
<1>9. PICK l : l = a \o k
  OBVIOUS
<1>10. /\ l \in Seq(Glyph) /\ Len(l) = 10 /\ l[1] = a[1] /\ l[2] = a[2]
       /\ l[3] = k[1] /\ l[4] = k[2] /\ l[5] = k[3] /\ l[6] = k[4] /\ l[7] = k[5] /\ l[8] = k[6]
       /\ l[9] = k[7] /\ l[10] = k[8]
  <2>1. Cat(l, a, k, 2, 8)
    BY <1>8, <1>9, Joined
  <2>2. QED
    BY <2>1 DEF Cat
<1>11. PICK x : x = y \o l
  OBVIOUS
<1>12. /\ Len(x) = 14 /\ x[1] = y[1] /\ x[2] = y[2] /\ x[3] = y[3] /\ x[4] = y[4]
       /\ x[5] = l[1] /\ x[6] = l[2] /\ x[7] = l[3] /\ x[8] = l[4] /\ x[9] = l[5] /\ x[10] = l[6]
       /\ x[11] = l[7] /\ x[12] = l[8] /\ x[13] = l[9] /\ x[14] = l[10]
  <2>1. Cat(x, y, l, 4, 10)
    BY <1>10, <1>11, Joined
  <2>2. QED
    BY <2>1 DEF Cat
<1>13. SixNumbers(x, y, a, b, c, d, e)
  BY <1>2, <1>4, <1>6, <1>8, <1>10, <1>12 DEF SixNumbers
<1>14. QED
  BY <1>1, <1>3, <1>5, <1>7, <1>9, <1>11, <1>13


\* The conversions of ISO, and the numbers that they are of.
IsoTexts(tm, py, pm, pd, ph, pn, ps) ==
    /\ py = Conversion("Y", tm) /\ pm = Conversion("m", tm) /\ pd = Conversion("d", tm)
    /\ ph = Conversion("H", tm) /\ pn = Conversion("M", tm) /\ ps = Conversion("S", tm)
IsoNumbers(tm, y, mo, d, h, mi, s) ==
    /\ y = tm.year + 1900 /\ mo = tm.mon + 1 /\ d = tm.mday
    /\ h = tm.hour /\ mi = tm.min /\ s = tm.sec

YearOf(p, n) ==
    /\ p \in Seq(Glyph) /\ Len(p) = 4
    /\ 100 * (10 * p[1][2] + p[2][2]) + (10 * p[3][2] + p[4][2]) = n
TwoOf(p, n) ==
    /\ p \in Seq(Glyph) /\ Len(p) = 2 /\ 10 * p[1][2] + p[2][2] = n

LEMMA TwoIsTwoOf == \A n \in 0..99 : TwoOf(Two(n), n)
<1>1. ASSUME NEW n \in 0..99 PROVE TwoOf(Two(n), n)
  <2>1. n \in Nat
    OBVIOUS
  <2>2. QED
    BY <2>1, TwoIsText, TwoReads DEF TwoOf
<1>2. QED
  BY <1>1

LEMMA YearIsYearOf == \A n \in 1970..2038 : YearOf(strfmt(n, 4), n)
<1>1. ASSUME NEW n \in 1970..2038 PROVE YearOf(strfmt(n, 4), n)
  <2>1. PICK l \in 1..4 : l = 4
    OBVIOUS
  <2>2. n \in Nat
    OBVIOUS
  <2>3. PICK x : x = strfmt(n, l)
    OBVIOUS
  <2>4. x \in Seq(Glyph) /\ Len(x) = 4
    BY <2>1, <2>2, <2>3, NumberIsText
  <2>5. YearDigits(x, n)
    BY <2>1, <2>3, YearReads
  <2>6. YearOf(x, n)
    BY <2>4, <2>5 DEF YearOf, YearDigits
  <2>7. QED
    BY <2>1, <2>3, <2>6
<1>2. QED
  BY <1>1

LEMMA IsoConversions ==
    ASSUME NEW tm, Ranges(tm),
           NEW y, NEW mo, NEW d, NEW h, NEW mi, NEW s, IsoNumbers(tm, y, mo, d, h, mi, s),
           NEW py, NEW pm, NEW pd, NEW ph, NEW pn, NEW ps, IsoTexts(tm, py, pm, pd, ph, pn, ps)
    PROVE  /\ YearOf(py, y) /\ TwoOf(pm, mo) /\ TwoOf(pd, d)
           /\ TwoOf(ph, h) /\ TwoOf(pn, mi) /\ TwoOf(ps, s)
<1>1. py = strfmt(y, 4)
  BY DEF IsoNumbers, IsoTexts, Conversion
<1>2. pm = Two(mo)
  BY DEF IsoNumbers, IsoTexts, Conversion
<1>3. pd = Two(d)
  BY DEF IsoNumbers, IsoTexts, Conversion
<1>4. ph = Two(h)
  BY DEF IsoNumbers, IsoTexts, Conversion
<1>5. pn = Two(mi)
  BY DEF IsoNumbers, IsoTexts, Conversion
<1>6. ps = Two(s)
  BY DEF IsoNumbers, IsoTexts, Conversion
<1>7. y \in 1970..2038
  BY DEF Ranges, IsoNumbers
<1>8. mo \in 0..99 /\ d \in 0..99
  BY DEF Ranges, IsoNumbers
<1>9. h \in 0..99 /\ mi \in 0..99 /\ s \in 0..99
  BY DEF Ranges, IsoNumbers
<1>10. YearOf(py, y)
  BY <1>1, <1>7, YearIsYearOf
<1>11. TwoOf(pm, mo) /\ TwoOf(pd, d)
  BY <1>2, <1>3, <1>8, TwoIsTwoOf
<1>12. TwoOf(ph, h) /\ TwoOf(pn, mi) /\ TwoOf(ps, s)
  BY <1>4, <1>5, <1>6, <1>9, TwoIsTwoOf
<1>13. QED
  BY <1>10, <1>11, <1>12

\* The places of ISO.
LEMMA IsoIs ==
    /\ Len(ISO) = 12
    /\ ISO[1] = "%" /\ ISO[3] = "%" /\ ISO[5] = "%" /\ ISO[7] = "%" /\ ISO[9] = "%" /\ ISO[11] = "%"
    /\ ISO[2] = "Y" /\ ISO[4] = "m" /\ ISO[6] = "d" /\ ISO[8] = "H" /\ ISO[10] = "M" /\ ISO[12] = "S"
  BY DEF ISO

\* The numbers that are read in a text of ISO.
ReadsBack(x, y, mo, d, h, mi, s) ==
    /\ 100 * (10 * x[1][2] + x[2][2]) + (10 * x[3][2] + x[4][2]) = y
    /\ 10 * x[5][2] + x[6][2] = mo /\ 10 * x[7][2] + x[8][2] = d
    /\ 10 * x[9][2] + x[10][2] = h /\ 10 * x[11][2] + x[12][2] = mi
    /\ 10 * x[13][2] + x[14][2] = s

LEMMA IsoReads ==
    ASSUME NEW tm, Ranges(tm), NEW y, NEW mo, NEW d, NEW h, NEW mi, NEW s,
           IsoNumbers(tm, y, mo, d, h, mi, s), NEW x, x = Expanded(ISO, tm)
    PROVE  ReadsBack(x, y, mo, d, h, mi, s)
<1>1. PICK py, pm, pd, ph, pn, ps : IsoTexts(tm, py, pm, pd, ph, pn, ps)
  BY DEF IsoTexts
<1>2. /\ YearOf(py, y) /\ TwoOf(pm, mo) /\ TwoOf(pd, d)
      /\ TwoOf(ph, h) /\ TwoOf(pn, mi) /\ TwoOf(ps, s)
  BY <1>1, IsoConversions
<1>3. PICK g : Rests(g, ISO, tm) /\ x = g[1]
  <2>1. Len(ISO) \in Nat
    BY IsoIs
  <2>2. QED
    BY <2>1, ExpandedIs
<1>4. \A i \in 1..13 : g[i] = From(g, ISO, tm, i)
  BY <1>3, IsoIs DEF Rests
<1>5. g[13] = <<>>
  BY IsoIs, <1>4 DEF From
<1>6. g[11] = Conversion("S", tm) \o g[13]
  <2>1. g[11] = From(g, ISO, tm, 11)
    BY <1>4
  <2>2. /\ ISO[11] = "%" /\ ISO[11 + 1] = "S"
        /\ ~(11 > Len(ISO)) /\ 11 # Len(ISO) /\ 11 + 2 = 13
    BY IsoIs
  <2>3. QED
    BY <2>1, <2>2, Zenon DEF From
<1>7. g[9] = Conversion("M", tm) \o g[11]
  <2>1. g[9] = From(g, ISO, tm, 9)
    BY <1>4
  <2>2. /\ ISO[9] = "%" /\ ISO[9 + 1] = "M"
        /\ ~(9 > Len(ISO)) /\ 9 # Len(ISO) /\ 9 + 2 = 11
    BY IsoIs
  <2>3. QED
    BY <2>1, <2>2, Zenon DEF From
<1>8. g[7] = Conversion("H", tm) \o g[9]
  <2>1. g[7] = From(g, ISO, tm, 7)
    BY <1>4
  <2>2. /\ ISO[7] = "%" /\ ISO[7 + 1] = "H"
        /\ ~(7 > Len(ISO)) /\ 7 # Len(ISO) /\ 7 + 2 = 9
    BY IsoIs
  <2>3. QED
    BY <2>1, <2>2, Zenon DEF From
<1>9. g[5] = Conversion("d", tm) \o g[7]
  <2>1. g[5] = From(g, ISO, tm, 5)
    BY <1>4
  <2>2. /\ ISO[5] = "%" /\ ISO[5 + 1] = "d"
        /\ ~(5 > Len(ISO)) /\ 5 # Len(ISO) /\ 5 + 2 = 7
    BY IsoIs
  <2>3. QED
    BY <2>1, <2>2, Zenon DEF From
<1>10. g[3] = Conversion("m", tm) \o g[5]
  <2>1. g[3] = From(g, ISO, tm, 3)
    BY <1>4
  <2>2. /\ ISO[3] = "%" /\ ISO[3 + 1] = "m"
        /\ ~(3 > Len(ISO)) /\ 3 # Len(ISO) /\ 3 + 2 = 5
    BY IsoIs
  <2>3. QED
    BY <2>1, <2>2, Zenon DEF From
<1>11. g[1] = Conversion("Y", tm) \o g[3]
  <2>1. g[1] = From(g, ISO, tm, 1)
    BY <1>4
  <2>2. /\ ISO[1] = "%" /\ ISO[1 + 1] = "Y"
        /\ ~(1 > Len(ISO)) /\ 1 # Len(ISO) /\ 1 + 2 = 3
    BY IsoIs
  <2>3. QED
    BY <2>1, <2>2, Zenon DEF From
<1>12. /\ g[11] = ps \o <<>> /\ g[9] = pn \o g[11] /\ g[7] = ph \o g[9]
       /\ g[5] = pd \o g[7] /\ g[3] = pm \o g[5] /\ g[1] = py \o g[3]
  BY <1>1, <1>5, <1>6, <1>7, <1>8, <1>9, <1>10, <1>11 DEF IsoTexts
<1>13. PICK z : z = py \o (pm \o (pd \o (ph \o (pn \o (ps \o <<>>)))))
  OBVIOUS
<1>14. x = z
  BY <1>3, <1>12, <1>13
<1>15. SixNumbers(z, py, pm, pd, ph, pn, ps)
  BY <1>2, <1>13, NumbersJoined DEF YearOf, TwoOf
<1>16. ReadsBack(z, y, mo, d, h, mi, s)
  BY <1>2, <1>15 DEF SixNumbers, YearOf, TwoOf, ReadsBack
<1>17. QED
  BY <1>14, <1>16


-----------------------------------------------------------------------------
(***************************************************************************)
(* asctime() and %c.                                                       *)
(***************************************************************************)
\* r is buf with p, q and c around place `at'.
Written(r, buf, at, p, q, c) ==
    /\ r \in [1..27 -> Glyph] /\ r[at - 1] = p /\ r[at] = q /\ r[at + 1] = c
    /\ \A i \in 1..27 : i < at - 1 \/ i > at + 1 => r[i] = buf[i]

Tens(i, cl) == IF i \div 10 # 0 THEN Digit(i \div 10) ELSE cl

LEMMA DigitIsGlyph == \A d \in Int : Digit(d) \in Glyph
<1>1. ASSUME NEW d \in Int PROVE Digit(d) \in Glyph
  <2>1. <<"digit", d>> \in {"digit", "sign"} \X (Int \cup Signs)
    OBVIOUS
  <2>2. QED
    BY <2>1 DEF Digit, Glyph
<1>2. QED
  BY <1>1

Put(res, buf, at, i, cl, ct) ==
    /\ buf \in [1..27 -> Glyph] /\ at \in 2..26 /\ i \in Nat /\ cl \in Glyph /\ ct \in Glyph
    /\ res = put2d(buf, at, i, cl, ct)

LEMMA Puts ==
    \A res, buf, at, i, cl, ct :
        Put(res, buf, at, i, cl, ct) => Written(res, buf, at, Tens(i, cl), Digit(i % 10), ct)
<1>1. SUFFICES ASSUME NEW buf \in [1..27 -> Glyph], NEW at \in 2..26, NEW i \in Nat,
                      NEW cl \in Glyph, NEW ct \in Glyph
               PROVE  Written(put2d(buf, at, i, cl, ct), buf, at, Tens(i, cl), Digit(i % 10), ct)
  BY ZenonT(40) DEF Put
<1>2. PICK p \in Glyph : p = Tens(i, cl)
  <2>1. i \div 10 \in Int
    OBVIOUS
  <2>2. Digit(i \div 10) \in Glyph
    BY <2>1, DigitIsGlyph
  <2>3. QED
    BY <2>2 DEF Tens
<1>3. PICK q \in Glyph : q = Digit(i % 10)
  <2>1. i % 10 \in Int
    OBVIOUS
  <2>2. QED
    BY <2>1, DigitIsGlyph
<1>4. PICK r : r = [buf EXCEPT ![at + 1] = ct, ![at] = q, ![at - 1] = p]
  OBVIOUS
<1>5. put2d(buf, at, i, cl, ct) = r
  BY <1>2, <1>3, <1>4 DEF put2d, Tens
<1>6. Written(r, buf, at, p, q, ct)
  BY <1>4 DEF Written
<1>7. QED
  BY <1>2, <1>3, <1>5, <1>6

\* The places of asctime()'s text.
Dated24(r, n, y, d, h, mi, s) ==
    /\ r \in [1..27 -> Glyph]
    /\ \A i \in 1..8 : r[i] = n[i]
    /\ r[9] = Tens(d, Sign("blank")) /\ r[10] = Digit(d % 10) /\ r[11] = Sign("blank")
    /\ r[12] = Tens(h, Digit(0)) /\ r[13] = Digit(h % 10) /\ r[14] = Sign(":")
    /\ r[15] = Tens(mi, Digit(0)) /\ r[16] = Digit(mi % 10) /\ r[17] = Sign(":")
    /\ r[18] = Tens(s, Digit(0)) /\ r[19] = Digit(s % 10) /\ r[20] = Sign("blank")
    /\ r[21] = Tens((y \div 100) + 19, Sign("blank")) /\ r[22] = Digit(((y \div 100) + 19) % 10)
    /\ r[23] = Tens(y % 100, Digit(0)) /\ r[24] = Digit((y % 100) % 10)
    /\ r[25] = Sign("newline") /\ r[26] = Null

\* The numbers of a broken-down time.
NumbersAre(tm, y, d, h, mi, s) ==
    y = tm.year /\ d = tm.mday /\ h = tm.hour /\ mi = tm.min /\ s = tm.sec


\* How asctime() fills its buffer.
Written6(b0, b1, b2, b3, b4, b5, b6, n, y, d, h, mi, s) ==
    /\ b0 = [i \in 1..27 |-> IF i <= 8 THEN n[i] ELSE Null]
    /\ b1 = put2d(b0, 10, d, Sign("blank"), Sign("blank"))
    /\ b2 = put2d(b1, 13, h, Digit(0), Sign(":"))
    /\ b3 = put2d(b2, 16, mi, Digit(0), Sign(":"))
    /\ b4 = put2d(b3, 19, s, Digit(0), Sign("blank"))
    /\ b5 = put2d(b4, 22, (y \div 100) + 19, Sign("blank"), Null)
    /\ b6 = put2d(b5, 24, y % 100, Digit(0), Sign("newline"))

LEMMA AsctimeIs ==
    ASSUME NEW n, \A i \in 1..8 : n[i] \in Glyph,
           NEW y \in 70..138, NEW d \in 1..31, NEW h \in 0..23, NEW mi \in 0..59, NEW s \in 0..59,
           NEW b0, NEW b1, NEW b2, NEW b3, NEW b4, NEW b5, NEW b6,
           Written6(b0, b1, b2, b3, b4, b5, b6, n, y, d, h, mi, s)
    PROVE  Dated24(b6, n, y, d, h, mi, s)
<1>1. PICK o \in Glyph, bl \in Glyph, co \in Glyph, nl \in Glyph, nu \in Glyph :
          o = Digit(0) /\ bl = Sign("blank") /\ co = Sign(":") /\ nl = Sign("newline") /\ nu = Null
  <2>1. PICK u \in Signs, v \in Signs, w \in Signs, x \in Signs :
            u = "blank" /\ v = ":" /\ w = "newline" /\ x = "null"
    BY DEF Signs
  <2>2. Sign(u) \in Glyph /\ Sign(v) \in Glyph /\ Sign(w) \in Glyph /\ Sign(x) \in Glyph
    BY SignIsText
  <2>3. Digit(0) \in Glyph
    BY DigitIsGlyph
  <2>4. QED
    BY <2>1, <2>2, <2>3 DEF Null
<1>2. b0 \in [1..27 -> Glyph] /\ (\A i \in 1..8 : b0[i] = n[i]) /\ b0[26] = nu
  <2>1. b0 = [i \in 1..27 |-> IF i <= 8 THEN n[i] ELSE nu]
    BY <1>1 DEF Written6
  <2>2. QED
    BY <2>1
<1>3. PICK c \in Nat, m \in Nat : c = (y \div 100) + 19 /\ m = y % 100
  OBVIOUS
<1>4. d \in Nat /\ h \in Nat /\ mi \in Nat /\ s \in Nat
  OBVIOUS
<1>5. /\ b1 = put2d(b0, 10, d, bl, bl) /\ b2 = put2d(b1, 13, h, o, co)
      /\ b3 = put2d(b2, 16, mi, o, co) /\ b4 = put2d(b3, 19, s, o, bl)
      /\ b5 = put2d(b4, 22, c, bl, nu) /\ b6 = put2d(b5, 24, m, o, nl)
  BY <1>1, <1>3 DEF Written6
<1>6. Written(b1, b0, 10, Tens(d, bl), Digit(d % 10), bl)
  <2>1. Put(b1, b0, 10, d, bl, bl)
    BY <1>2, <1>4, <1>5 DEF Put
  <2>2. QED
    BY <2>1, Puts
<1>7. Written(b2, b1, 13, Tens(h, o), Digit(h % 10), co)
  <2>1. b1 \in [1..27 -> Glyph]
    BY <1>6 DEF Written
  <2>2. Put(b2, b1, 13, h, o, co)
    BY <1>4, <1>5, <2>1 DEF Put
  <2>3. QED
    BY <2>2, Puts
<1>8. Written(b3, b2, 16, Tens(mi, o), Digit(mi % 10), co)
  <2>1. b2 \in [1..27 -> Glyph]
    BY <1>7 DEF Written
  <2>2. Put(b3, b2, 16, mi, o, co)
    BY <1>4, <1>5, <2>1 DEF Put
  <2>3. QED
    BY <2>2, Puts
<1>9. Written(b4, b3, 19, Tens(s, o), Digit(s % 10), bl)
  <2>1. b3 \in [1..27 -> Glyph]
    BY <1>8 DEF Written
  <2>2. Put(b4, b3, 19, s, o, bl)
    BY <1>4, <1>5, <2>1 DEF Put
  <2>3. QED
    BY <2>2, Puts
<1>10. Written(b5, b4, 22, Tens(c, bl), Digit(c % 10), nu)
  <2>1. b4 \in [1..27 -> Glyph]
    BY <1>9 DEF Written
  <2>2. Put(b5, b4, 22, c, bl, nu)
    BY <1>4, <1>5, <2>1 DEF Put
  <2>3. QED
    BY <2>2, Puts
<1>11. Written(b6, b5, 24, Tens(m, o), Digit(m % 10), nl)
  <2>1. b5 \in [1..27 -> Glyph]
    BY <1>10 DEF Written
  <2>2. Put(b6, b5, 24, m, o, nl)
    BY <1>4, <1>5, <2>1 DEF Put
  <2>3. QED
    BY <2>2, Puts
<1>12. /\ b6 \in [1..27 -> Glyph]
        /\ b6[23] = Tens(m, o) /\ b6[24] = Digit(m % 10) /\ b6[25] = nl
        /\ b6[9] = b5[9] /\ b6[10] = b5[10] /\ b6[11] = b5[11] /\ b6[12] = b5[12] /\ b6[13] = b5[13] /\ b6[14] = b5[14]
        /\ b6[15] = b5[15] /\ b6[16] = b5[16] /\ b6[17] = b5[17] /\ b6[18] = b5[18] /\ b6[19] = b5[19] /\ b6[20] = b5[20]
        /\ b6[21] = b5[21] /\ b6[22] = b5[22] /\ b6[26] = b5[26]
  BY <1>11 DEF Written
<1>13. /\ b5[21] = Tens(c, bl) /\ b5[22] = Digit(c % 10)
        /\ b5[9] = b4[9] /\ b5[10] = b4[10] /\ b5[11] = b4[11] /\ b5[12] = b4[12] /\ b5[13] = b4[13] /\ b5[14] = b4[14]
        /\ b5[15] = b4[15] /\ b5[16] = b4[16] /\ b5[17] = b4[17] /\ b5[18] = b4[18] /\ b5[19] = b4[19] /\ b5[20] = b4[20]
        /\ b5[26] = b4[26]
  BY <1>10 DEF Written
<1>14. /\ b4[18] = Tens(s, o) /\ b4[19] = Digit(s % 10) /\ b4[20] = bl
        /\ b4[9] = b3[9] /\ b4[10] = b3[10] /\ b4[11] = b3[11] /\ b4[12] = b3[12] /\ b4[13] = b3[13] /\ b4[14] = b3[14]
        /\ b4[15] = b3[15] /\ b4[16] = b3[16] /\ b4[17] = b3[17] /\ b4[26] = b3[26]
  BY <1>9 DEF Written
<1>15. /\ b3[15] = Tens(mi, o) /\ b3[16] = Digit(mi % 10) /\ b3[17] = co
        /\ b3[9] = b2[9] /\ b3[10] = b2[10] /\ b3[11] = b2[11] /\ b3[12] = b2[12] /\ b3[13] = b2[13] /\ b3[14] = b2[14]
        /\ b3[26] = b2[26]
  BY <1>8 DEF Written
<1>16. /\ b2[12] = Tens(h, o) /\ b2[13] = Digit(h % 10) /\ b2[14] = co
        /\ b2[9] = b1[9] /\ b2[10] = b1[10] /\ b2[11] = b1[11] /\ b2[26] = b1[26]
  BY <1>7 DEF Written
<1>17. b1[9] = Tens(d, bl) /\ b1[10] = Digit(d % 10) /\ b1[11] = bl /\ b1[26] = b0[26]
  BY <1>6 DEF Written
<1>18. \A i \in 1..8 : b6[i] = n[i]
  <2>1. ASSUME NEW i \in 1..8
        PROVE  b6[i] = n[i]
    <3>1. b6[i] = b5[i]
      BY <1>11 DEF Written
    <3>2. b5[i] = b4[i]
      BY <1>10 DEF Written
    <3>3. b4[i] = b3[i]
      BY <1>9 DEF Written
    <3>4. b3[i] = b2[i]
      BY <1>8 DEF Written
    <3>5. b2[i] = b1[i]
      BY <1>7 DEF Written
    <3>6. b1[i] = b0[i]
      BY <1>6 DEF Written
    <3>7. QED
      BY <1>2, <3>1, <3>2, <3>3, <3>4, <3>5, <3>6
  <2>2. QED
    BY <2>1
<1>19. b6[26] = nu
  BY <1>2, <1>12, <1>13, <1>14, <1>15, <1>16, <1>17
<1>20. b6[9] = Tens(d, bl) /\ b6[10] = Digit(d % 10) /\ b6[11] = bl
  BY <1>12, <1>13, <1>14, <1>15, <1>16, <1>17
<1>21. b6[12] = Tens(h, o) /\ b6[13] = Digit(h % 10) /\ b6[14] = co
  BY <1>12, <1>13, <1>14, <1>15, <1>16
<1>22. b6[15] = Tens(mi, o) /\ b6[16] = Digit(mi % 10) /\ b6[17] = co
  BY <1>12, <1>13, <1>14, <1>15
<1>23. b6[18] = Tens(s, o) /\ b6[19] = Digit(s % 10) /\ b6[20] = bl
  BY <1>12, <1>13, <1>14
<1>24. b6[21] = Tens(c, bl) /\ b6[22] = Digit(c % 10)
  BY <1>12, <1>13
<1>25. QED
  BY <1>1, <1>3, <1>12, <1>18, <1>19, <1>20, <1>21, <1>22, <1>23, <1>24 DEF Dated24


LEMMA TensAre == \A i \in Nat : Tens(i, Digit(0)) = Digit(i \div 10)
  BY DEF Tens

\* The century and the year of it, as both of them write it.
LEMMA CenturyIs ==
    ASSUME NEW y \in 70..138
    PROVE  /\ (y + 1900) \div 1000 = ((y \div 100) + 19) \div 10
           /\ ((y + 1900) \div 100) % 10 = ((y \div 100) + 19) % 10
           /\ ((y + 1900) \div 10) % 10 = (y % 100) \div 10
           /\ (y + 1900) % 10 = (y % 100) % 10
           /\ ((y \div 100) + 19) \div 10 # 0
<1>1. CASE y < 100
  <2>1. y \div 100 = 0 /\ y % 100 = y
    BY <1>1
  <2>2. PICK c \in 7..9, r \in 0..9 : y = 10 * c + r
    <3>1. y \div 10 \in 7..9 /\ y % 10 \in 0..9 /\ y = 10 * (y \div 10) + (y % 10)
      BY <1>1, Z3
    <3>2. QED
      BY <3>1
  <2>3. y \div 10 = c /\ y % 10 = r
    BY <2>2, Z3
  <2>4. (y + 1900) \div 1000 = 1 /\ (y + 1900) \div 100 = 19 /\ (y + 1900) \div 10 = 190 + c /\ (y + 1900) % 10 = r
    BY <2>2, Z3
  <2>5. (190 + c) % 10 = c
    BY Z3
  <2>6. QED
    BY <2>1, <2>3, <2>4, <2>5
<1>2. CASE ~(y < 100)
  <2>1. y \div 100 = 1 /\ y % 100 = y - 100
    BY <1>2
  <2>2. PICK c \in 0..3, r \in 0..9 : y = 100 + 10 * c + r
    <3>1. (y - 100) \div 10 \in 0..3 /\ (y - 100) % 10 \in 0..9 /\ y = 100 + 10 * ((y - 100) \div 10) + ((y - 100) % 10)
      BY <1>2, Z3
    <3>2. QED
      BY <3>1
  <2>3. (y - 100) \div 10 = c /\ (y - 100) % 10 = r
    BY <2>2, Z3
  <2>4. (y + 1900) \div 1000 = 2 /\ (y + 1900) \div 100 = 20 /\ (y + 1900) \div 10 = 200 + c /\ (y + 1900) % 10 = r
    BY <2>2, Z3
  <2>5. (200 + c) % 10 = c
    BY Z3
  <2>6. QED
    BY <2>1, <2>3, <2>4, <2>5
<1>3. QED
  BY <1>1, <1>2

\* asctime()'s text is that of %c, but for a blank before a short day.
Matches(a, x) ==
    /\ a[25] = Sign("newline") /\ a[26] = Null
    /\ \A i \in 1..24 : \/ a[i] = x[i]
                        \/ (i = 9 /\ x[i] = Digit(0) /\ a[i] = Sign("blank"))

\* The characters of %c, from its numbers.
Dated24c(x, n, y, d, h, mi, s) ==
    /\ \A i \in 1..8 : x[i] = n[i]
    /\ x[9] = Digit(d \div 10) /\ x[10] = Digit(d % 10) /\ x[11] = Sign("blank")
    /\ x[12] = Digit(h \div 10) /\ x[13] = Digit(h % 10) /\ x[14] = Sign(":")
    /\ x[15] = Digit(mi \div 10) /\ x[16] = Digit(mi % 10) /\ x[17] = Sign(":")
    /\ x[18] = Digit(s \div 10) /\ x[19] = Digit(s % 10) /\ x[20] = Sign("blank")
    /\ x[21] = Digit((y + 1900) \div 1000) /\ x[22] = Digit(((y + 1900) \div 100) % 10)
    /\ x[23] = Digit(((y + 1900) \div 10) % 10) /\ x[24] = Digit((y + 1900) % 10)

LEMMA TextsMatch ==
    ASSUME NEW y \in 70..138, NEW d \in 1..31, NEW h \in 0..23, NEW mi \in 0..59, NEW s \in 0..59,
           NEW a, NEW x, NEW n, Dated24(a, n, y, d, h, mi, s), Dated24c(x, n, y, d, h, mi, s)
    PROVE  Matches(a, x)
<1>1. d \in Nat /\ h \in Nat /\ mi \in Nat /\ s \in Nat /\ y % 100 \in Nat
  OBVIOUS
<1>2. a[25] = Sign("newline") /\ a[26] = Null
  BY DEF Dated24
<1>3. ASSUME NEW i \in 1..8 PROVE a[i] = x[i]
  BY DEF Dated24, Dated24c
<1>4. a[9] = x[9] \/ (x[9] = Digit(0) /\ a[9] = Sign("blank"))
  BY DEF Dated24, Dated24c, Tens
<1>5. a[10] = x[10] /\ a[11] = x[11] /\ a[14] = x[14] /\ a[17] = x[17] /\ a[20] = x[20]
      /\ a[13] = x[13] /\ a[16] = x[16] /\ a[19] = x[19]
  BY DEF Dated24, Dated24c
<1>6. a[12] = x[12]
  BY <1>1, TensAre DEF Dated24, Dated24c
<1>7. a[15] = x[15]
  BY <1>1, TensAre DEF Dated24, Dated24c
<1>8. a[18] = x[18]
  BY <1>1, TensAre DEF Dated24, Dated24c
<1>9. a[21] = x[21] /\ a[22] = x[22]
  BY CenturyIs DEF Dated24, Dated24c, Tens
<1>10. a[23] = x[23] /\ a[24] = x[24]
  <2>1. PICK m \in Nat : m = y % 100
    BY <1>1
  <2>2. Tens(m, Digit(0)) = Digit(m \div 10)
    BY TensAre
  <2>3. m \div 10 = ((y + 1900) \div 10) % 10 /\ m % 10 = (y + 1900) % 10
    BY <2>1, CenturyIs
  <2>4. a[23] = Tens(m, Digit(0)) /\ a[24] = Digit(m % 10)
    BY <2>1 DEF Dated24
  <2>5. QED
    BY <2>2, <2>3, <2>4 DEF Dated24c
<1>11. ASSUME NEW i \in 9..24
       PROVE  a[i] = x[i] \/ (i = 9 /\ x[i] = Digit(0) /\ a[i] = Sign("blank"))
  <2>1. i \in {9, 10, 11, 12, 13, 14, 15, 16, 17, 18, 19, 20, 21, 22, 23, 24}
    OBVIOUS
  <2>2. QED
    BY <1>4, <1>5, <1>6, <1>7, <1>8, <1>9, <1>10, <2>1
<1>12. ASSUME NEW i \in 1..24
       PROVE  a[i] = x[i] \/ (i = 9 /\ x[i] = Digit(0) /\ a[i] = Sign("blank"))
  <2>1. i \in 1..8 \/ i \in 9..24
    OBVIOUS
  <2>2. QED
    BY <1>3, <1>11, <2>1
<1>13. QED
  BY <1>2, <1>12 DEF Matches


LEMMA PlacesAreGlyphs == \A p \in Seq(Glyph) : \A i \in 1..Len(p) : p[i] \in Glyph
  OBVIOUS

TwoDigits(p, n) == p[1] = Digit(n \div 10) /\ p[2] = Digit(n % 10)
LEMMA TwoAreDigits == \A n \in 0..99 : TwoDigits(Two(n), n)
  BY TwoReads DEF TwoDigits

LEMMA AsctimeWrites ==
    ASSUME NEW tm, Ranges(tm), NEW n, n = Names(tm), NEW a, a = asctime(tm),
           NEW y \in 70..138, NEW d \in 1..31, NEW h \in 0..23, NEW mi \in 0..59, NEW s \in 0..59,
           NumbersAre(tm, y, d, h, mi, s)
    PROVE  Dated24(a, n, y, d, h, mi, s)
<1>1. n \in Seq(Glyph) /\ Len(n) = 8
  BY NamesAreText
<1>2. \A i \in 1..8 : n[i] \in Glyph
  BY <1>1, PlacesAreGlyphs
<1>3. PICK b0 : b0 = [i \in 1..27 |-> IF i <= 8 THEN n[i] ELSE Null]
  OBVIOUS
<1>4. PICK b1 : b1 = put2d(b0, 10, d, Sign("blank"), Sign("blank"))
  OBVIOUS
<1>5. PICK b2 : b2 = put2d(b1, 13, h, Digit(0), Sign(":"))
  OBVIOUS
<1>6. PICK b3 : b3 = put2d(b2, 16, mi, Digit(0), Sign(":"))
  OBVIOUS
<1>7. PICK b4 : b4 = put2d(b3, 19, s, Digit(0), Sign("blank"))
  OBVIOUS
<1>8. PICK b5 : b5 = put2d(b4, 22, (y \div 100) + 19, Sign("blank"), Null)
  OBVIOUS
<1>9. PICK b6 : b6 = put2d(b5, 24, y % 100, Digit(0), Sign("newline"))
  OBVIOUS
<1>10. Written6(b0, b1, b2, b3, b4, b5, b6, n, y, d, h, mi, s)
  BY <1>3, <1>4, <1>5, <1>6, <1>7, <1>8, <1>9 DEF Written6
<1>11. Dated24(b6, n, y, d, h, mi, s)
  BY <1>2, <1>10, AsctimeIs
<1>12. a = b6
  BY <1>1, <1>3, <1>4, <1>5, <1>6, <1>7, <1>8, <1>9 DEF asctime, Names, NumbersAre
<1>13. QED
  BY <1>11, <1>12

LEMMA DateWrites ==
    ASSUME NEW tm, Ranges(tm), NEW n, n = Names(tm), NEW x, x = Conversion("c", tm),
           NEW y \in 70..138, NEW d \in 1..31, NEW h \in 0..23, NEW mi \in 0..59, NEW s \in 0..59,
           NumbersAre(tm, y, d, h, mi, s)
    PROVE  Dated24c(x, n, y, d, h, mi, s)
<1>1. PICK dd, k, yy : DatePieces(tm, n, dd, k, yy, x)
  BY DEF DatePieces
<1>2. DatePlaces(x, n, Blank, dd, k, yy)
  BY <1>1, DateIsText
<1>3. dd = Two(d) /\ yy = strfmt(y + 1900, 4) /\ k = Clocked(tm)
  BY <1>1 DEF DatePieces, NumbersAre
<1>4. /\ k[1] = Two(h)[1] /\ k[2] = Two(h)[2] /\ k[3] = Sign(":") /\ k[6] = Sign(":")
      /\ k[4] = Two(mi)[1] /\ k[5] = Two(mi)[2] /\ k[7] = Two(s)[1] /\ k[8] = Two(s)[2]
  <2>1. tm.hour \in Nat /\ tm.min \in Nat /\ tm.sec \in Nat
    BY NumbersOf
  <2>2. /\ k[1] = Two(tm.hour)[1] /\ k[2] = Two(tm.hour)[2] /\ k[3] = Sign(":") /\ k[6] = Sign(":")
        /\ k[4] = Two(tm.min)[1] /\ k[5] = Two(tm.min)[2] /\ k[7] = Two(tm.sec)[1] /\ k[8] = Two(tm.sec)[2]
    BY <1>3, <2>1, ClockedIsText
  <2>3. QED
    BY <2>2 DEF NumbersAre
<1>5. d \in 0..99 /\ h \in 0..99 /\ mi \in 0..99 /\ s \in 0..99 /\ y + 1900 \in 1970..2038
  OBVIOUS
<1>6. dd[1] = Digit(d \div 10) /\ dd[2] = Digit(d % 10)
  BY <1>3, <1>5, TwoReads
<1>7. k[1] = Digit(h \div 10) /\ k[2] = Digit(h % 10)
  <2>1. TwoDigits(Two(h), h)
    BY <1>5, TwoAreDigits
  <2>2. QED
    BY <1>4, <2>1 DEF TwoDigits
<1>8. k[4] = Digit(mi \div 10) /\ k[5] = Digit(mi % 10)
  <2>1. TwoDigits(Two(mi), mi)
    BY <1>5, TwoAreDigits
  <2>2. QED
    BY <1>4, <2>1 DEF TwoDigits
<1>9. k[7] = Digit(s \div 10) /\ k[8] = Digit(s % 10)
  <2>1. TwoDigits(Two(s), s)
    BY <1>5, TwoAreDigits
  <2>2. QED
    BY <1>4, <2>1 DEF TwoDigits
<1>10. YearDigits(yy, y + 1900)
  BY <1>3, <1>5, YearReads
<1>11. Blank[1] = Sign("blank")
  BY BlankIsText
<1>12. QED
  BY <1>2, <1>4, <1>6, <1>7, <1>8, <1>9, <1>10, <1>11 DEF DatePlaces, Dated24c, YearDigits

LEMMA AsctimeMatches ==
    ASSUME NEW tm, Ranges(tm), NEW a, a = asctime(tm), NEW x, x = Conversion("c", tm)
    PROVE  Matches(a, x) /\ Len(a) = 27
<1>1. PICK y \in 70..138, d \in 1..31, h \in 0..23, mi \in 0..59, s \in 0..59 :
          NumbersAre(tm, y, d, h, mi, s)
  BY DEF Ranges, NumbersAre
<1>2. PICK n : n = Names(tm)
  OBVIOUS
<1>3. Dated24(a, n, y, d, h, mi, s)
  BY <1>1, <1>2, AsctimeWrites
<1>4. Dated24c(x, n, y, d, h, mi, s)
  BY <1>1, <1>2, DateWrites
<1>5. Matches(a, x)
  BY <1>3, <1>4, TextsMatch
<1>6. Len(a) = 27
  <2>1. a \in [1..27 -> Glyph]
    BY <1>3 DEF Dated24
  <2>2. QED
    BY <2>1
<1>7. QED
  BY <1>5, <1>6


-----------------------------------------------------------------------------
(***************************************************************************)
(* The inductive invariant.                                                *)
(***************************************************************************)
\* Minutes whose seconds an int holds.
Zone(z) == z \in Int /\ Int16(z * 60) = z * 60

\* A reading that was taken while the clock was in time, here and in Greenwich.
Known(c, z) ==
    /\ c \in Clock /\ IsReading(c)
    /\ Reference(c) <= LastTime /\ Reference(c) - z * 60 <= LastTime

\* What a broken-down time may stand for.
Meant(w, z) == Known(w.clock, z) /\ w.west \in {0, z}

\* A reading c of the clock after n ticks leaves room for the ticks that are left.
Runs(c, n, z) ==
    /\ c \in Clock /\ IsReading(c) /\ n \in 0..MaxTicks
    /\ Reference(c) + (MaxTicks - n) <= LastTime
    /\ Reference(c) - z * 60 + (MaxTicks - n) <= LastTime

\* x is the time of the reading c.
Timed(x, c, z) == x \in Nat /\ (c # None => Known(c, z) /\ x = Reference(c))

\* tm is the broken-down time of w.
Shows(tm, w, z) ==
    /\ w # None => Meant(w, z) /\ tm = gmtime(Local(w))
    /\ tm # None => Ranges(tm)

\* r is asctime()'s or strftime()'s text of w.
Made(r, w, fmt) ==
    IF fmt = None THEN r = [chars |-> asctime(gmtime(Local(w))), ret |-> 25, maxs |-> 28]
    ELSE \E f \in Formats : fmt = f.fmt /\ r = strftime(f.fmt, f.maxs, gmtime(Local(w)))
Tells(r, m, z) ==
    /\ m # None => Meant(m.what, z) /\ Made(r, m.what, m.fmt)
    /\ Len(r.chars) < r.maxs

CInv ==
    /\ Zone(time_zone)
    /\ Runs(clock, ticks, time_zone)
    /\ Timed(t, stamp, time_zone)
    /\ Shows(tim, shown, time_zone)
    /\ Tells(text, told, time_zone)

LEMMA Int16Is == \A z \in Int : Int16(z) = z => -32768 <= z /\ z <= 32767
<1>1. ASSUME NEW z \in Int PROVE LET m == (z + 32768) % 65536 IN m \in Int /\ 0 <= m /\ m <= 65535
  BY Z3
<1>2. ASSUME NEW z \in Int, NEW m \in Int, 0 <= m /\ m <= 65535, m - 32768 = z
      PROVE  -32768 <= z /\ z <= 32767
  BY <1>2, Z3
<1>3. QED
  BY <1>1, <1>2 DEF Int16

\* Times that an int of seconds is west of are times.
LEMMA LocalIsTime ==
    ASSUME NEW z0, Zone(z0), NEW c, Known(c, z0), NEW w \in {0, z0}
    PROVE  /\ Reference(c) \in Nat /\ Reference(c) - w * 60 \in Nat
           /\ Reference(c) - w * 60 <= LastTime
<1>1. PICK z \in Int : z = z0 * 60
  BY DEF Zone
<1>2. -32768 <= z /\ z <= 32767
  <2>1. Int16(z) = z
    BY <1>1 DEF Zone
  <2>2. QED
    BY <2>1, Int16Is
<1>3. PICK r \in Nat : r = Reference(c) /\ r >= 2922 * 86400
  <2>1. c \in Clock /\ c.days >= 1
    BY DEF Known, IsReading
  <2>2. /\ Reference(c) = (c.days + 2921) * 86400 + Decimal(c.hour) * 3600 + Decimal(c.min) * 60 + Decimal(c.sec)
        /\ Reference(c) \in Nat
    BY <2>1, ReferenceIs
  <2>3. PICK n \in Nat, h \in Nat, m \in Nat, s \in Nat :
            n = c.days /\ h = Decimal(c.hour) /\ m = Decimal(c.min) /\ s = Decimal(c.sec)
    BY <2>1, DecimalIs DEF Clock
  <2>4. n >= 1 /\ Reference(c) = (n + 2921) * 86400 + h * 3600 + m * 60 + s
    BY <2>1, <2>2, <2>3
  <2>5. (n + 2921) * 86400 + h * 3600 + m * 60 + s >= 2922 * 86400
    BY <2>4
  <2>6. QED
    BY <2>2, <2>4, <2>5
<1>4. PICK l \in Int : l = LastTime
  BY DEF LastTime
<1>5. r <= l /\ r - z <= l
  BY <1>1, <1>3, <1>4 DEF Known
<1>6. r - z \in Nat
  BY <1>2, <1>3
<1>7. CASE w = 0
  <2>1. w * 60 = 0
    BY <1>7
  <2>2. QED
    BY <1>3, <1>4, <1>5, <2>1
<1>8. CASE w = z0
  <2>1. w * 60 = z
    BY <1>1, <1>8
  <2>2. QED
    BY <1>3, <1>4, <1>5, <1>6, <2>1
<1>9. QED
  BY <1>7, <1>8

\* gmtime() breaks down every time, and the time a day later.
LEMMA TimesBreak ==
    ASSUME NEW secs \in Nat, secs <= LastTime
    PROVE  Broken(gmtime(secs), secs) /\ Dated(gmtime(secs), secs) /\ Ranges(gmtime(secs))
<1>1. secs \div 86400 <= LastDay
  BY Z3 DEF LastTime, LastDay
<1>2. Broken(gmtime(secs), secs)
  BY <1>1, GmtimeBreaks
<1>3. Dated(gmtime(secs), secs) /\ Ranges(gmtime(secs))
  BY <1>2, BrokenIsDated
<1>4. QED
  BY <1>2, <1>3

LEMMA MeantIsTime ==
    ASSUME NEW z0, Zone(z0), NEW w, Meant(w, z0)
    PROVE  /\ Local(w) \in Nat /\ Local(w) <= LastTime /\ Broken(gmtime(Local(w)), Local(w))
           /\ Dated(gmtime(Local(w)), Local(w)) /\ Ranges(gmtime(Local(w)))
<1>0. PICK c, z : c = w.clock /\ z = w.west
  OBVIOUS
<1>1. c = w.clock /\ z = w.west /\ z \in {0, z0} /\ Known(c, z0)
  BY <1>0 DEF Meant
<1>2. Reference(c) - z * 60 \in Nat /\ Reference(c) - z * 60 <= LastTime
  BY <1>1, LocalIsTime
<1>3. PICK l \in Nat : l = Local(w) /\ l <= LastTime
  BY <1>1, <1>2 DEF Local
<1>4. QED
  BY <1>3, TimesBreak


\* A text of asctime() or strftime() fits in its room.
FitsAs(r, w, fmt) ==
    LET tm == gmtime(Local(w))
    IN  IF fmt = None
        THEN LET c == Conversion("c", tm)
             IN  /\ r.chars[25] = Sign("newline") /\ r.chars[26] = Null
                 /\ \A i \in 1..24 : \/ r.chars[i] = c[i]
                                    \/ (i = 9 /\ c[i] = Digit(0) /\ r.chars[i] = Sign("blank"))
        ELSE LET whole == Expanded(fmt, tm)
             IN  IF Len(whole) < r.maxs THEN r.ret = Len(whole) /\ r.chars = whole
                 ELSE r.ret = 0 /\ IsStrictPrefix(r.chars, whole)

LEMMA AsctimeFits ==
    ASSUME NEW w, Ranges(gmtime(Local(w))), NEW r, Made(r, w, None)
    PROVE  FitsAs(r, w, None) /\ Len(r.chars) < r.maxs
<1>1. PICK tm : tm = gmtime(Local(w))
  OBVIOUS
<1>2. PICK a, x : a = asctime(tm) /\ x = Conversion("c", tm)
  OBVIOUS
<1>3. Matches(a, x) /\ Len(a) = 27
  BY <1>1, <1>2, AsctimeMatches
<1>4. r = [chars |-> a, ret |-> 25, maxs |-> 28]
  BY <1>1, <1>2 DEF Made
<1>5. r.chars = a /\ r.maxs = 28
  BY <1>4
<1>6. FitsAs(r, w, None)
  BY <1>1, <1>2, <1>3, <1>5, Zenon DEF FitsAs, Matches
<1>7. Len(r.chars) < r.maxs
  <2>1. Len(r.chars) = 27 /\ r.maxs = 28
    BY <1>3, <1>5
  <2>2. QED
    BY <2>1
<1>8. QED
  BY <1>6, <1>7, Zenon

LEMMA StrftimeFits ==
    ASSUME NEW w, Ranges(gmtime(Local(w))), NEW r, NEW f \in Formats,
           r = strftime(f.fmt, f.maxs, gmtime(Local(w)))
    PROVE  FitsAs(r, w, f.fmt) /\ Len(r.chars) < r.maxs
<1>1. PICK tm : tm = gmtime(Local(w))
  OBVIOUS
<1>2. PICK fmt, maxs : fmt = f.fmt /\ maxs = f.maxs
  OBVIOUS
<1>3. maxs \in Nat \ {0} /\ fmt \in Seq(STRING) /\ fmt # None
  BY <1>2, CalendarAssumption
<1>4. PICK x : x = Expanded(fmt, tm)
  OBVIOUS
<1>5. x \in Seq(Glyph)
  BY <1>1, <1>3, <1>4, ExpandedIsText
<1>6. r = Stored(x, maxs)
  BY <1>1, <1>2, <1>4 DEF strftime
<1>7. /\ r.maxs = maxs /\ Len(r.chars) < maxs
      /\ IF Len(x) < maxs THEN r.ret = Len(x) /\ r.chars = x
         ELSE r.ret = 0 /\ IsStrictPrefix(r.chars, x)
  BY <1>3, <1>5, <1>6, StoredFacts
<1>8. FitsAs(r, w, fmt)
  BY <1>1, <1>3, <1>4, <1>7, Zenon DEF FitsAs
<1>9. QED
  BY <1>2, <1>7, <1>8

LEMMA TextsFit ==
    ASSUME NEW w, Ranges(gmtime(Local(w))), NEW fmt, NEW r, Made(r, w, fmt)
    PROVE  FitsAs(r, w, fmt) /\ Len(r.chars) < r.maxs
<1>1. CASE fmt = None
  BY <1>1, AsctimeFits
<1>2. CASE fmt # None
  <2>1. PICK f \in Formats : fmt = f.fmt /\ r = strftime(f.fmt, f.maxs, gmtime(Local(w)))
    BY <1>2 DEF Made
  <2>2. FitsAs(r, w, f.fmt) /\ Len(r.chars) < r.maxs
    BY <2>1, StrftimeFits
  <2>3. QED
    BY <2>1, <2>2
<1>3. QED
  BY <1>1, <1>2

LEMMA MadeTells ==
    ASSUME NEW z, Zone(z), NEW w, Meant(w, z), NEW fmt, NEW r, Made(r, w, fmt)
    PROVE  Tells(r, [what |-> w, fmt |-> fmt], z)
<1>1. Ranges(gmtime(Local(w)))
  BY MeantIsTime
<1>2. Len(r.chars) < r.maxs
  BY <1>1, TextsFit
<1>3. QED
  BY <1>2 DEF Tells

\* A time that is broken down, here or in Greenwich.
LEMMA BrokenDown ==
    ASSUME NEW z, Zone(z), NEW x, NEW c, c # None, Timed(x, c, z), NEW west \in {0, z},
           NEW w, w = [clock |-> c, west |-> west]
    PROVE  Meant(w, z) /\ Shows(gmtime(x - west * 60), w, z)
<1>1. w.clock = c /\ w.west = west
  OBVIOUS
<1>2. Known(c, z) /\ x = Reference(c)
  BY DEF Timed
<1>3. Meant(w, z)
  BY <1>1, <1>2 DEF Meant
<1>4. Local(w) = x - west * 60
  BY <1>1, <1>2 DEF Local
<1>5. Ranges(gmtime(Local(w)))
  BY <1>3, MeantIsTime
<1>6. QED
  BY <1>3, <1>4, <1>5 DEF Shows

LEMMA LocaltimeIs ==
    ASSUME Zone(time_zone), NEW x PROVE localtime(x) = gmtime(x - time_zone * 60)
BY DEF localtime, Zone

\* mktime() puts together again what localtime() has broken down.
LEMMA PutTogether ==
    ASSUME Zone(time_zone), NEW tm, NEW w, w # None, Shows(tm, w, time_zone), w.west = time_zone
    PROVE  Timed(mktime(tm), w.clock, time_zone)
<1>1. Meant(w, time_zone) /\ tm = gmtime(Local(w))
  BY DEF Shows
<1>2. Local(w) \in Nat /\ Broken(gmtime(Local(w)), Local(w))
  BY <1>1, MeantIsTime
<1>3. PICK l \in Nat : l = Local(w)
  BY <1>2
<1>4. Broken(tm, l)
  BY <1>1, <1>2, <1>3
<1>5. time_zone \in Int
  BY DEF Zone
<1>6. mktime(tm) = l + time_zone * 60
  BY <1>4, <1>5, MktimeInverts
<1>7. PICK c : c = w.clock /\ Known(c, time_zone)
  BY <1>1 DEF Meant
<1>8. Reference(c) \in Nat
  BY <1>7, ReferenceIs DEF Known
<1>9. l = Reference(c) - time_zone * 60
  BY <1>3, <1>7 DEF Local
<1>10. l + time_zone * 60 = Reference(c)
  <2>1. PICK z \in Int, r \in Nat : z = time_zone * 60 /\ r = Reference(c)
    BY <1>5, <1>8
  <2>2. QED
    BY <1>9, <2>1
<1>11. QED
  BY <1>6, <1>7, <1>8, <1>10 DEF Timed


-----------------------------------------------------------------------------
(***************************************************************************)
(* The invariant is inductive.                                             *)
(***************************************************************************)
LEMMA StartsTrue == ASSUME InTime, Init PROVE CInv
<1>1. clock \in Clocks /\ time_zone \in Zones /\ t = 0 /\ tim = None /\ text = NoText
      /\ ticks = 0 /\ stamp = None /\ shown = None /\ told = None
  BY DEF Init
<1>2. Zone(time_zone)
  BY <1>1, CalendarAssumption DEF InTime, Zone
<1>3. clock \in Clock /\ IsReading(clock)
  BY <1>1, CalendarAssumption DEF InTime
<1>4. Reference(clock) <= LastTime - MaxTicks /\ Reference(clock) - time_zone * 60 <= LastTime - MaxTicks
  BY <1>1 DEF InTime
<1>5. Reference(clock) \in Nat
  BY <1>3, ReferenceIs
<1>6. Runs(clock, ticks, time_zone)
  <2>1. PICK r \in Nat, z \in Int, l \in Int, n \in Nat :
            r = Reference(clock) /\ z = time_zone * 60 /\ l = LastTime /\ n = MaxTicks
    BY <1>2, <1>5, CalendarAssumption DEF Zone, LastTime
  <2>2. r + (n - 0) <= l /\ r - z + (n - 0) <= l /\ 0 \in 0..n
    BY <1>4, <2>1
  <2>3. QED
    BY <1>1, <1>3, <2>1, <2>2 DEF Runs
<1>7. Timed(t, stamp, time_zone)
  BY <1>1 DEF Timed
<1>8. Shows(tim, shown, time_zone)
  BY <1>1 DEF Shows
<1>9. Tells(text, told, time_zone)
  BY <1>1 DEF Tells, NoText
<1>10. QED
  BY <1>2, <1>6, <1>7, <1>8, <1>9 DEF CInv

\* The clock's reading is a time, now and in the ticks that are left.
LEMMA ClockIsKnown ==
    ASSUME NEW c, NEW n, NEW z, Zone(z), Runs(c, n, z)
    PROVE  Known(c, z) /\ Timed(convtime(c), c, z)
<1>1. c \in Clock /\ IsReading(c)
  BY DEF Runs
<1>2. Reference(c) \in Nat /\ convtime(c) = Reference(c)
  BY <1>1, ReferenceIs
<1>3. PICK r \in Nat, y \in Int, l \in Int, k \in Nat :
          r = Reference(c) /\ y = z * 60 /\ l = LastTime /\ k = MaxTicks - n
  BY <1>2, CalendarAssumption DEF Zone, LastTime, Runs
<1>4. r + k <= l /\ r - y + k <= l
  BY <1>3 DEF Runs
<1>5. r <= l /\ r - y <= l
  BY <1>4
<1>6. Known(c, z)
  BY <1>1, <1>3, <1>5 DEF Known
<1>7. QED
  BY <1>2, <1>6 DEF Timed

LEMMA TickRuns == ASSUME Zone(time_zone), Runs(clock, ticks, time_zone), Tick
                  PROVE  Runs(clock', ticks', time_zone)
<1>1. clock \in Clock /\ IsReading(clock)
  BY DEF Runs
<1>2. clock' \in Clock /\ IsReading(clock') /\ Reference(clock') = Reference(clock) + 1
  BY <1>1, TickIsASecond
<1>3. ticks \in 0..MaxTicks /\ ticks < MaxTicks /\ ticks' = ticks + 1
  BY DEF Tick, Runs
<1>4. Reference(clock) \in Nat
  BY <1>1, ReferenceIs
<1>5. PICK r \in Nat, y \in Int, l \in Int, n \in Nat, m \in Nat :
          r = Reference(clock) /\ y = time_zone * 60 /\ l = LastTime /\ n = ticks /\ m = MaxTicks
  BY <1>3, <1>4, CalendarAssumption DEF Zone, LastTime
<1>6. r + (m - n) <= l /\ r - y + (m - n) <= l
  BY <1>5 DEF Runs
<1>7. /\ n < m /\ n + 1 \in 0..m
      /\ (r + 1) + (m - (n + 1)) <= l /\ (r + 1) - y + (m - (n + 1)) <= l
  BY <1>3, <1>5, <1>6
<1>8. QED
  BY <1>2, <1>3, <1>5, <1>7 DEF Runs

LEMMA StaysTrue == CInv /\ [Next]_vars => CInv'
<1> SUFFICES ASSUME CInv, [Next]_vars PROVE CInv'
  OBVIOUS
<1>1. /\ Zone(time_zone) /\ Runs(clock, ticks, time_zone) /\ Timed(t, stamp, time_zone)
      /\ Shows(tim, shown, time_zone) /\ Tells(text, told, time_zone)
  BY DEF CInv
<1>2. CASE Tick
  <2>1. Runs(clock', ticks', time_zone)
    BY <1>1, <1>2, TickRuns
  <2>2. UNCHANGED <<time_zone, t, tim, text, stamp, shown, told>>
    BY <1>2 DEF Tick
  <2>3. QED
    BY <1>1, <2>1, <2>2 DEF CInv
<1>3. CASE time
  <2>1. Timed(t', stamp', time_zone)
    BY <1>1, <1>3, ClockIsKnown DEF time
  <2>2. UNCHANGED <<clock, time_zone, tim, text, ticks, shown, told>>
    BY <1>3 DEF time
  <2>3. QED
    BY <1>1, <2>1, <2>2 DEF CInv
<1>4. CASE Gmtime
  <2>1. stamp # None /\ tim' = gmtime(t) /\ shown' = [clock |-> stamp, west |-> 0]
    BY <1>4 DEF Gmtime
  <2>2. t - 0 * 60 = t
    BY <1>1 DEF Timed
  <2>3. Shows(gmtime(t - 0 * 60), shown', time_zone)
    BY <1>1, <2>1, BrokenDown
  <2>4. Shows(tim', shown', time_zone)
    BY <2>1, <2>2, <2>3
  <2>5. UNCHANGED <<clock, time_zone, t, text, ticks, stamp, told>>
    BY <1>4 DEF Gmtime
  <2>6. QED
    BY <1>1, <2>4, <2>5 DEF CInv
<1>5. CASE Localtime
  <2>1. stamp # None /\ tim' = localtime(t) /\ shown' = [clock |-> stamp, west |-> time_zone]
    BY <1>5 DEF Localtime
  <2>2. tim' = gmtime(t - time_zone * 60)
    BY <1>1, <2>1, LocaltimeIs
  <2>3. Shows(tim', shown', time_zone)
    BY <1>1, <2>1, <2>2, BrokenDown
  <2>4. UNCHANGED <<clock, time_zone, t, text, ticks, stamp, told>>
    BY <1>5 DEF Localtime
  <2>5. QED
    BY <1>1, <2>3, <2>4 DEF CInv
<1>6. CASE Mktime
  <2>1. shown # None /\ shown.west = time_zone /\ t' = mktime(tim) /\ stamp' = shown.clock
    BY <1>6 DEF Mktime
  <2>2. Timed(t', stamp', time_zone)
    BY <1>1, <2>1, PutTogether
  <2>3. UNCHANGED <<clock, time_zone, tim, text, ticks, shown, told>>
    BY <1>6 DEF Mktime
  <2>4. QED
    BY <1>1, <2>2, <2>3 DEF CInv
<1>7. CASE Asctime
  <2>1. /\ shown # None /\ told' = [what |-> shown, fmt |-> None]
        /\ text' = [chars |-> asctime(tim), ret |-> 25, maxs |-> 28]
    BY <1>7 DEF Asctime, Told
  <2>2. Meant(shown, time_zone) /\ tim = gmtime(Local(shown))
    BY <1>1, <2>1 DEF Shows
  <2>3. Made(text', shown, None)
    BY <2>1, <2>2 DEF Made
  <2>4. Tells(text', told', time_zone)
    BY <1>1, <2>1, <2>2, <2>3, MadeTells
  <2>5. UNCHANGED <<clock, time_zone, t, tim, ticks, stamp, shown>>
    BY <1>7 DEF Asctime
  <2>6. QED
    BY <1>1, <2>4, <2>5 DEF CInv
<1>8. CASE Ctime
  <2>1. /\ stamp # None /\ tim' = localtime(t) /\ shown' = [clock |-> stamp, west |-> time_zone]
        /\ told' = [what |-> shown', fmt |-> None]
        /\ text' = [chars |-> asctime(tim'), ret |-> 25, maxs |-> 28]
    BY <1>8 DEF Ctime, Told
  <2>2. tim' = gmtime(t - time_zone * 60)
    BY <1>1, <2>1, LocaltimeIs
  <2>3. PICK w : w = [clock |-> stamp, west |-> time_zone]
    OBVIOUS
  <2>4. Meant(w, time_zone) /\ Shows(tim', w, time_zone)
    BY <1>1, <2>1, <2>2, <2>3, BrokenDown
  <2>5. tim' = gmtime(Local(w))
    <3>1. w.clock = stamp /\ w.west = time_zone
      BY <2>3
    <3>2. t = Reference(stamp)
      BY <1>1, <2>1 DEF Timed
    <3>3. QED
      BY <2>2, <3>1, <3>2 DEF Local
  <2>6. Made(text', w, None)
    BY <2>1, <2>5 DEF Made
  <2>7. Tells(text', told', time_zone)
    BY <1>1, <2>1, <2>3, <2>4, <2>6, MadeTells
  <2>8. UNCHANGED <<clock, time_zone, t, ticks, stamp>>
    BY <1>8 DEF Ctime
  <2>9. Shows(tim', shown', time_zone)
    BY <2>1, <2>3, <2>4
  <2>10. QED
    BY <1>1, <2>7, <2>8, <2>9 DEF CInv
<1>9. CASE Strftime
  <2>1. PICK f \in Formats : /\ text' = strftime(f.fmt, f.maxs, tim)
                             /\ told' = [what |-> shown, fmt |-> f.fmt]
    BY <1>9 DEF Strftime
  <2>2. shown # None
    BY <1>9 DEF Strftime
  <2>3. Meant(shown, time_zone) /\ tim = gmtime(Local(shown))
    BY <1>1, <2>2 DEF Shows
  <2>4. f.fmt # None
    BY CalendarAssumption
  <2>5. Made(text', shown, f.fmt)
    BY <2>1, <2>3, <2>4 DEF Made
  <2>6. Tells(text', told', time_zone)
    BY <1>1, <2>1, <2>3, <2>5, MadeTells
  <2>7. UNCHANGED <<clock, time_zone, t, tim, ticks, stamp, shown>>
    BY <1>9 DEF Strftime
  <2>8. QED
    BY <1>1, <2>6, <2>7 DEF CInv
<1>10. CASE UNCHANGED vars
  BY <1>1, <1>10 DEF vars, CInv
<1>11. QED
  BY <1>2, <1>3, <1>4, <1>5, <1>6, <1>7, <1>8, <1>9, <1>10 DEF Next


-----------------------------------------------------------------------------
(***************************************************************************)
(* What the invariant says of the times and the texts.                     *)
(***************************************************************************)
LEMMA ShownIs ==
    ASSUME CInv, shown # None
    PROVE  /\ tim = gmtime(Local(shown)) /\ Local(shown) \in Nat
           /\ Broken(tim, Local(shown)) /\ Dated(tim, Local(shown))
<1>1. Zone(time_zone) /\ Meant(shown, time_zone) /\ tim = gmtime(Local(shown))
  BY DEF CInv, Shows
<1>2. QED
  BY <1>1, MeantIsTime

LEMMA ToldIs ==
    ASSUME CInv, told # None
    PROVE  /\ FitsAs(text, told.what, told.fmt)
           /\ Dated(gmtime(Local(told.what)), Local(told.what)) /\ Ranges(gmtime(Local(told.what)))
<1>1. Zone(time_zone) /\ Meant(told.what, time_zone) /\ Made(text, told.what, told.fmt)
  BY DEF CInv, Tells
<1>2. PICK w, fmt : w = told.what /\ fmt = told.fmt
  OBVIOUS
<1>3. Meant(w, time_zone) /\ Made(text, w, fmt)
  BY <1>1, <1>2
<1>4. Ranges(gmtime(Local(w))) /\ Dated(gmtime(Local(w)), Local(w))
  BY <1>1, <1>3, MeantIsTime
<1>5. FitsAs(text, w, fmt)
  BY <1>3, <1>4, TextsFit
<1>6. QED
  BY <1>2, <1>4, <1>5

LEMMA InvTypes == CInv => TypeOK
<1> SUFFICES ASSUME CInv PROVE TypeOK
  OBVIOUS
<1>1. clock \in Clock /\ t \in Nat /\ Len(text.chars) < text.maxs
  BY DEF CInv, Runs, Timed, Tells
<1>2. tim # None => Ranges(tim)
  BY DEF CInv, Shows
<1>3. QED
  BY <1>1, <1>2 DEF TypeOK, Ranges

LEMMA InvKeeps == CInv => TimeKept
BY DEF CInv, Timed, TimeKept

LEMMA InvFits == CInv => Fits
<1> SUFFICES ASSUME CInv, told # None PROVE FitsAs(text, told.what, told.fmt)
  BY Zenon DEF Fits, FitsAs
<1>1. QED
  BY ToldIs

LEMMA InvWeeks == CInv => WeeksCount
<1> SUFFICES ASSUME CInv, shown # None, NEW first \in {0, 1},
                    (DayNumber(tim.year + 1900, 1, 1) + 1) % 7 # first
             PROVE  Week(tim, first) = WeeksBegun(tim, first)
  BY DEF WeeksCount
<1>1. PICK y, m, d : y = tim.year + 1900 /\ m = tim.mon + 1 /\ d = tim.mday
  OBVIOUS
<1>2. Dated(tim, Local(shown)) /\ Ranges(tim)
  BY ShownIs, BrokenIsDated
<1>3. PICK j \in Int, t1 \in Int : j = DayNumber(y, 1, 1) /\ t1 = DayNumber(y, m, d)
  <2>1. y \in Int /\ m \in Int /\ d \in Int
    BY <1>1, <1>2 DEF Ranges
  <2>2. DayNumber(y, 1, 1) \in Int /\ DayNumber(y, m, d) \in Int
    BY <2>1, SMT DEF DayNumber
  <2>3. QED
    BY <2>2
<1>4. tim.yday \in Nat /\ t1 = j + tim.yday /\ tim.wday = (t1 + 1) % 7
  <2>1. tim.yday \in Nat
    BY <1>2 DEF Ranges
  <2>2. tim.wday = (t1 + 1) % 7 /\ tim.yday = t1 - j
    BY <1>1, <1>2, <1>3 DEF Dated
  <2>3. QED
    BY <1>3, <2>1, <2>2
<1>5. Week(tim, first) = Cardinality(FirstDays(j, j + tim.yday, first))
  BY <1>1, <1>3, <1>4, WeeksAre
<1>6. QED
  BY <1>1, <1>3, <1>4, <1>5 DEF WeeksBegun

\* The numbers of a text that is read back.
ReadAs(x, secs) ==
    LET digit(i) == x[i][2]
        two(i)   == 10 * digit(i) + digit(i + 1)
    IN  IsTime(100 * two(1) + two(3), two(5), two(7), two(9), two(11), two(13), secs)

LEMMA ReadAsIs ==
    ASSUME NEW x, NEW secs, NEW y, NEW mo, NEW d, NEW h, NEW mi, NEW s,
           ReadsBack(x, y, mo, d, h, mi, s), IsTime(y, mo, d, h, mi, s, secs)
    PROVE  ReadAs(x, secs)
<1>1. 1 + 1 = 2 /\ 3 + 1 = 4 /\ 5 + 1 = 6 /\ 7 + 1 = 8 /\ 9 + 1 = 10 /\ 11 + 1 = 12 /\ 13 + 1 = 14
  OBVIOUS
<1>2. QED
  BY <1>1, Zenon DEF ReadsBack, ReadAs

LEMMA DatedReads ==
    ASSUME NEW tm, Ranges(tm), NEW secs, Dated(tm, secs)
    PROVE  ReadAs(Expanded(ISO, tm), secs)
<1>1. PICK y, mo, d, h, mi, s : IsoNumbers(tm, y, mo, d, h, mi, s)
  BY DEF IsoNumbers
<1>2. PICK x : x = Expanded(ISO, tm)
  OBVIOUS
<1>3. ReadsBack(x, y, mo, d, h, mi, s)
  BY <1>1, <1>2, IsoReads
<1>4. IsTime(y, mo, d, h, mi, s, secs)
  <2>1. IsTime(tm.year + 1900, tm.mon + 1, tm.mday, tm.hour, tm.min, tm.sec, secs)
    BY DEF Dated
  <2>2. /\ tm.year + 1900 = y /\ tm.mon + 1 = mo /\ tm.mday = d
        /\ tm.hour = h /\ tm.min = mi /\ tm.sec = s
    BY <1>1 DEF IsoNumbers
  <2>3. QED
    BY <2>1, <2>2
<1>5. QED
  BY <1>2, <1>3, <1>4, ReadAsIs

LEMMA InvTells == CInv => MomentTold
<1> SUFFICES ASSUME CInv PROVE MomentTold
  OBVIOUS
<1>1. shown # None => Dated(tim, Local(shown))
  BY ShownIs
<1>2. ASSUME told # None, text.ret # 0, told.fmt = ISO PROVE ReadAs(text.chars, Local(told.what))
  <2>1. PICK tm : tm = gmtime(Local(told.what))
    OBVIOUS
  <2>2. FitsAs(text, told.what, ISO) /\ Dated(tm, Local(told.what)) /\ Ranges(tm)
    BY <1>2, <2>1, ToldIs
  <2>3. PICK whole : whole = Expanded(ISO, tm)
    OBVIOUS
  <2>4. IF Len(whole) < text.maxs THEN text.ret = Len(whole) /\ text.chars = whole
        ELSE text.ret = 0 /\ IsStrictPrefix(text.chars, whole)
    BY <2>1, <2>2, <2>3, NoneIsNoFormat, Zenon DEF FitsAs
  <2>5. text.chars = whole
    BY <1>2, <2>4, Zenon
  <2>6. QED
    BY <2>2, <2>3, <2>5, DatedReads
<1>3. told # None /\ text.ret # 0 /\ told.fmt = ISO => ReadAs(text.chars, Local(told.what))
  BY <1>2
<1>4. QED
  BY <1>1, <1>3 DEF MomentTold, Dated, ReadAs

-----------------------------------------------------------------------------
(***************************************************************************)
(* The theorems.  InTime is what they suppose of the clock and the zone.   *)
(***************************************************************************)
LEMMA Always == InTime => (Spec => []CInv)
<1> SUFFICES ASSUME InTime PROVE Spec => []CInv
  OBVIOUS
<1>1. Init => CInv
  BY StartsTrue
<1>2. QED
  BY <1>1, StaysTrue, PTL DEF Spec

\* The clock, the time_t, the broken-down time and the text are what they can
\* be, and a text leaves room for its null (ctime.c, strftime.c).
THEOREM Typing == ASSUME InTime PROVE Spec => []TypeOK
<1>1. Spec => []CInv
  BY Always
<1>2. QED
  BY <1>1, InvTypes, PTL

\* The time_t of a program is the moment that the clock told, also after it has
\* been broken down and put together (convtime.c, ctime.c, mktime.c), for every
\* clock, zone and format, however long the program runs.
THEOREM TimeIsKept == ASSUME InTime PROVE Spec => []TimeKept
<1>1. Spec => []CInv
  BY Always
<1>2. QED
  BY <1>1, InvKeeps, PTL

\* The broken-down time is the Gregorian date and time of its moment, and the
\* numbers of strftime()'s text read back as that moment (ctime.c, strftime.c).
THEOREM MomentIsTold == ASSUME InTime PROVE Spec => []MomentTold
<1>1. Spec => []CInv
  BY Always
<1>2. QED
  BY <1>1, InvTells, PTL

\* strftime() keeps to its room and returns the length of what it stored, and
\* asctime()'s text is %c's (strftime.c, ctime.c).
THEOREM TextFits == ASSUME InTime PROVE Spec => []Fits
<1>1. Spec => []CInv
  BY Always
<1>2. QED
  BY <1>1, InvFits, PTL

\* %U and %W are the number of Sundays and Mondays of the year so far, in every
\* year that does not begin on that very day (strftime.c).
THEOREM WeeksAreCounted == ASSUME InTime PROVE Spec => []WeeksCount
<1>1. Spec => []CInv
  BY Always
<1>2. QED
  BY <1>1, InvWeeks, PTL
=============================================================================
