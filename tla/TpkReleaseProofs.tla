--------------------------- MODULE TpkReleaseProofs ----------------------------
(***************************************************************************)
(* Proofs about the publisher's tools: the time a channel carries, for     *)
(* every day since 1970; what is read from a container that was accepted,  *)
(* and what it holds; and that what the builder writes is accepted.        *)
(***************************************************************************)
EXTENDS TpkRelease, SelectionProofs, FiniteSetTheorems

-----------------------------------------------------------------------------
(***************************************************************************)
(* The calendar.  Civil counts years from March, in eras of 400; the       *)
(* comparison adds up months and leap years.                               *)
(***************************************************************************)
YearOf(doe) == (doe - doe \div 1460 + doe \div 36524 - doe \div 146096) \div 365
DayOf(doe) == doe - (365 * YearOf(doe) + YearOf(doe) \div 4 - YearOf(doe) \div 100)
MonthOf(doy) == (5 * doy + 2) \div 153
\* The days of a year from March before a month.
DaysTo(mp) == (153 * mp + 2) \div 5

\* The leap years up to a year, from the year 1.
Leaps(year) == year \div 4 - year \div 100 + year \div 400

LEMMA YearIs ==
    ASSUME NEW doe \in Int, 0 <= doe, doe <= 146096
    PROVE  /\ YearOf(doe) \in Int /\ 0 <= YearOf(doe) /\ YearOf(doe) <= 399
           /\ DayOf(doe) \in Int /\ 0 <= DayOf(doe) /\ DayOf(doe) <= 365
           /\ DayOf(doe) = 365 => IsLeap(YearOf(doe) + 1)
<1>1. YearOf(doe) \in Int /\ 0 <= YearOf(doe) /\ YearOf(doe) <= 399
    BY DEF YearOf
<1>2. DayOf(doe) \in Int /\ 0 <= DayOf(doe) /\ DayOf(doe) <= 365
    BY DEF YearOf, DayOf
<1>3. DayOf(doe) = 365 => IsLeap(YearOf(doe) + 1)
    BY SMTT(60) DEF YearOf, DayOf, IsLeap
<1>. QED  BY <1>1, <1>2, <1>3

LEMMA MonthIs ==
    ASSUME NEW doy \in Int, 0 <= doy, doy <= 365
    PROVE  LET mp == MonthOf(doy)
           IN  /\ mp \in Int /\ 0 <= mp /\ mp <= 11
               /\ DaysTo(mp) \in Int /\ DaysTo(mp) <= doy
               /\ mp < 11 => doy < DaysTo(mp + 1)
               /\ mp = 11 => doy - DaysTo(mp) <= 28
BY DEF MonthOf, DaysTo

LEMMA LeapStep ==
    ASSUME NEW year \in Int
    PROVE  Leaps(year) \in Int /\ Leaps(year) = Leaps(year - 1) + (IF IsLeap(year) THEN 1 ELSE 0)
<1>. DEFINE q(k) == (year - 1) \div k
<1>1. /\ year \div 4 = q(4) + (IF year % 4 = 0 THEN 1 ELSE 0)
      /\ year \div 100 = q(100) + (IF year % 100 = 0 THEN 1 ELSE 0)
      /\ year \div 400 = q(400) + (IF year % 400 = 0 THEN 1 ELSE 0)
    OBVIOUS
<1>2. q(4) \in Int /\ q(100) \in Int /\ q(400) \in Int
    OBVIOUS
<1>3. (year % 400 = 0 => year % 100 = 0) /\ (year % 100 = 0 => year % 4 = 0)
    OBVIOUS
<1>4. /\ Leaps(year) = year \div 4 - year \div 100 + year \div 400
      /\ Leaps(year - 1) = q(4) - q(100) + q(400)
    BY DEF Leaps
<1>5. Leaps(year) \in Int
    BY DEF Leaps
<1>. HIDE DEF q
<1>6. CASE year % 4 = 0 /\ year % 100 # 0 /\ year % 400 # 0
    BY <1>1, <1>2, <1>4, <1>5, <1>6 DEF IsLeap
<1>7. CASE year % 4 = 0 /\ year % 100 = 0 /\ year % 400 # 0
    BY <1>1, <1>2, <1>4, <1>5, <1>7 DEF IsLeap
<1>8. CASE year % 4 = 0 /\ year % 100 = 0 /\ year % 400 = 0
    BY <1>1, <1>2, <1>4, <1>5, <1>8 DEF IsLeap
<1>9. CASE year % 4 # 0
    BY <1>1, <1>2, <1>3, <1>4, <1>5, <1>9 DEF IsLeap
<1>. QED  BY <1>3, <1>6, <1>7, <1>8, <1>9

\* The days before each month, from March.
LEMMA DaysToIs == ASSUME NEW mp \in Int PROVE DaysTo(mp) \in Int
BY DEF DaysTo

\* The leap years since 1970 are as many as Leaps has them.
LEMMA LeapsCounted ==
    ASSUME NEW year \in Int, year >= 1970
    PROVE  Cardinality(LeapYearsBefore(year)) = Leaps(year - 1) - 477
<1>. DEFINE Right(n) == /\ IsFiniteSet(LeapYearsBefore(n))
                        /\ Cardinality(LeapYearsBefore(n)) = Leaps(n - 1) - 477
            T == {n \in Nat : Right(1970 + n)}
<1>1. 0 \in T
    <2>1. LeapYearsBefore(1970) = {}
        BY DEF LeapYearsBefore
    <2>2. Leaps(1969) = 477
        BY DEF Leaps
    <2>. QED  BY <2>1, <2>2, FS_EmptySet
<1>2. ASSUME NEW n \in Int, n >= 1970, Right(n) PROVE Right(n + 1)
    <2>1. LeapYearsBefore(n + 1) =
            IF IsLeap(n) THEN LeapYearsBefore(n) \cup {n} ELSE LeapYearsBefore(n)
        <3>1. 1970 .. (n + 1) - 1 = (1970 .. n - 1) \cup {n}
            BY <1>2
        <3>. QED  BY <3>1 DEF LeapYearsBefore
    <2>2. n \notin LeapYearsBefore(n)
        BY <1>2 DEF LeapYearsBefore
    <2>3. Leaps((n + 1) - 1) = IF IsLeap(n) THEN Leaps(n - 1) + 1 ELSE Leaps(n - 1)
        <3>1. (n + 1) - 1 = n
            BY <1>2
        <3>2. n - 1 \in Int
            BY <1>2
        <3>. QED  BY <1>2, <3>1, <3>2, LeapStep
    <2>4. Leaps(n - 1) \in Int
        BY <1>2 DEF Leaps
    <2>5. CASE IsLeap(n)
        <3>1. /\ IsFiniteSet(LeapYearsBefore(n) \cup {n})
              /\ Cardinality(LeapYearsBefore(n) \cup {n}) = Cardinality(LeapYearsBefore(n)) + 1
            BY <1>2, <2>2, FS_AddElement
        <3>2. Leaps((n + 1) - 1) = Leaps(n - 1) + 1 /\ LeapYearsBefore(n + 1) = LeapYearsBefore(n) \cup {n}
            BY <2>1, <2>3, <2>5
        <3>3. Cardinality(LeapYearsBefore(n + 1)) = Leaps(n - 1) - 477 + 1
            BY <1>2, <3>1, <3>2
        <3>4. Cardinality(LeapYearsBefore(n + 1)) = Leaps((n + 1) - 1) - 477
            <4>1. Leaps((n + 1) - 1) - 477 = Leaps(n - 1) - 477 + 1
                BY <2>4, <3>2
            <4>. QED  BY <3>3, <4>1
        <3>5. IsFiniteSet(LeapYearsBefore(n + 1))
            BY <3>1, <3>2
        <3>. QED  BY <3>4, <3>5
    <2>6. CASE ~IsLeap(n)
        BY <1>2, <2>1, <2>3, <2>4, <2>6
    <2>. QED  BY <2>5, <2>6
<1>3. year - 1970 \in Nat /\ 1970 + (year - 1970) = year
    OBVIOUS
<1>4. ASSUME NEW n \in 0 .. year - 1970, n \in T, n < year - 1970 PROVE n + 1 \in T
    <2>1. 1970 + n \in Int /\ 1970 + n >= 1970 /\ (1970 + n) + 1 = 1970 + (n + 1) /\ n + 1 \in Nat
        BY <1>3
    <2>. HIDE DEF Right
    <2>. QED  BY <1>2, <1>4, <2>1
<1>5. year - 1970 \in T
    <2>1. year - 1970 \in 0 .. year - 1970
        BY <1>3
    <2>. HIDE DEF T
    <2>. QED  BY <1>1, <1>3, <1>4, <2>1, UpTo
<1>. QED  BY <1>3, <1>5

\* Where the months of a year start.
Starts(year, m) ==
    IF m = 1 THEN 0 ELSE IF m = 2 THEN 31
    ELSE 59 + (IF IsLeap(year) THEN 1 ELSE 0) + DaysTo(m - 3)

LEMMA StartsStep ==
    ASSUME NEW year, NEW m \in Int, 2 <= m, m <= 12
    PROVE  Starts(year, m) = Starts(year, m - 1) + MonthLength(year, m - 1)
<1>1. m \in {2, 3, 4, 5, 6, 7, 8, 9, 10, 11, 12}
    OBVIOUS
<1>. QED  BY <1>1 DEF Starts, MonthLength, DaysTo

LEMMA MonthStartsAre ==
    ASSUME NEW year, NEW month \in 1 .. 12
    PROVE  MonthStarts(year)[month] = Starts(year, month)
<1>. DEFINE Step(f) == [m \in 1 .. 12 |-> IF m = 1 THEN 0
                                          ELSE f[m - 1] + MonthLength(year, m - 1)]
            F == [m \in 1 .. 12 |-> Starts(year, m)]
            M == MonthStarts(year)
            T == {n \in Nat : M[n + 1] = Starts(year, n + 1)}
<1>1. F = Step(F)
    <2>1. ASSUME NEW m \in 1 .. 12 PROVE F[m] = Step(F)[m]
        <3>1. CASE m = 1
            BY <3>1 DEF Starts
        <3>2. CASE m # 1
            <4>1. 2 <= m /\ m <= 12 /\ m \in Int /\ m - 1 \in 1 .. 12
                BY <3>2
            <4>2. Starts(year, m) = Starts(year, m - 1) + MonthLength(year, m - 1)
                BY <4>1, StartsStep
            <4>. QED  BY <3>2, <4>1, <4>2
        <3>. QED  BY <3>1, <3>2
    <2>. HIDE DEF Starts
    <2>. QED  BY <2>1
<1>2. M = Step(M)
    <2>. HIDE DEF F
    <2>. QED  BY <1>1 DEF MonthStarts
<1>3. 0 \in T
    BY <1>2 DEF Starts
<1>4. ASSUME NEW n \in 0 .. 11, n \in T, n < 11 PROVE n + 1 \in T
    <2>. HIDE DEF M
    <2>1. /\ n + 2 \in 1 .. 12 /\ n + 2 # 1 /\ 2 <= n + 2 /\ n + 2 <= 12
          /\ (n + 2) - 1 = n + 1 /\ (n + 1) + 1 = n + 2 /\ n + 2 \in Int
        BY <1>4
    <2>2. M[n + 2] = M[n + 1] + MonthLength(year, n + 1)
        <3>1. Step(M)[n + 2] = M[(n + 2) - 1] + MonthLength(year, (n + 2) - 1)
            BY <2>1
        <3>. HIDE DEF Step
        <3>. QED  BY <1>2, <2>1, <3>1
    <2>3. Starts(year, n + 2) = Starts(year, n + 1) + MonthLength(year, n + 1)
        BY <2>1, StartsStep
    <2>. QED  BY <1>4, <2>1, <2>2, <2>3
<1>5. \A n \in 0 .. 11 : n \in T
    <2>. HIDE DEF T
    <2>. QED  BY <1>3, <1>4, UpTo
<1>6. month - 1 \in 0 .. 11 /\ (month - 1) + 1 = month
    OBVIOUS
<1>. HIDE DEF M
<1>. QED  BY <1>5, <1>6 DEF M

\* Days as Civil takes them apart: eras, years from March, days of a year.
TakenApart(z) ==
    LET doe == z % 146097
        year == YearOf(doe) + 400 * (z \div 146097)
    IN  /\ year \in Int /\ Leaps(year) \in Int /\ DayOf(doe) \in Int
        /\ 0 <= DayOf(doe) /\ DayOf(doe) <= 365
        /\ z = 365 * year + Leaps(year) + DayOf(doe)
        /\ DayOf(doe) = 365 => IsLeap(year + 1)

LEMMA DaysApart == ASSUME NEW z \in Int PROVE TakenApart(z)
<1>. DEFINE era == z \div 146097
            doe == z % 146097
            yoe == YearOf(doe)
            doy == DayOf(doe)
            year == yoe + 400 * era
            quarters == yoe \div 4
            centuries == yoe \div 100
<1>1. era \in Int /\ doe \in Int /\ 0 <= doe /\ doe <= 146096 /\ z = 146097 * era + doe
    OBVIOUS
<1>. HIDE DEF era, doe
<1>2. /\ yoe \in Int /\ 0 <= yoe /\ yoe <= 399
      /\ doy \in Int /\ 0 <= doy /\ doy <= 365
      /\ doy = 365 => IsLeap(yoe + 1)
    BY <1>1, YearIs
<1>3. doe = 365 * yoe + quarters - centuries + doy /\ quarters \in Int /\ centuries \in Int
    <2>1. doy = doe - (365 * yoe + quarters - centuries)
        BY DEF DayOf
    <2>. HIDE DEF doy, yoe
    <2>2. quarters \in Int /\ centuries \in Int
        BY <1>2
    <2>. HIDE DEF quarters, centuries
    <2>. QED  BY <1>1, <1>2, <2>1, <2>2
<1>. HIDE DEF yoe, doy
<1>4. /\ year \div 4 = quarters + 100 * era
      /\ year \div 100 = centuries + 4 * era
      /\ year \div 400 = era
    BY <1>1, <1>2
<1>5. Leaps(year) = quarters - centuries + 97 * era
    <2>1. Leaps(year) = year \div 4 - year \div 100 + year \div 400
        BY DEF Leaps
    <2>. HIDE DEF year, quarters, centuries
    <2>. QED  BY <1>1, <1>3, <1>4, <2>1
<1>6. (year + 1) % 4 = (yoe + 1) % 4 /\ (year + 1) % 100 = (yoe + 1) % 100
      /\ (year + 1) % 400 = (yoe + 1) % 400
    BY <1>1, <1>2
<1>7. IsLeap(yoe + 1) => IsLeap(year + 1)
    BY <1>6 DEF IsLeap
<1>8. year \in Int /\ Leaps(year) \in Int
    <2>1. year \in Int
        BY <1>1, <1>2
    <2>. QED  BY <2>1, LeapStep
<1>9. z = 365 * year + Leaps(year) + doy
    <2>. HIDE DEF quarters, centuries
    <2>. QED  BY <1>1, <1>2, <1>3, <1>5
<1>. QED  BY <1>2, <1>7, <1>8, <1>9 DEF TakenApart, era, doe, yoe, doy

\* The date that Civil finds is a day of the calendar, and the right one.
LEMMA CivilIs ==
    ASSUME NEW days \in Nat
    PROVE  LET date == Civil(days)
           IN  /\ date.year \in Int /\ date.month \in 1 .. 12
               /\ date.day \in 1 .. MonthLength(date.year, date.month)
               /\ days = DaysBefore(date.year, date.month) + date.day - 1
<1>. DEFINE z == days + 719468
            doe == z % 146097
            year == YearOf(doe) + 400 * (z \div 146097)
            doy == DayOf(doe)
            mp == MonthOf(doy)
            date == Civil(days)
            d == doy - DaysTo(mp)
<1>1. date = [year  |-> year + (IF (IF mp < 10 THEN mp + 3 ELSE mp - 9) <= 2 THEN 1 ELSE 0),
              month |-> IF mp < 10 THEN mp + 3 ELSE mp - 9,
              day   |-> doy - DaysTo(mp) + 1]
    BY DEF Civil, YearOf, DayOf, MonthOf, DaysTo
<1>2. /\ z \in Int /\ z >= 719468 /\ z = days + 719468
      /\ year \in Int /\ Leaps(year) \in Int /\ doy \in Int
      /\ 0 <= doy /\ doy <= 365
      /\ z = 365 * year + Leaps(year) + doy
      /\ doy = 365 => IsLeap(year + 1)
    <2>1. z \in Int /\ z >= 719468 /\ z = days + 719468
        OBVIOUS
    <2>. HIDE DEF z
    <2>2. /\ year \in Int /\ Leaps(year) \in Int /\ doy \in Int
          /\ 0 <= doy /\ doy <= 365
          /\ z = 365 * year + Leaps(year) + doy
          /\ doy = 365 => IsLeap(year + 1)
        <3>1. TakenApart(z)
            BY <2>1, DaysApart
        <3>. QED  BY <3>1 DEF TakenApart
    <2>. HIDE DEF doe, year, doy
    <2>. QED  BY <2>1, <2>2
<1>. HIDE DEF z, doe, year, doy
<1>3. /\ mp \in Int /\ 0 <= mp /\ mp <= 11
      /\ DaysTo(mp) \in Int /\ DaysTo(mp) <= doy
      /\ mp < 11 => doy < DaysTo(mp + 1)
      /\ mp = 11 => doy - DaysTo(mp) <= 28
    BY <1>2, MonthIs
<1>. HIDE DEF mp, date
<1>4. year >= 1969 /\ (year = 1969 => doy >= 306)
    <2>1. Leaps(year) = year \div 4 - year \div 100 + year \div 400
        BY DEF Leaps
    <2>2. year <= 1968 => Leaps(year) <= 477
        BY <1>2, <2>1
    <2>3. year = 1969 => Leaps(year) = 477
        BY <2>1
    <2>. HIDE DEF Leaps
    <2>. QED  BY <1>2, <2>2, <2>3
<1>5. CASE mp < 10
    <2>. DEFINE m == mp + 3
                leap == IF IsLeap(year) THEN 1 ELSE 0
    <2>1. /\ date = [year |-> year, month |-> m, day |-> d + 1]
          /\ m \in 1 .. 12 /\ m \in Int /\ m # 1 /\ m # 2 /\ m - 3 = mp
        <3>1. year + 0 = year /\ m > 2
            BY <1>2, <1>3
        <3>. QED  BY <1>1, <1>2, <1>3, <1>5, <3>1
    <2>2. year >= 1970
        <3>1. DaysTo(mp + 1) <= 306
            BY <1>3, <1>5 DEF DaysTo
        <3>. HIDE DEF DaysTo
        <3>. QED  BY <1>2, <1>3, <1>4, <1>5, <3>1, DaysToIs
    <2>3. DaysBefore(year, m) = 365 * (year - 1970) + (Leaps(year - 1) - 477) + (59 + leap + DaysTo(mp))
        <3>1. MonthStarts(year)[m] = 59 + leap + DaysTo(mp)
            BY <2>1, MonthStartsAre DEF Starts
        <3>. HIDE DEF leap
        <3>. QED  BY <1>2, <2>2, <3>1, LeapsCounted DEF DaysBefore
    <2>4. Leaps(year) = Leaps(year - 1) + leap /\ leap \in Int /\ Leaps(year - 1) \in Int
        <3>1. year - 1 \in Int
            BY <1>2
        <3>. QED  BY <1>2, <3>1, LeapStep
    <2>. HIDE DEF leap
    <2>5. days = DaysBefore(year, m) + (d + 1) - 1
        BY <1>2, <1>3, <2>3, <2>4
    <2>6. d + 1 \in 1 .. MonthLength(year, m)
        <3>1. 0 <= d /\ d \in Int /\ d < DaysTo(mp + 1) - DaysTo(mp) /\ DaysTo(mp + 1) \in Int
            BY <1>2, <1>3, <1>5, DaysToIs
        <3>2. DaysTo(mp + 1) - DaysTo(mp) = MonthLength(year, m)
            <4>1. mp \in {0, 1, 2, 3, 4, 5, 6, 7, 8, 9}
                BY <1>3, <1>5
            <4>. QED  BY <4>1 DEF DaysTo, MonthLength
        <3>3. MonthLength(year, m) \in Int
            BY DEF MonthLength
        <3>. HIDE DEF m, d
        <3>. QED  BY <3>1, <3>2, <3>3
    <2>. QED  BY <1>2, <2>1, <2>5, <2>6 DEF date
<1>6. CASE mp >= 10
    <2>. DEFINE m == mp - 9
    <2>1. /\ date = [year |-> year + 1, month |-> m, day |-> d + 1]
          /\ m \in 1 .. 12 /\ m \in {1, 2}
        <3>1. m <= 2 /\ ~(mp < 10)
            BY <1>3, <1>6
        <3>. QED  BY <1>1, <1>3, <1>6, <3>1
    <2>2. DaysTo(mp) = 306 + 31 * (m - 1) /\ MonthStarts(year + 1)[m] = 31 * (m - 1)
        <3>1. mp \in {10, 11}
            BY <1>3, <1>6
        <3>2. MonthStarts(year + 1)[m] = Starts(year + 1, m)
            BY <2>1, MonthStartsAre
        <3>. QED  BY <3>1, <3>2 DEF DaysTo, Starts
    <2>3. DaysBefore(year + 1, m) = 365 * (year + 1 - 1970) + (Leaps(year) - 477) + 31 * (m - 1)
        <3>1. year + 1 \in Int /\ year + 1 >= 1970 /\ (year + 1) - 1 = year
            BY <1>2, <1>4
        <3>2. Cardinality(LeapYearsBefore(year + 1)) = Leaps(year) - 477
            BY <3>1, LeapsCounted
        <3>3. MonthStarts(year + 1)[m] = 31 * (m - 1) /\ m \in Int
            BY <2>1, <2>2
        <3>. HIDE DEF m
        <3>. QED  BY <1>2, <3>2, <3>3 DEF DaysBefore
    <2>4. days = DaysBefore(year + 1, m) + (d + 1) - 1
        <3>1. m \in Int
            BY <2>1
        <3>. HIDE DEF m
        <3>. QED  BY <1>2, <1>3, <2>2, <2>3, <3>1
    <2>5. d + 1 \in 1 .. MonthLength(year + 1, m)
        <3>1. mp \in {10, 11} /\ 0 <= d /\ d \in Int
            BY <1>2, <1>3, <1>6
        <3>2. CASE mp = 10
            <4>1. d < 31
                BY <1>2, <1>3, <3>1, <3>2 DEF DaysTo
            <4>2. MonthLength(year + 1, m) = 31
                BY <3>2 DEF MonthLength
            <4>. HIDE DEF d
            <4>. QED  BY <3>1, <4>1, <4>2
        <3>3. CASE mp = 11
            <4>1. d <= 28 /\ (d = 28 => doy = 365)
                BY <1>2, <1>3, <3>1, <3>3 DEF DaysTo
            <4>2. MonthLength(year + 1, m) = IF IsLeap(year + 1) THEN 29 ELSE 28
                BY <3>3 DEF MonthLength
            <4>. HIDE DEF d
            <4>. QED  BY <1>2, <3>1, <4>1, <4>2
        <3>. QED  BY <3>1, <3>2, <3>3
    <2>. QED  BY <1>2, <2>1, <2>4, <2>5 DEF date
<1>. QED  BY <1>3, <1>5, <1>6

\* The digits of a watermark.
LEMMA DigitsAre ==
    ASSUME NEW month \in Int, NEW day \in Int, NEW hour \in Int, NEW minute \in Int, NEW rest \in Int,
           0 <= day, day <= 99, 0 <= hour, hour <= 99, 0 <= minute, minute <= 99,
           rest = 1000000 * month + 10000 * day + 100 * hour + minute
    PROVE  /\ rest \div 1000000 = month /\ (rest % 1000000) \div 10000 = day
           /\ (rest % 10000) \div 100 = hour /\ rest % 100 = minute
<1>1. rest \div 1000000 = month /\ rest % 1000000 = 10000 * day + 100 * hour + minute
    BY SMT
<1>2. rest % 10000 = 100 * hour + minute /\ rest % 100 = minute
    BY SMT
<1>3. /\ (10000 * day + 100 * hour + minute) \div 10000 = day
      /\ (100 * hour + minute) \div 100 = hour
    BY SMT
<1>. QED  BY <1>1, <1>2, <1>3

\* The hour and the minute of a second of the day.
LEMMA MinuteIs ==
    ASSUME NEW second \in Int, 0 <= second, second <= 86399
    PROVE  LET hour == second \div 3600
               minute == (second % 3600) \div 60
           IN  /\ hour \in Int /\ 0 <= hour /\ hour <= 23
               /\ minute \in Int /\ 0 <= minute /\ minute < 60
               /\ second \div 60 = 60 * hour + minute
BY SMT

\* A watermark gives its date and its minute back.
LEMMA StampIs ==
    ASSUME NEW time, time.day \in Nat, time.second \in Nat, time.second < 86400
    PROVE  Names(Timestamp(Watermark(time)), time)
<1>. DEFINE date == Civil(time.day)
            stamp == Timestamp(Watermark(time))
<1>1. /\ date.year \in Int /\ date.month \in 1 .. 12
      /\ date.day \in 1 .. MonthLength(date.year, date.month)
      /\ time.day = DaysBefore(date.year, date.month) + date.day - 1
    BY CivilIs
<1>2. PICK second \in Int : second = time.second /\ 0 <= second /\ second <= 86399
    OBVIOUS
<1>3. PICK month \in Int, day \in Int, year \in Int :
            date.month = month /\ date.day = day /\ date.year = year
    BY <1>1
<1>4. PICK hour \in Int, minute \in Int :
            /\ hour = second \div 3600 /\ minute = (second % 3600) \div 60
            /\ 0 <= hour /\ hour <= 23 /\ 0 <= minute /\ minute < 60
            /\ second \div 60 = 60 * hour + minute
    BY <1>2, MinuteIs
<1>5. 0 <= day /\ day <= 99
    BY <1>1, <1>3 DEF MonthLength
<1>6. PICK rest \in Int : rest = 1000000 * month + 10000 * day + 100 * hour + minute
    BY SMT
<1>. HIDE DEF date
<1>7. stamp = [year |-> year, month |-> rest \div 1000000, day |-> (rest % 1000000) \div 10000,
               hour |-> (rest % 10000) \div 100, minute |-> rest % 100]
    <2>1. Watermark(time) = [year |-> year, rest |-> rest]
        BY <1>2, <1>3, <1>4, <1>6 DEF Watermark, date
    <2>. QED  BY <2>1 DEF Timestamp
<1>8. stamp = [year |-> year, month |-> month, day |-> day, hour |-> hour, minute |-> minute]
    <2>1. /\ rest \div 1000000 = month /\ (rest % 1000000) \div 10000 = day
          /\ (rest % 10000) \div 100 = hour /\ rest % 100 = minute
        BY <1>4, <1>5, <1>6, DigitsAre
    <2>. QED  BY <1>7, <2>1
<1>. QED  BY <1>1, <1>2, <1>3, <1>4, <1>8 DEF Names

(***************************************************************************)
(* The time a channel says it was published at is the minute it was, on    *)
(* every day since 1970.  It is property PublishedWhenItWas.               *)
(***************************************************************************)
ChannelStamped ==
    channel # None =>
        /\ channel.at \in Times
        /\ channel.signed.published_at = Timestamp(Watermark(channel.at))

THEOREM AlwaysPublishedWhenItWas == ReleaseSpec => []PublishedWhenItWas
<1>1. ReleaseInit => ChannelStamped
    BY DEF ReleaseInit, ChannelStamped
<1>2. ChannelStamped /\ [ReleaseNext]_releaseVars => ChannelStamped'
    <2>. SUFFICES ASSUME ChannelStamped, [ReleaseNext]_releaseVars PROVE ChannelStamped'
        OBVIOUS
    <2>1. CASE Publish
        <3>. DEFINE Packs(files, rollout) ==
                        Gated([i \in DOMAIN files |-> Advertised(shelf[files[i]])], rollout)
                    Signed(files, rollout, epoch, time) ==
                        [packs |-> Packs(files, rollout), key_epoch |-> epoch,
                         min_shell |-> HighestMinShell(Packs(files, rollout)),
                         watermark |-> Watermark(time),
                         published_at |-> Timestamp(Watermark(time))]
        <3>1. \E files, rollout, epoch : \E time \in Times :
                channel' = [signed |-> Signed(files, rollout, epoch, time), at |-> time]
            BY <2>1, Zenon DEF Publish
        <3>2. PICK files, rollout, epoch, time :
                /\ time \in Times
                /\ channel' = [signed |-> Signed(files, rollout, epoch, time), at |-> time]
            BY <3>1
        <3>3. /\ channel'.at = time
              /\ channel'.signed.published_at = Timestamp(Watermark(time))
            BY <3>2
        <3>. QED  BY <3>2, <3>3 DEF ChannelStamped
    <2>2. CASE UNCHANGED channel
        BY <2>2 DEF ChannelStamped
    <2>3. Publish \/ UNCHANGED channel
        BY Zenon DEF ReleaseNext, releaseVars, StartPack, AddFull, AddDelta,
               AddDelete, Insert, Build, Deliver, Discard
    <2>. QED  BY <2>1, <2>2, <2>3
<1>3. ChannelStamped => PublishedWhenItWas
    <2>1. \A t \in Times : t.day \in Nat /\ t.second \in Nat /\ t.second < 86400
        BY ReleaseAssumption
    <2>. QED  BY <2>1, StampIs DEF ChannelStamped, PublishedWhenItWas
<1>. QED  BY <1>1, <1>2, <1>3, PTL DEF ReleaseSpec

-----------------------------------------------------------------------------
(***************************************************************************)
(* Reading.                                                                *)
(***************************************************************************)
IsList(s) == s \in Seq(Range(s))

LEMMA ListIs ==
    ASSUME NEW n \in Nat, NEW s, s = [i \in 1 .. n |-> s[i]]
    PROVE  IsList(s) /\ Len(s) = n /\ DOMAIN s = 1 .. n
<1>1. s \in [1 .. n -> Range(s)]
    BY DEF Range
<1>. QED  BY <1>1 DEF IsList

LEMMA ListFacts ==
    ASSUME NEW s, IsList(s)
    PROVE  /\ Len(s) \in Nat /\ DOMAIN s = 1 .. Len(s)
           /\ s = [i \in 1 .. Len(s) |-> s[i]]
           /\ \A i \in DOMAIN s : i \in Nat /\ s[i] \in Range(s)
BY DEF IsList, Range

\* A sound directory gives each name to one member.
LEMMA ArchiveIs ==
    ASSUME NEW file, IsList(file.members), Sound(file)
    PROVE  LET archive == Archive(file.members)
           IN  /\ DOMAIN archive = {m.name : m \in Range(file.members)}
               /\ \A m \in Range(file.members) : archive[m.name] = m.bytes
<1>. DEFINE ms == file.members
            named(name) == {i \in DOMAIN ms : ms[i].alias = name}
<1>1. /\ \A i \in DOMAIN ms : i \in Nat /\ ms[i].alias = ms[i].name
      /\ \A i, j \in DOMAIN ms : ms[i].name = ms[j].name => i = j
    BY ListFacts DEF Sound
<1>2. {ms[i].alias : i \in DOMAIN ms} = {m.name : m \in Range(ms)}
    BY <1>1 DEF Range
<1>3. ASSUME NEW i \in DOMAIN ms PROVE Max(named(ms[i].name)) = i
    <2>1. named(ms[i].name) = {i}
        BY <1>1
    <2>2. i >= i
        BY <1>1
    <2>. HIDE DEF named, ms
    <2>. QED  BY <2>1, <2>2 DEF Max
<1>4. Archive(ms) = [name \in {ms[i].alias : i \in DOMAIN ms} |-> ms[Max(named(name))].bytes]
    BY DEF Archive
<1>5. ASSUME NEW m \in Range(ms) PROVE Archive(ms)[m.name] = m.bytes
    <2>1. PICK i \in DOMAIN ms : m = ms[i]
        BY DEF Range
    <2>2. m.name \in {ms[j].alias : j \in DOMAIN ms}
        BY <1>1, <2>1
    <2>. HIDE DEF named, ms
    <2>3. Archive(ms)[m.name] = ms[Max(named(m.name))].bytes
        BY <1>4, <2>2
    <2>. QED  BY <1>3, <2>1, <2>3
<1>. QED  BY <1>2, <1>4, <1>5

\* What an accepted file holds.
LEMMA AcceptedHolds ==
    ASSUME NEW file, IsList(file.members), Accepted(file)
    PROVE  /\ file.exact /\ ~file.comment
           /\ {m.name : m \in Range(file.members)} =
                  {ManifestName, SignatureName} \cup Referenced(ArchiveOf(file)[ManifestName])
           /\ \A m \in Range(file.members) : ArchiveOf(file)[m.name] = m.bytes
<1>. DEFINE archive == ArchiveOf(file)
            names == {m.name : m \in Range(file.members)}
<1>1. /\ Sound(file) /\ Parsed(file) # <<>> /\ ManifestName \in DOMAIN archive
      /\ SignatureName \in DOMAIN archive
      /\ {name \in DOMAIN archive : IsBlob(name)} = Referenced(archive[ManifestName])
    BY DEF Accepted, Verifies, Opens, HoldsExactly, ArchiveOf
<1>2. Parsed(file) = file.members
    BY <1>1 DEF Parsed
<1>3. DOMAIN archive = names /\ \A m \in Range(file.members) : archive[m.name] = m.bytes
    BY <1>1, <1>2, ArchiveIs DEF ArchiveOf
<1>. HIDE DEF archive
<1>4. \A name \in names : Allowed(name)
    BY <1>1 DEF Sound, Range
<1>5. names = {ManifestName, SignatureName} \cup Referenced(archive[ManifestName])
    BY <1>1, <1>3, <1>4 DEF Allowed
<1>6. file.exact /\ ~file.comment
    BY <1>1 DEF Sound
<1>. QED  BY <1>3, <1>5, <1>6 DEF archive

(***************************************************************************)
(* Whatever happened to a file, what is read from it once its manifest     *)
(* verified is what the manifest's author named, or nothing: whatever the  *)
(* file is.  It is property ReadsAsSigned.                                 *)
(***************************************************************************)
THEOREM AlwaysReadsAsSigned == ReleaseSpec => []ReadsAsSigned
<1>1. ReadsAsSigned
    <2>. DEFINE archive == ArchiveOf(delivered)
                manifest == archive[ManifestName]
    <2>. SUFFICES ASSUME delivered # None, Accepted(delivered), NEW e \in WithContent(manifest)
                  PROVE  ReadBlob(archive, e) \in {Meant(e), Refused}
        BY DEF ReadsAsSigned
    <2>1. Valid(manifest)
        BY DEF Accepted, Verifies, ArchiveOf
    <2>. HIDE DEF archive
    <2>2. Shaped(e) /\ e.op # "delete"
        BY <2>1 DEF WithContent, Valid, EntriesValid
    <2>3. /\ e.op \in {"full", "delta"} /\ e.encoding \in Encodings
          /\ e.op = "delta" <=> e.encoding = "zstd+bsdiff"
        BY <2>2 DEF Shaped
    <2>. DEFINE raw == archive[e.blob]
    <2>4. CASE Length(raw) # e.blob_size \/ raw # e.blob_sha256
        BY <2>4 DEF ReadBlob
    <2>5. CASE Length(raw) = e.blob_size /\ raw = e.blob_sha256
        <3>1. CASE e.encoding = "identity"
            <4>1. ReadBlob(archive, e) = IF raw = e.sha256 THEN raw ELSE Refused
                BY <2>5, <3>1 DEF ReadBlob
            <4>. QED  BY <2>3, <3>1, <4>1 DEF Meant
        <3>2. CASE e.encoding = "zstd"
            <4>1. ReadBlob(archive, e) =
                    IF raw.codec = "zstd" /\ Plain(raw.of) = e.sha256
                    THEN Inflated(raw, e.size, Plain(raw.of)) ELSE Refused
                BY <2>5, <3>2 DEF ReadBlob
            <4>. QED  BY <2>3, <3>2, <4>1 DEF Meant, Inflated
        <3>3. CASE e.encoding = "zstd+bsdiff"
            <4>1. ReadBlob(archive, e) = Inflated(raw, MaxPatchLen(e.blob_size), raw)
                BY <2>5, <3>3 DEF ReadBlob
            <4>. QED  BY <2>3, <2>5, <3>3, <4>1 DEF Meant, Inflated
        <3>. QED  BY <2>3, <3>1, <3>2, <3>3 DEF Encodings
    <2>. QED  BY <2>4, <2>5
<1>. QED  BY <1>1, PTL

-----------------------------------------------------------------------------
(***************************************************************************)
(* Writing.                                                                *)
(***************************************************************************)
LEMMA IntervalSize ==
    ASSUME NEW n \in Nat
    PROVE  IsFiniteSet(1 .. n) /\ Cardinality(1 .. n) = n
<1>1. IsFiniteSet(1 .. n) /\ Cardinality(1 .. n) = IF 1 > n THEN 0 ELSE n - 1 + 1
    BY FS_Interval
<1>. QED  BY <1>1

\* A finite set as a list.
LEMMA SetToSeqIs ==
    ASSUME NEW S, IsFiniteSet(S)
    PROVE  LET list == SetToSeq(S)
           IN  /\ Cardinality(S) \in Nat /\ list \in [1 .. Cardinality(S) -> S]
               /\ \A a, b \in DOMAIN list : list[a] = list[b] => a = b
               /\ \A x \in S : \E i \in DOMAIN list : list[i] = x
<1>. DEFINE n == Cardinality(S)
            list == SetToSeq(S)
<1>1. n \in Nat /\ IsFiniteSet(1 .. n) /\ Cardinality(1 .. n) = n
    <2>1. n \in Nat
        BY FS_CardinalityType
    <2>. HIDE DEF n
    <2>. QED  BY <2>1, IntervalSize
<1>2. \E f \in [1 .. n -> S] : IsInjective(f)
    <2>1. ExistsBijection(1 .. n, S)
        BY <1>1, FS_SameCardinalityBij
    <2>. QED  BY <2>1 DEF ExistsBijection, Bijection, Injection, IsInjective
<1>3. list \in [1 .. n -> S] /\ IsInjective(list)
    BY <1>2 DEF SetToSeq
<1>4. list \in Injection(1 .. n, S)
    BY <1>3 DEF Injection, IsInjective
<1>5. list \in Surjection(1 .. n, S)
    BY <1>1, <1>4, FS_Injection
<1>. QED  BY <1>1, <1>3, <1>5 DEF Surjection, IsInjective

\* The blobs of a manifest are no more than its entries.
LEMMA BlobsFinite ==
    ASSUME NEW manifest, IsList(manifest.entries)
    PROVE  IsFiniteSet(Blobs(manifest)) /\ Cardinality(Blobs(manifest)) <= Len(manifest.entries)
<1>. DEFINE es == manifest.entries
            places == {j \in DOMAIN es : es[j].op # "delete"}
            f == [i \in places |-> <<es[i].blob, es[i].blob_sha256>>]
<1>1. Len(es) \in Nat /\ DOMAIN es = 1 .. Len(es)
    BY ListFacts
<1>2. IsFiniteSet(1 .. Len(es)) /\ Cardinality(1 .. Len(es)) = Len(es)
    BY <1>1, IntervalSize
<1>3. IsFiniteSet(places) /\ Cardinality(places) <= Len(es)
    <2>1. places \in SUBSET (1 .. Len(es))
        BY <1>1
    <2>. HIDE DEF places
    <2>. QED  BY <1>2, <2>1, FS_Subset
<1>4. f \in Surjection(places, Blobs(manifest))
    <2>1. Blobs(manifest) = {f[i] : i \in places}
        BY DEF Blobs
    <2>. HIDE DEF f, places
    <2>2. f \in [places -> {f[i] : i \in places}]
        BY DEF f
    <2>. QED  BY <2>1, <2>2 DEF Surjection
<1>5. IsFiniteSet(Blobs(manifest)) /\ Cardinality(Blobs(manifest)) <= Cardinality(places)
    BY <1>3, <1>4, FS_Surjection
<1>6. Cardinality(Blobs(manifest)) \in Nat /\ Cardinality(places) \in Nat
    BY <1>3, <1>5, FS_CardinalityType
<1>. HIDE DEF es, places
<1>. QED  BY <1>1, <1>3, <1>5, <1>6 DEF es

\* What "build" writes: the manifest, its signature, and every blob once.
Packed(file, manifest, key) ==
    LET ms == file.members
        B == Blobs(manifest)
    IN  /\ IsList(ms) /\ Len(ms) \in Nat /\ DOMAIN ms = 1 .. Len(ms)
        /\ 2 <= Len(ms) /\ Len(ms) <= 2 + Len(manifest.entries)
        /\ file = [comment |-> FALSE, exact |-> TRUE, count |-> Len(ms), members |-> ms,
                   broken |-> FALSE, older |-> <<>>]
        /\ ms[1] = Member(ManifestName, manifest)
        /\ ms[2] = Member(SignatureName, Signature(key, manifest))
        /\ \A i \in 3 .. Len(ms) : \E b \in B : ms[i] = Member(b[1], b[2])
        /\ \A b \in B : \E i \in 3 .. Len(ms) : ms[i] = Member(b[1], b[2])
        /\ \A i, j \in 3 .. Len(ms) : \A b \in B :
              ms[i] = Member(b[1], b[2]) /\ ms[j] = Member(b[1], b[2])
                  /\ (\A c \in B : c[1] = b[1] => c = b) => i = j

LEMMA ContainerIs ==
    ASSUME NEW manifest, NEW key, IsList(manifest.entries)
    PROVE  Packed(Container(manifest, key), manifest, key)
<1>. DEFINE B == Blobs(manifest)
            n == Cardinality(B)
            list == SetToSeq(B)
            first == Member(ManifestName, manifest)
            second == Member(SignatureName, Signature(key, manifest))
            blobs == [i \in DOMAIN list |-> Member(list[i][1], list[i][2])]
            ms == <<first, second>> \o blobs
<1>1. /\ n \in Nat /\ n <= Len(manifest.entries) /\ list \in [1 .. n -> B]
      /\ \A a, b \in DOMAIN list : list[a] = list[b] => a = b
      /\ \A x \in B : \E i \in DOMAIN list : list[i] = x
    BY BlobsFinite, SetToSeqIs
<1>2. Container(manifest, key) =
        [comment |-> FALSE, exact |-> TRUE, count |-> Len(ms), members |-> ms,
         broken |-> FALSE, older |-> <<>>]
    BY DEF Container
<1>. HIDE DEF B, n, list, first, second
<1>3. IsList(blobs) /\ Len(blobs) = n /\ DOMAIN list = 1 .. n
    <2>1. DOMAIN list = 1 .. n
        BY <1>1
    <2>2. blobs = [i \in 1 .. n |-> blobs[i]]
        BY <2>1
    <2>. HIDE DEF blobs
    <2>. QED  BY <1>1, <2>1, <2>2, ListIs
<1>4. /\ IsList(ms) /\ Len(ms) = 2 + n /\ DOMAIN ms = 1 .. 2 + n
      /\ ms[1] = first /\ ms[2] = second
      /\ \A i \in 1 .. n : ms[i + 2] = blobs[i]
    <2>1. \A i \in 1 .. n : blobs[i] \in Range(blobs)
        BY <1>1, <1>3, ListFacts
    <2>. DEFINE X == {first, second} \cup Range(blobs)
    <2>2. blobs \in Seq(X) /\ <<first, second>> \in Seq(X)
        BY <1>3, ListFacts DEF IsList
    <2>. HIDE DEF blobs, X
    <2>3. ms \in Seq(X) /\ Len(ms) = 2 + n
        BY <1>1, <1>3, <2>2
    <2>4. \A i \in 1 .. n : ms[i + 2] = blobs[i]
        BY <1>1, <1>3, <2>2
    <2>5. ms[1] = first /\ ms[2] = second
        BY <2>2
    <2>6. 2 + n \in Nat /\ ms = [i \in 1 .. 2 + n |-> ms[i]]
        BY <1>1, <2>3
    <2>. HIDE DEF ms
    <2>. QED  BY <2>3, <2>4, <2>5, <2>6, ListIs
<1>5. ASSUME NEW i \in 3 .. 2 + n PROVE i - 2 \in 1 .. n /\ ms[i] = Member(list[i - 2][1], list[i - 2][2])
    <2>1. i - 2 \in 1 .. n /\ (i - 2) + 2 = i
        BY <1>1
    <2>2. ms[i] = blobs[i - 2]
        BY <1>4, <2>1
    <2>3. blobs[i - 2] = Member(list[i - 2][1], list[i - 2][2])
        BY <1>3, <2>1
    <2>. HIDE DEF ms, blobs
    <2>. QED  BY <2>1, <2>2, <2>3
<1>. HIDE DEF ms, blobs
<1>6. ASSUME NEW i \in 3 .. 2 + n PROVE \E b \in B : ms[i] = Member(b[1], b[2])
    BY <1>1, <1>3, <1>5
<1>7. ASSUME NEW b \in B PROVE \E i \in 3 .. 2 + n : ms[i] = Member(b[1], b[2])
    <2>1. PICK i \in 1 .. n : list[i] = b
        BY <1>1, <1>3
    <2>2. i + 2 \in 3 .. 2 + n /\ (i + 2) - 2 = i
        BY <1>1
    <2>. QED  BY <1>5, <2>1, <2>2
<1>8. ASSUME NEW i \in 3 .. 2 + n, NEW j \in 3 .. 2 + n, NEW b \in B,
             ms[i] = Member(b[1], b[2]), ms[j] = Member(b[1], b[2]),
             \A c \in B : c[1] = b[1] => c = b
      PROVE  i = j
    <2>1. list[i - 2] \in B /\ list[j - 2] \in B /\ i - 2 \in DOMAIN list /\ j - 2 \in DOMAIN list
        BY <1>1, <1>3, <1>5
    <2>2. \A x, y : Member(x[1], x[2]) = Member(y[1], y[2]) => x[1] = y[1]
        BY DEF Member
    <2>3. /\ Member(list[i - 2][1], list[i - 2][2]) = Member(b[1], b[2])
          /\ Member(list[j - 2][1], list[j - 2][2]) = Member(b[1], b[2])
        BY <1>5, <1>8
    <2>4. list[i - 2] = b /\ list[j - 2] = b
        BY <1>8, <2>1, <2>2, <2>3
    <2>5. i - 2 = j - 2
        BY <1>1, <2>1, <2>4
    <2>. QED  BY <1>1, <2>5
<1>9. Len(ms) \in Nat /\ 2 <= Len(ms) /\ Len(ms) <= 2 + Len(manifest.entries)
    <2>1. Len(manifest.entries) \in Nat
        BY ListFacts
    <2>. QED  BY <1>1, <1>4, <2>1
<1>10. Len(ms) = 2 + n /\ IsList(ms) /\ DOMAIN ms = 1 .. Len(ms) /\ ms[1] = first /\ ms[2] = second
    BY <1>4
<1>11. Container(manifest, key).members = ms
    BY <1>2
<1>12. \A i, j \in 3 .. Len(ms) : \A b \in B :
          ms[i] = Member(b[1], b[2]) /\ ms[j] = Member(b[1], b[2])
              /\ (\A c \in B : c[1] = b[1] => c = b) => i = j
    BY <1>8, <1>10
<1>13. /\ \A i \in 3 .. Len(ms) : \E b \in B : ms[i] = Member(b[1], b[2])
       /\ \A b \in B : \E i \in 3 .. Len(ms) : ms[i] = Member(b[1], b[2])
    BY <1>6, <1>7, <1>10
<1>. QED  BY <1>2, <1>9, <1>10, <1>11, <1>12, <1>13 DEF Packed, first, second, B

LEMMA AppendIs ==
    ASSUME NEW s, IsList(s), NEW x
    PROVE  IsList(Append(s, x)) /\ Range(Append(s, x)) = Range(s) \cup {x}
<1>. DEFINE t == Append(s, x)
<1>1. Len(s) \in Nat /\ DOMAIN s = 1 .. Len(s)
    BY ListFacts
<1>2. /\ t = [i \in 1 .. Len(s) + 1 |-> t[i]]
      /\ \A i \in DOMAIN s : t[i] = s[i]
      /\ t[Len(s) + 1] = x
    <2>. DEFINE X == Range(s) \cup {x}
    <2>1. s \in Seq(X) /\ x \in X
        BY ListFacts DEF IsList
    <2>. HIDE DEF X
    <2>2. t \in Seq(X) /\ Len(t) = Len(s) + 1
        BY <2>1
    <2>3. t = [i \in 1 .. Len(s) + 1 |-> t[i]]
        <3>. HIDE DEF t
        <3>. QED  BY <1>1, <2>2
    <2>4. (\A i \in DOMAIN s : t[i] = s[i]) /\ t[Len(s) + 1] = x
        BY <1>1, <2>1
    <2>. QED  BY <2>3, <2>4
<1>3. IsList(t) /\ DOMAIN t = 1 .. Len(s) + 1
    BY <1>1, <1>2, ListIs
<1>. HIDE DEF t
<1>4. \A i \in DOMAIN t : i \in DOMAIN s \/ i = Len(s) + 1
    BY <1>1, <1>3
<1>5. DOMAIN s \subseteq DOMAIN t /\ Len(s) + 1 \in DOMAIN t
    BY <1>1, <1>3
<1>6. Range(t) = Range(s) \cup {x}
    <2>1. Range(t) \subseteq Range(s) \cup {x}
        BY <1>2, <1>4 DEF Range
    <2>2. Range(s) \cup {x} \subseteq Range(t)
        BY <1>2, <1>5 DEF Range
    <2>. QED  BY <2>1, <2>2
<1>. QED  BY <1>3, <1>6 DEF t

LEMMA RemoveAtIs ==
    ASSUME NEW s, IsList(s), NEW i \in DOMAIN s
    PROVE  IsList(RemoveAt(s, i))
<1>. DEFINE X == Range(s)
            t == RemoveAt(s, i)
<1>1. s \in Seq(X) /\ i \in 1 .. Len(s) /\ Len(s) \in Nat
    BY ListFacts DEF IsList
<1>. HIDE DEF X
<1>2. SubSeq(s, 1, i - 1) \in Seq(X) /\ SubSeq(s, i + 1, Len(s)) \in Seq(X)
    BY <1>1
<1>3. t \in Seq(X)
    BY <1>2 DEF RemoveAt
<1>4. Len(t) \in Nat /\ t = [j \in 1 .. Len(t) |-> t[j]]
    BY <1>3
<1>. HIDE DEF t
<1>5. IsList(t)
    BY <1>4, ListIs
<1>. QED  BY <1>5 DEF t

\* Changing members leaves a list.
LEMMA SameDomain ==
    ASSUME NEW s, IsList(s), NEW t, t = [i \in DOMAIN s |-> t[i]]
    PROVE  IsList(t)
<1>1. Len(s) \in Nat /\ t = [i \in 1 .. Len(s) |-> t[i]]
    BY ListFacts
<1>. QED  BY <1>1, ListIs

-----------------------------------------------------------------------------
(***************************************************************************)
(* What is built, and what arrives.                                        *)
(***************************************************************************)
\* What PackBuilder puts in a manifest.
Entries ==
    {FullEntry(path, c) : path \in Range(PathOrder), c \in Contents}
        \cup {DeltaEntry(path, s[1], s[2]) : path \in Range(PathOrder), s \in Streams}
        \cup {Tombstone(path) : path \in Range(PathOrder)}

Built(file) ==
    LET manifest == ManifestOf(file)
    IN  /\ file = Container(manifest, PublisherKey)
        /\ Valid(manifest)
        /\ manifest.entries \in Seq(Entries)

DraftInv == draft # None => "entries" \in DOMAIN draft /\ draft.entries \in Seq(Entries)
ShelfInv == IsList(shelf) /\ \A file \in Range(shelf) : Built(file)
DeliveredInv == delivered # None => IsList(delivered.members)

LEMMA SeqIsList ==
    ASSUME NEW S, NEW s \in Seq(S)
    PROVE  IsList(s) /\ Len(s) \in Nat /\ DOMAIN s = 1 .. Len(s) /\ \A i \in DOMAIN s : s[i] \in S
<1>1. Len(s) \in Nat /\ s = [i \in 1 .. Len(s) |-> s[i]]
    OBVIOUS
<1>2. IsList(s) /\ DOMAIN s = 1 .. Len(s)
    BY <1>1, ListIs
<1>. QED  BY <1>1, <1>2

LEMMA PlacedIs ==
    ASSUME NEW S, NEW entries \in Seq(S), NEW entry \in S
    PROVE  Placed(entries, entry) \in Seq(S)
<1>. DEFINE before == {i \in DOMAIN entries : Position(entries[i].path) < Position(entry.path)}
            n == Cardinality(before)
<1>1. Len(entries) \in Nat /\ DOMAIN entries = 1 .. Len(entries)
    BY SeqIsList
<1>2. n \in Nat /\ n <= Len(entries)
    <2>1. IsFiniteSet(1 .. Len(entries)) /\ Cardinality(1 .. Len(entries)) = Len(entries)
        BY <1>1, IntervalSize
    <2>2. before \in SUBSET (1 .. Len(entries))
        BY <1>1
    <2>. HIDE DEF before
    <2>3. IsFiniteSet(before) /\ Cardinality(before) <= Cardinality(1 .. Len(entries))
        BY <2>1, <2>2, FS_Subset
    <2>4. Cardinality(before) \in Nat
        BY <2>3, FS_CardinalityType
    <2>. QED  BY <1>1, <2>1, <2>3, <2>4
<1>. DEFINE k == n + 1
<1>3. Placed(entries, entry) = SubSeq(entries, 1, k - 1) \o <<entry>> \o SubSeq(entries, k, Len(entries))
    BY DEF Placed, InsertAt
<1>. HIDE DEF n
<1>4. SubSeq(entries, 1, k - 1) \in Seq(S) /\ SubSeq(entries, k, Len(entries)) \in Seq(S)
    BY <1>1, <1>2
<1>5. <<entry>> \in Seq(S)
    OBVIOUS
<1>. QED  BY <1>3, <1>4, <1>5

LEMMA BuiltIs ==
    ASSUME NEW manifest, manifest.entries \in Seq(Entries), Valid(manifest)
    PROVE  Built(Container(manifest, PublisherKey))
<1>1. IsList(manifest.entries)
    BY SeqIsList
<1>2. Container(manifest, PublisherKey).members[1] = Member(ManifestName, manifest)
    BY <1>1, ContainerIs DEF Packed
<1>3. ManifestOf(Container(manifest, PublisherKey)) = manifest
    BY <1>2 DEF ManifestOf, Member
<1>. QED  BY <1>3 DEF Built

LEMMA DraftsAreBuilt ==
    DraftInv /\ ShelfInv /\ [ReleaseNext]_releaseVars => DraftInv' /\ ShelfInv'
<1>. SUFFICES ASSUME DraftInv, ShelfInv, [ReleaseNext]_releaseVars PROVE DraftInv' /\ ShelfInv'
    OBVIOUS
<1>1. CASE StartPack
    <2>1. \E d, parent : draft' =
            [kind |-> d.kind, id |-> d.id, version_code |-> d.version_code,
             min_shell |-> d.min_shell, max_shell |-> d.max_shell,
             created_at |-> d.created_at, parent |-> parent, entries |-> <<>>]
        BY <1>1, Zenon DEF StartPack
    <2>2. "entries" \in DOMAIN draft' /\ draft'.entries = <<>>
        BY <2>1
    <2>3. UNCHANGED shelf
        BY <1>1 DEF StartPack
    <2>. QED  BY <2>2, <2>3 DEF DraftInv, ShelfInv
<1>2. ASSUME NEW entry \in Entries, Insert(entry) PROVE DraftInv' /\ ShelfInv'
    <2>1. "entries" \in DOMAIN draft /\ draft.entries \in Seq(Entries) /\ UNCHANGED shelf
        BY <1>2 DEF Insert, DraftInv
    <2>2. Placed(draft.entries, entry) \in Seq(Entries)
        BY <2>1, PlacedIs
    <2>3. draft' = None \/ draft' = [draft EXCEPT !.entries = Placed(draft.entries, entry)]
        BY <1>2 DEF Insert
    <2>4. CASE draft' = None
        BY <2>1, <2>4 DEF DraftInv, ShelfInv
    <2>5. CASE draft' = [draft EXCEPT !.entries = Placed(draft.entries, entry)]
        <3>1. "entries" \in DOMAIN draft' /\ draft'.entries = Placed(draft.entries, entry)
            BY <2>1, <2>5
        <3>. QED  BY <2>1, <2>2, <3>1 DEF DraftInv, ShelfInv
    <2>. QED  BY <2>3, <2>4, <2>5
<1>3. CASE AddFull \/ AddDelta \/ AddDelete
    <2>1. CASE AddFull
        <3>1. PICK path \in Range(PathOrder), c \in Contents : Insert(FullEntry(path, c))
            BY <2>1 DEF AddFull
        <3>2. FullEntry(path, c) \in Entries
            BY DEF Entries
        <3>. QED  BY <1>2, <3>1, <3>2
    <2>2. CASE AddDelta
        <3>1. PICK path \in Range(PathOrder), s \in Streams : Insert(DeltaEntry(path, s[1], s[2]))
            BY <2>2 DEF AddDelta
        <3>2. DeltaEntry(path, s[1], s[2]) \in Entries
            BY DEF Entries
        <3>. QED  BY <1>2, <3>1, <3>2
    <2>3. CASE AddDelete
        <3>1. PICK path \in Range(PathOrder) : Insert(Tombstone(path))
            BY <2>3 DEF AddDelete
        <3>2. Tombstone(path) \in Entries
            BY DEF Entries
        <3>. QED  BY <1>2, <3>1, <3>2
    <2>. QED  BY <1>3, <2>1, <2>2, <2>3
<1>4. CASE Build
    <2>1. /\ draft # None /\ draft' = None
          /\ \/ Valid(Manifest(draft)) /\ shelf' = Append(shelf, Container(Manifest(draft), PublisherKey))
             \/ UNCHANGED shelf
        BY <1>4 DEF Build
    <2>2. Manifest(draft).entries \in Seq(Entries)
        BY <2>1 DEF Manifest, DraftInv
    <2>3. ASSUME Valid(Manifest(draft)),
                 shelf' = Append(shelf, Container(Manifest(draft), PublisherKey))
          PROVE  ShelfInv'
        <3>1. Built(Container(Manifest(draft), PublisherKey))
            BY <2>2, <2>3, BuiltIs
        <3>2. /\ IsList(shelf')
              /\ Range(shelf') = Range(shelf) \cup {Container(Manifest(draft), PublisherKey)}
            BY <2>3, AppendIs DEF ShelfInv
        <3>. QED  BY <3>1, <3>2, Zenon DEF ShelfInv
    <2>. QED  BY <2>1, <2>3 DEF DraftInv, ShelfInv
<1>5. CASE UNCHANGED <<draft, shelf>>
    BY <1>5 DEF DraftInv, ShelfInv
<1>6. \/ StartPack \/ (AddFull \/ AddDelta \/ AddDelete) \/ Build \/ UNCHANGED <<draft, shelf>>
    BY Zenon DEF ReleaseNext, releaseVars, Publish, Deliver, Discard
<1>. QED  BY <1>1, <1>3, <1>4, <1>5, <1>6

\* What is made of a built file still has a list of members.
LEMMA GivenHasMembers ==
    ASSUME ShelfInv, NEW file \in Range(shelf),
           NEW given \in {file} \cup OtherBytes(file) \cup OtherDirectory(file) \cup OtherManifest(file)
    PROVE  IsList(given.members)
<1>. DEFINE ms == file.members
<1>1. /\ IsList(ms) /\ DOMAIN ms = 1 .. Len(ms)
      /\ file = [comment |-> FALSE, exact |-> TRUE, count |-> Len(ms), members |-> ms,
                 broken |-> FALSE, older |-> <<>>]
    <2>1. IsList(ManifestOf(file).entries) /\ file = Container(ManifestOf(file), PublisherKey)
        BY SeqIsList DEF ShelfInv, Built
    <2>2. Packed(file, ManifestOf(file), PublisherKey)
        BY <2>1, ContainerIs
    <2>. QED  BY <2>2 DEF Packed
<1>. HIDE DEF ms
<1>. DEFINE Bytes(i, x) == [ms EXCEPT ![i].bytes = x]
            Both(x, y) == [ms EXCEPT ![1].bytes = x, ![2].bytes = y]
<1>2. \A t : WithMembers(file, t).members = t
    BY <1>1 DEF WithMembers
<1>3. /\ \A i, x : IsList(Bytes(i, x))
      /\ \A i, j : IsList(Swapped(ms, i, j))
      /\ \A x, y : IsList(Both(x, y))
    BY <1>1, SameDomain DEF Swapped
<1>4. CASE given \in OtherBytes(file)
    <2>. DEFINE A == {WithMembers(file, Bytes(i, b)) : i \in 3 .. Len(ms), b \in AllBlobs}
                B == {WithMembers(file, Append(ms, Member(ms[i].name, b))) : i \in 3 .. Len(ms), b \in AllBlobs}
                C == {WithMembers(file, Append(ms, Member(BlobName(b, "zstd"), b))) : b \in AllBlobs}
                D == {WithMembers(file, Append(ms, Member(OtherName, b))) : b \in AllBlobs}
    <2>1. OtherBytes(file) = A \cup B \cup C \cup D
        BY DEF OtherBytes, ms
    <2>2. ASSUME given \in A PROVE IsList(given.members)
        <3>. HIDE DEF Bytes
        <3>1. PICK i, b : given = WithMembers(file, Bytes(i, b))
            BY <2>2
        <3>2. given.members = Bytes(i, b)
            BY <1>2, <3>1
        <3>. QED  BY <1>3, <3>2
    <2>3. ASSUME given \in B \/ given \in C \/ given \in D PROVE IsList(given.members)
        <3>1. PICK x : given = WithMembers(file, Append(ms, x))
            BY <2>3
        <3>2. given.members = Append(ms, x)
            BY <1>2, <3>1
        <3>. QED  BY <1>1, <3>2, AppendIs
    <2>. HIDE DEF A, B, C, D
    <2>. QED  BY <1>4, <2>1, <2>2, <2>3
<1>5. CASE given \in OtherDirectory(file)
    <2>. DEFINE A == {[file EXCEPT !.comment = TRUE], [file EXCEPT !.exact = FALSE],
                      [file EXCEPT !.count = @ + 1]}
                B == {WithMembers(file, RemoveAt(ms, i)) : i \in DOMAIN ms}
                C == {WithMembers(file, Swapped(ms, i, j)) : i, j \in DOMAIN ms}
                D == {Prefixed(file, other) : other \in Range(shelf)}
    <2>1. OtherDirectory(file) = A \cup B \cup C \cup D
        BY DEF OtherDirectory, ms
    <2>2. ASSUME given \in A \/ given \in D PROVE IsList(given.members)
        BY <1>1, <2>2 DEF Prefixed
    <2>3. ASSUME given \in B PROVE IsList(given.members)
        <3>1. PICK i \in DOMAIN ms : given = WithMembers(file, RemoveAt(ms, i))
            BY <2>3
        <3>2. IsList(RemoveAt(ms, i))
            BY <1>1, RemoveAtIs
        <3>. QED  BY <1>2, <3>1, <3>2
    <2>4. ASSUME given \in C PROVE IsList(given.members)
        BY <1>2, <1>3, <2>4
    <2>. HIDE DEF A, B, C, D
    <2>. QED  BY <1>5, <2>1, <2>2, <2>3, <2>4
<1>6. CASE given \in OtherManifest(file)
    <2>1. \/ \E m, key : given = Resigned(file, m, key)
          \/ \E x : given = [file EXCEPT !.members[2].bytes = x]
        BY <1>6, Zenon DEF OtherManifest
    <2>2. \A m, key : Resigned(file, m, key).members = Both(m, Signature(key, m))
        BY <1>2 DEF Resigned, ms
    <2>3. \A x : [file EXCEPT !.members[2].bytes = x].members = Bytes(2, x)
        BY <1>1
    <2>4. CASE \E m, key : given = Resigned(file, m, key)
        <3>. HIDE DEF Both
        <3>. QED  BY <1>3, <2>2, <2>4
    <2>5. CASE \E x : given = [file EXCEPT !.members[2].bytes = x]
        <3>1. PICK x : given = [file EXCEPT !.members[2].bytes = x]
            BY <2>5
        <3>2. given.members = Bytes(2, x)
            BY <2>3, <3>1
        <3>. HIDE DEF Bytes
        <3>. QED  BY <1>3, <3>2
    <2>. QED  BY <2>1, <2>4, <2>5
<1>. QED  BY <1>1, <1>4, <1>5, <1>6 DEF ms

(***************************************************************************)
(* No member of an accepted container is one its manifest does not account *)
(* for, nothing follows or comments its end record, and what the zip crate *)
(* hands out is the directory that was checked,                            *)
(* whichever of the files a device may be given.  It is property           *)
(* NothingUnaccountedFor.                                                  *)
(***************************************************************************)
THEOREM AlwaysAccountedFor == ReleaseSpec => []NothingUnaccountedFor
<1>1. ReleaseInit => DraftInv /\ ShelfInv /\ DeliveredInv
    <2>. SUFFICES ASSUME ReleaseInit PROVE DraftInv /\ ShelfInv /\ DeliveredInv
        OBVIOUS
    <2>1. draft = None /\ delivered = None /\ shelf = <<>>
        BY DEF ReleaseInit
    <2>2. IsList(shelf) /\ Range(shelf) = {}
        BY <2>1 DEF IsList, Range
    <2>. QED  BY <2>1, <2>2 DEF DraftInv, ShelfInv, DeliveredInv
<1>2. DraftInv /\ ShelfInv /\ DeliveredInv /\ [ReleaseNext]_releaseVars
        => DraftInv' /\ ShelfInv' /\ DeliveredInv'
    <2>. SUFFICES ASSUME DraftInv, ShelfInv, DeliveredInv, [ReleaseNext]_releaseVars
                  PROVE  DraftInv' /\ ShelfInv' /\ DeliveredInv'
        OBVIOUS
    <2>1. DraftInv' /\ ShelfInv'
        BY DraftsAreBuilt
    <2>2. CASE Deliver
        <3>1. PICK file \in Range(shelf) :
                delivered' \in {file} \cup OtherBytes(file) \cup OtherDirectory(file) \cup OtherManifest(file)
            BY <2>2 DEF Deliver
        <3>2. IsList(delivered'.members)
            BY <3>1, GivenHasMembers
        <3>. QED  BY <2>1, <3>2 DEF DeliveredInv
    <2>3. CASE delivered' = None \/ UNCHANGED delivered
        BY <2>1, <2>3 DEF DeliveredInv
    <2>4. Deliver \/ delivered' = None \/ UNCHANGED delivered
        BY Zenon DEF ReleaseNext, releaseVars, StartPack, AddFull, AddDelta, AddDelete, Insert,
               Build, Publish, Discard
    <2>. QED  BY <2>2, <2>3, <2>4
<1>3. DeliveredInv => NothingUnaccountedFor
    <2>. SUFFICES ASSUME DeliveredInv, delivered # None, Accepted(delivered)
                  PROVE  /\ delivered.exact /\ ~delivered.comment
                         /\ {m.name : m \in Range(delivered.members)} =
                                {ManifestName, SignatureName}
                                    \cup Referenced(ArchiveOf(delivered)[ManifestName])
                         /\ \A m \in Range(delivered.members) : ArchiveOf(delivered)[m.name] = m.bytes
        BY DEF NothingUnaccountedFor
    <2>. QED  BY AcceptedHolds DEF DeliveredInv
<1>. QED  BY <1>1, <1>2, <1>3, PTL DEF ReleaseSpec

-----------------------------------------------------------------------------
(***************************************************************************)
(* Built packs are accepted.                                               *)
(***************************************************************************)
\* The blob of an entry is named after its bytes, as a blob.
LEMMA EntryIs ==
    ASSUME NEW e \in Entries, e.op # "delete", Shaped(e)
    PROVE  /\ e.path \in Range(PathOrder)
           /\ IsBlob(e.blob) /\ e.blob.stem = e.blob_sha256
           /\ e.blob_size = Length(e.blob_sha256)
<1>1. e.blob.stem = e.blob_sha256
    BY DEF Shaped
<1>2. ASSUME NEW path \in Range(PathOrder), NEW c \in Contents, e = FullEntry(path, c)
      PROVE  e.path = path /\ IsBlob(e.blob) /\ e.blob_size = Length(e.blob_sha256)
    <2>1. e.blob = BlobName(Encoded(c).bytes, Encoded(c).encoding)
        BY <1>2 DEF FullEntry, Described
    <2>2. Encoded(c).bytes \in AllBlobs /\ Encoded(c).encoding \in Encodings
        BY DEF Encoded, AllBlobs, Encodings
    <2>. QED  BY <1>2, <2>1, <2>2, ReleaseAssumption DEF FullEntry, Described
<1>3. ASSUME NEW path \in Range(PathOrder), NEW s \in Streams, e = DeltaEntry(path, s[1], s[2])
      PROVE  e.path = path /\ IsBlob(e.blob) /\ e.blob_size = Length(e.blob_sha256)
    <2>1. e.blob = BlobName(Patch(s[1], s[2]), "zstd+bsdiff")
        BY <1>3 DEF DeltaEntry, Described
    <2>2. Patch(s[1], s[2]) \in AllBlobs /\ "zstd+bsdiff" \in Encodings
        BY DEF AllBlobs, Encodings
    <2>. QED  BY <1>3, <2>1, <2>2, ReleaseAssumption DEF DeltaEntry, Described
<1>4. \/ \E path \in Range(PathOrder), c \in Contents : e = FullEntry(path, c)
      \/ \E path \in Range(PathOrder), s \in Streams : e = DeltaEntry(path, s[1], s[2])
    BY DEF Entries, Tombstone
<1>. QED  BY <1>1, <1>2, <1>3, <1>4

LEMMA BuiltIsAccepted ==
    ASSUME NEW file, Built(file), Fits(file)
    PROVE  /\ Accepted(file)
           /\ \A e \in WithContent(ManifestOf(file)) :
                ArchiveOf(file)[e.blob] = e.blob_sha256 /\ e \in Entries /\ Shaped(e) /\ e.op # "delete"
<1>. DEFINE manifest == ManifestOf(file)
            ms == file.members
            B == Blobs(manifest)
            signed == Signature(PublisherKey, manifest)
<1>1. Valid(manifest) /\ manifest.entries \in Seq(Entries) /\ file = Container(manifest, PublisherKey)
    BY DEF Built
<1>2. IsList(manifest.entries)
    BY <1>1, SeqIsList
<1>3. /\ IsList(ms) /\ Len(ms) \in Nat /\ DOMAIN ms = 1 .. Len(ms)
      /\ 2 <= Len(ms) /\ Len(ms) <= 2 + Len(manifest.entries)
      /\ file = [comment |-> FALSE, exact |-> TRUE, count |-> Len(ms), members |-> ms,
                 broken |-> FALSE, older |-> <<>>]
      /\ ms[1] = Member(ManifestName, manifest)
      /\ ms[2] = Member(SignatureName, signed)
      /\ \A i \in 3 .. Len(ms) : \E b \in B : ms[i] = Member(b[1], b[2])
      /\ \A b \in B : \E i \in 3 .. Len(ms) : ms[i] = Member(b[1], b[2])
      /\ \A i, j \in 3 .. Len(ms) : \A b \in B :
            ms[i] = Member(b[1], b[2]) /\ ms[j] = Member(b[1], b[2])
                /\ (\A c \in B : c[1] = b[1] => c = b) => i = j
    <2>. HIDE DEF manifest
    <2>1. Packed(file, manifest, PublisherKey)
        BY <1>1, <1>2, ContainerIs
    <2>. QED  BY <2>1 DEF Packed
<1>4. ASSUME NEW e \in WithContent(manifest)
      PROVE  /\ e \in Entries /\ Shaped(e) /\ e.op # "delete" /\ <<e.blob, e.blob_sha256>> \in B
             /\ IsBlob(e.blob) /\ e.blob.stem = e.blob_sha256
    <2>1. PICK i \in DOMAIN manifest.entries : e = manifest.entries[i] /\ e.op # "delete"
        BY DEF WithContent
    <2>2. e \in Entries
        BY <1>1, <2>1, SeqIsList
    <2>3. Shaped(e)
        BY <1>1, <2>1 DEF Valid, EntriesValid
    <2>4. <<e.blob, e.blob_sha256>> \in B
        BY <2>1 DEF Blobs
    <2>. QED  BY <2>1, <2>2, <2>3, <2>4, EntryIs
<1>5. ASSUME NEW b \in B PROVE \E e \in WithContent(manifest) : b = <<e.blob, e.blob_sha256>>
    BY DEF Blobs, WithContent
<1>6. \A b, c \in B : IsBlob(b[1]) /\ (c[1] = b[1] => c = b)
    <2>. SUFFICES ASSUME NEW b \in B, NEW c \in B PROVE IsBlob(b[1]) /\ (c[1] = b[1] => c = b)
        OBVIOUS
    <2>1. PICK d \in WithContent(manifest) : b = <<d.blob, d.blob_sha256>>
        BY <1>5
    <2>2. PICK e \in WithContent(manifest) : c = <<e.blob, e.blob_sha256>>
        BY <1>5
    <2>3. IsBlob(d.blob) /\ d.blob.stem = d.blob_sha256 /\ e.blob.stem = e.blob_sha256
        BY <1>4
    <2>. HIDE DEF manifest, B
    <2>. QED  BY <2>1, <2>2, <2>3
<1>. HIDE DEF manifest, ms, B, signed
<1>7. /\ \A i \in DOMAIN ms : i = 1 \/ i = 2 \/ i \in 3 .. Len(ms)
      /\ 1 \in DOMAIN ms /\ 2 \in DOMAIN ms /\ 3 .. Len(ms) \subseteq DOMAIN ms
    BY <1>3
<1>8. \A i \in 3 .. Len(ms) : \E b \in B : ms[i] = Member(b[1], b[2]) /\ ms[i].name = b[1] /\ IsBlob(ms[i].name)
    <2>. SUFFICES ASSUME NEW i \in 3 .. Len(ms)
                  PROVE  \E b \in B : ms[i] = Member(b[1], b[2]) /\ ms[i].name = b[1] /\ IsBlob(ms[i].name)
        OBVIOUS
    <2>1. PICK b \in B : ms[i] = Member(b[1], b[2])
        BY <1>3
    <2>2. ms[i].name = b[1]
        BY <2>1 DEF Member
    <2>. QED  BY <1>6, <2>1, <2>2
<1>9. ms[1].name = ManifestName /\ ms[2].name = SignatureName
    BY <1>3 DEF Member
<1>10. \A i \in DOMAIN ms : ms[i].alias = ms[i].name /\ Allowed(ms[i].name)
    <2>1. \A x, y : Member(x, y).alias = Member(x, y).name
        BY DEF Member
    <2>2. \A i \in DOMAIN ms : ms[i].alias = ms[i].name
        BY <1>3, <1>7, <2>1
    <2>. QED  BY <1>7, <1>8, <1>9, <2>2 DEF Allowed
<1>11. ASSUME NEW i \in DOMAIN ms, NEW j \in DOMAIN ms, ms[i].name = ms[j].name PROVE i = j
    <2>1. ManifestName # SignatureName /\ ~IsBlob(ManifestName) /\ ~IsBlob(SignatureName)
        BY ReleaseAssumption DEF IsBlob
    <2>2. CASE i \in 3 .. Len(ms) /\ j \in 3 .. Len(ms)
        <3>1. PICK b \in B : ms[i] = Member(b[1], b[2]) /\ ms[i].name = b[1]
            BY <1>8, <2>2
        <3>2. PICK c \in B : ms[j] = Member(c[1], c[2]) /\ ms[j].name = c[1]
            BY <1>8, <2>2
        <3>3. b = c
            BY <1>6, <1>11, <3>1, <3>2
        <3>4. \A d \in B : d[1] = b[1] => d = b
            BY <1>6
        <3>. QED  BY <1>3, <2>2, <3>1, <3>2, <3>3, <3>4
    <2>. QED  BY <1>7, <1>8, <1>9, <1>11, <2>1, <2>2
<1>12. Sound(file)
    <2>1. Len(ms) <= MaxEntries
        BY DEF Fits, ms
    <2>2. ~file.comment /\ file.exact /\ file.count = Len(ms) /\ file.members = ms
        BY <1>3
    <2>. QED  BY <1>10, <1>11, <2>1, <2>2 DEF Sound
<1>13. Parsed(file) = ms /\ ArchiveOf(file) = Archive(ms)
    BY <1>3 DEF Parsed, ArchiveOf
<1>14. /\ DOMAIN Archive(ms) = {m.name : m \in Range(ms)}
       /\ \A m \in Range(ms) : Archive(ms)[m.name] = m.bytes
    BY <1>3, <1>12, ArchiveIs DEF ms
<1>15. \A i \in DOMAIN ms : ms[i] \in Range(ms)
    BY DEF Range
<1>16. /\ ManifestName \in DOMAIN Archive(ms) /\ Archive(ms)[ManifestName] = manifest
       /\ SignatureName \in DOMAIN Archive(ms) /\ Archive(ms)[SignatureName] = signed
    <2>1. ms[1] \in Range(ms) /\ ms[2] \in Range(ms)
        BY <1>7, <1>15
    <2>2. ms[1].bytes = manifest /\ ms[2].bytes = signed
        BY <1>3 DEF Member
    <2>. QED  BY <1>9, <1>14, <2>1, <2>2
<1>17. ASSUME NEW b \in B PROVE b[1] \in DOMAIN Archive(ms) /\ Archive(ms)[b[1]] = b[2]
    <2>1. PICK i \in 3 .. Len(ms) : ms[i] = Member(b[1], b[2])
        BY <1>3
    <2>2. ms[i] \in Range(ms) /\ ms[i].name = b[1] /\ ms[i].bytes = b[2]
        BY <1>7, <1>15, <2>1 DEF Member
    <2>. QED  BY <1>14, <2>2
<1>18. HoldsExactly(Archive(ms), manifest)
    <2>1. \A name \in DOMAIN Archive(ms) : IsBlob(name) => \E b \in B : name = b[1]
        <3>1. \A m \in Range(ms) : \E i \in DOMAIN ms : m = ms[i]
            BY DEF Range
        <3>2. ~IsBlob(ManifestName) /\ ~IsBlob(SignatureName)
            BY DEF IsBlob
        <3>. QED  BY <1>7, <1>8, <1>9, <1>14, <3>1, <3>2
    <2>2. Referenced(manifest) = {b[1] : b \in B}
        BY DEF Referenced, B
    <2>. QED  BY <1>6, <1>17, <2>1, <2>2 DEF HoldsExactly
<1>19. Vouched(Trust, MinEpoch, signed, manifest)
    BY ReleaseAssumption DEF Vouched, signed
<1>20. Accepted(file)
    <2>1. Parsed(file) # <<>>
        BY <1>3, <1>13
    <2>2. ManifestSize(manifest) <= MaxManifestBytes
        BY DEF Fits, manifest
    <2>3. Opens(file)
        BY <1>12, <1>13, <1>16, <2>1, <2>2 DEF Opens, ArchiveOf
    <2>. QED  BY <1>1, <1>13, <1>16, <1>18, <1>19, <2>3 DEF Accepted, Verifies
<1>21. \A e \in WithContent(manifest) : Archive(ms)[e.blob] = e.blob_sha256
    <2>. SUFFICES ASSUME NEW e \in WithContent(manifest) PROVE Archive(ms)[e.blob] = e.blob_sha256
        OBVIOUS
    <2>1. <<e.blob, e.blob_sha256>> \in B
        BY <1>4
    <2>. QED  BY <1>17, <2>1
<1>. QED  BY <1>4, <1>13, <1>20, <1>21 DEF manifest

(***************************************************************************)
(* What "build" writes, any device that trusts the key opens, verifies,    *)
(* and reads every whole file of as it was added, as long as the container *)
(* has room for its members and its manifest: "build" measures neither.    *)
(* It is property BuiltPacksOpen.                                          *)
(***************************************************************************)
THEOREM BuiltPacksAlwaysOpen == ReleaseSpec => []BuiltPacksOpen
<1>1. ReleaseInit => DraftInv /\ ShelfInv
    <2>. SUFFICES ASSUME ReleaseInit PROVE DraftInv /\ ShelfInv
        OBVIOUS
    <2>1. draft = None /\ shelf = <<>>
        BY DEF ReleaseInit
    <2>2. IsList(shelf) /\ Range(shelf) = {}
        BY <2>1 DEF IsList, Range
    <2>. QED  BY <2>1, <2>2 DEF DraftInv, ShelfInv
<1>2. ShelfInv => BuiltPacksOpen
    <2>. SUFFICES ASSUME ShelfInv, NEW file \in Range(shelf), Fits(file)
                  PROVE  /\ Accepted(file)
                         /\ \A e \in WithContent(ManifestOf(file)) :
                                e.op = "full" => ReadBlob(ArchiveOf(file), e) = Meant(e)
        BY DEF BuiltPacksOpen
    <2>1. /\ Accepted(file)
          /\ \A e \in WithContent(ManifestOf(file)) :
                ArchiveOf(file)[e.blob] = e.blob_sha256 /\ e \in Entries /\ Shaped(e) /\ e.op # "delete"
        BY BuiltIsAccepted DEF ShelfInv
    <2>2. ASSUME NEW e \in WithContent(ManifestOf(file)), e.op = "full"
          PROVE  ReadBlob(ArchiveOf(file), e) = Meant(e)
        <3>. DEFINE raw == ArchiveOf(file)[e.blob]
        <3>1. raw = e.blob_sha256 /\ Length(raw) = e.blob_size
            BY <2>1, EntryIs
        <3>2. PICK path \in Range(PathOrder), c \in Contents : e = FullEntry(path, c)
            BY <2>1, <2>2 DEF Entries, DeltaEntry, Tombstone, Described
        <3>3. /\ e.sha256 = Plain(c) /\ e.size = Size[c] /\ e.encoding = Encoded(c).encoding
              /\ e.blob_sha256 = Encoded(c).bytes
            BY <3>2 DEF FullEntry, Described
        <3>. HIDE DEF raw
        <3>4. CASE Encoded(c) = [bytes |-> Plain(c), encoding |-> "identity"]
            <4>1. raw = Plain(c) /\ e.encoding = "identity"
                BY <3>1, <3>3, <3>4
            <4>. QED  BY <2>2, <3>1, <3>3, <4>1 DEF ReadBlob, raw, Meant
        <3>5. CASE Encoded(c) = [bytes |-> Zstd(c), encoding |-> "zstd"]
            <4>1. raw = Zstd(c) /\ e.encoding = "zstd"
                BY <3>1, <3>3, <3>5
            <4>2. raw.codec = "zstd" /\ raw.of = c
                BY <4>1 DEF Zstd
            <4>3. Inflated(raw, e.size, Plain(c)) = Plain(c)
                <5>1. Size[c] \in Nat
                    BY ContainerAssumption
                <5>. QED  BY <3>3, <4>2, <5>1 DEF Inflated, DecodedLength
            <4>4. ReadBlob(ArchiveOf(file), e) = Inflated(raw, e.size, Plain(c))
                BY <3>1, <3>3, <4>1, <4>2 DEF ReadBlob, raw
            <4>. QED  BY <2>2, <3>3, <4>3, <4>4 DEF Meant
        <3>. QED  BY <3>4, <3>5 DEF Encoded
    <2>. QED  BY <2>1, <2>2
<1>. QED  BY <1>1, <1>2, DraftsAreBuilt, PTL DEF ReleaseSpec
=============================================================================
