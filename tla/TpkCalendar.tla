------------------------------ MODULE TpkCalendar ------------------------------
(***************************************************************************)
(* crates/tpk-cli/src/cmd_channel.rs: the watermark of a publication.      *)
(* Unix time is given as a day and a second of it, and a watermark         *)
(* YYYYMMDDHHMM as the year and the rest: TLC's numbers have 32 bits.      *)
(***************************************************************************)
EXTENDS Integers, FiniteSets

\* Mutant: years begin in January throughout.
CivilWithoutShift(days) ==
    LET z == days + 719468
        era == z \div 146097
        doe == z % 146097
        yoe == (doe - doe \div 1460 + doe \div 36524 - doe \div 146096) \div 365
        doy == doe - (365 * yoe + yoe \div 4 - yoe \div 100)
        mp == (5 * doy + 2) \div 153
        month == IF mp < 10 THEN mp + 3 ELSE mp - 9
    IN  [year |-> yoe + 400 * era, month |-> month, day |-> doy - (153 * mp + 2) \div 5 + 1]

\* civil_from_unix: years begin in March and repeat after 400.
Civil(days) ==
    LET z == days + 719468
        era == z \div 146097
        doe == z % 146097
        yoe == (doe - doe \div 1460 + doe \div 36524 - doe \div 146096) \div 365
        doy == doe - (365 * yoe + yoe \div 4 - yoe \div 100)
        mp == (5 * doy + 2) \div 153
        month == IF mp < 10 THEN mp + 3 ELSE mp - 9
    IN  [year  |-> yoe + 400 * era + (IF month <= 2 THEN 1 ELSE 0),
         month |-> month,
         day   |-> doy - (153 * mp + 2) \div 5 + 1]

\* resolve_watermark, given "auto".
Watermark(time) ==
    LET date == Civil(time.day)
    IN  [year |-> date.year,
         rest |-> 1000000 * date.month + 10000 * date.day
                  + 100 * (time.second \div 3600) + (time.second % 3600) \div 60]

\* watermark_to_rfc3339
Timestamp(w) ==
    [year |-> w.year, month |-> w.rest \div 1000000, day |-> (w.rest % 1000000) \div 10000,
     hour |-> (w.rest % 10000) \div 100, minute |-> w.rest % 100]

-----------------------------------------------------------------------------
(***************************************************************************)
(* For comparison: the days since 1970, counted by the rule of leap years. *)
(***************************************************************************)
IsLeap(year) == year % 4 = 0 /\ (year % 100 # 0 \/ year % 400 = 0)

MonthLength(year, month) ==
    IF month = 2 THEN (IF IsLeap(year) THEN 29 ELSE 28)
    ELSE IF month \in {4, 6, 9, 11} THEN 30 ELSE 31

MonthStarts(year) ==
    LET upTo[m \in 1 .. 12] == IF m = 1 THEN 0 ELSE upTo[m - 1] + MonthLength(year, m - 1)
    IN  upTo

LeapYearsBefore(year) == {y \in 1970 .. year - 1 : IsLeap(y)}

DaysBefore(year, month) ==
    365 * (year - 1970) + Cardinality(LeapYearsBefore(year)) + MonthStarts(year)[month]

\* The day and minute a timestamp names, if there is such a day.
Names(stamp, time) ==
    /\ stamp.month \in 1 .. 12 /\ stamp.day \in 1 .. MonthLength(stamp.year, stamp.month)
    /\ time.day = DaysBefore(stamp.year, stamp.month) + stamp.day - 1
    /\ time.second \div 60 = 60 * stamp.hour + stamp.minute
    /\ stamp.minute < 60
================================================================================
