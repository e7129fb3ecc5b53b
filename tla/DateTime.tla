------------------------------ MODULE DateTime ------------------------------
(***************************************************************************)
(* Date-time values of Dynamic (Impl<DATE_TIME> in impl_date_time.h and    *)
(* the constructors and methods of Dynamic that use it): seven fields      *)
(* packed into one word, read back by mask and shift, compared as a word   *)
(* and moved through the C library's broken-down time.                     *)
(*                                                                         *)
(* The sizes of the fields and the lengths of a day, an hour and a minute  *)
(* are parameters: the code has 16, 4, 5, 5, 6, 6 and 20 bits and 24, 60   *)
(* and 60, which TLC's integers cannot hold.  The C library (localtime,    *)
(* mktime) is external: the proleptic Gregorian calendar in a zone whose   *)
(* clock never jumps.                                                      *)
(***************************************************************************)
EXTENDS Integers, FiniteSets, Sequences

CONSTANTS
    YEAR_SIZE, MONTH_SIZE, DAY_SIZE, HH_SIZE, MM_SIZE, SS_SIZE, MICROSEC_SIZE,
    HoursADay,          \* 24
    MinutesAnHour,      \* 60
    SecondsAMinute,     \* 60
    MICROSEC_MAX,       \* 999999
    Dates,              \* the dates constructors are called with, <<y, m, d>>
    Clocks,             \* the times of day, <<hh, mm, ss, microsec>>
    Stamps,             \* the timestamps, in seconds since the year 0
    DayCounts,          \* the arguments of AddDays
    SecondCounts,       \* the arguments of AddSeconds, AddMinutes, AddHours
    MaxSteps            \* how many operations a behaviour takes

\* What an instance gives for the constants.
SizesAssumption ==
    /\ {YEAR_SIZE, MONTH_SIZE, DAY_SIZE, HH_SIZE, MM_SIZE, SS_SIZE,
        MICROSEC_SIZE} \subseteq Nat \ {0}
    /\ {HoursADay, MinutesAnHour, SecondsAMinute} \subseteq Nat \ {0}
    /\ MICROSEC_MAX \in 0..(2^MICROSEC_SIZE - 1)
    /\ 12 < 2^MONTH_SIZE /\ 31 < 2^DAY_SIZE /\ HoursADay <= 2^HH_SIZE
    /\ MinutesAnHour <= 2^MM_SIZE /\ SecondsAMinute <= 2^SS_SIZE

VARIABLES
    v,      \* the value: Undefined, or the word of a DATE_TIME
    was,    \* the value before the last operation
    op,     \* the last operation and its argument
    steps

vars == <<v, was, op, steps>>

\* A Dynamic of type UNDEF; no word is negative.
Undefined == 0 - 1

\* Two bits of the word are not used.
MICROSEC_SHIFT == 2
SS_SHIFT == MICROSEC_SHIFT + MICROSEC_SIZE
MM_SHIFT == SS_SHIFT + SS_SIZE
HH_SHIFT == MM_SHIFT + MM_SIZE
DAY_SHIFT == HH_SHIFT + HH_SIZE
MONTH_SHIFT == DAY_SHIFT + DAY_SIZE
YEAR_SHIFT == MONTH_SHIFT + MONTH_SIZE
YEAR_MAX == 2^YEAR_SIZE - 1

\* (w & MASK) >> SHIFT for the mask of a field.
FieldOf(w, shift, size) == (w \div 2^shift) % 2^size

Year(w) == FieldOf(w, YEAR_SHIFT, YEAR_SIZE)
Month(w) == FieldOf(w, MONTH_SHIFT, MONTH_SIZE)
Day(w) == FieldOf(w, DAY_SHIFT, DAY_SIZE)
Hours(w) == FieldOf(w, HH_SHIFT, HH_SIZE)
Minutes(w) == FieldOf(w, MM_SHIFT, MM_SIZE)
Seconds(w) == FieldOf(w, SS_SHIFT, SS_SIZE)
Microseconds(w) == FieldOf(w, MICROSEC_SHIFT, MICROSEC_SIZE)

IsLeap(y) == y % 4 = 0 /\ (y % 100 # 0 \/ y % 400 = 0)

DAYS_IN_MONTH == <<31, 28, 31, 30, 31, 30, 31, 31, 30, 31, 30, 31>>

\* The test of the second Set.
IsDateTime(y, m, d, hh, mm, ss, us) ==
    /\ y \in 0..YEAR_MAX
    /\ m \in 1..12
    /\ \/ d \in 1..DAYS_IN_MONTH[m]
       \/ m = 2 /\ d = 29 /\ IsLeap(y)
    /\ hh \in 0..(HoursADay - 1)
    /\ mm \in 0..(MinutesAnHour - 1)
    /\ ss \in 0..(SecondsAMinute - 1)
    /\ us \in 0..MICROSEC_MAX

Pack(y, m, d, hh, mm, ss, us) ==
    y * 2^YEAR_SHIFT + m * 2^MONTH_SHIFT + d * 2^DAY_SHIFT + hh * 2^HH_SHIFT
      + mm * 2^MM_SHIFT + ss * 2^SS_SHIFT + us * 2^MICROSEC_SHIFT

-----------------------------------------------------------------------------
\* The calendar of the C library.

DaysBeforeYear(y) ==
    365 * y + ((y - 1) \div 4) - ((y - 1) \div 100) + ((y - 1) \div 400) + 1

LeapInC(y) == y % 4 = 0 /\ (y % 100 # 0 \/ y % 400 = 0)

DaysBeforeMonth(y, m) ==
    <<0, 31, 59, 90, 120, 151, 181, 212, 243, 273, 304, 334>>[m]
      + (IF m > 2 /\ LeapInC(y) THEN 1 ELSE 0)

\* The day 0000-01-01 has the number 0.
DayNumber(y, m, d) == DaysBeforeYear(y) + DaysBeforeMonth(y, m) + d - 1

\* The date of a day number: the era of 400 years first.
DateOf(n) ==
    LET era == n \div 146097
        doe == n % 146097
        yoe == CHOOSE k \in (doe \div 366)..(doe \div 365) :
                  DaysBeforeYear(k) <= doe /\ doe < DaysBeforeYear(k + 1)
        y == 400 * era + yoe
        doy == doe - DaysBeforeYear(yoe)
        m == CHOOSE k \in 1..12 :
                /\ DaysBeforeMonth(y, k) <= doy
                /\ k = 12 \/ doy < DaysBeforeMonth(y, k + 1)
    IN  <<y, m, doy - DaysBeforeMonth(y, m) + 1>>

SecondsADay == HoursADay * MinutesAnHour * SecondsAMinute

\* mktime: fields that may be out of their ranges, as a count of seconds.
ClockCount(y, m, d, hh, mm, ss) ==
    DayNumber(y + ((m - 1) \div 12), ((m - 1) % 12) + 1, 1) * SecondsADay
      + (d - 1) * SecondsADay
      + (hh * MinutesAnHour + mm) * SecondsAMinute + ss

\* The first Set on the broken-down time of a count of seconds; the callers
\* ignore its result, and a word it leaves alone is 0.
WordOf(count) ==
    LET date == DateOf(count \div SecondsADay)
        sec == count % SecondsADay
        f == <<date[1], date[2], date[3],
               sec \div (MinutesAnHour * SecondsAMinute),
               (sec \div SecondsAMinute) % MinutesAnHour,
               sec % SecondsAMinute>>
    IN  IF IsDateTime(f[1], f[2], f[3], f[4], f[5], f[6], 0)
        THEN Pack(f[1], f[2], f[3], f[4], f[5], f[6], 0) ELSE 0

\* GetTimestump.
Timestamp(w) ==
    ClockCount(Year(w), Month(w), Day(w), Hours(w), Minutes(w), Seconds(w))

-----------------------------------------------------------------------------
Init == v = Undefined /\ was = Undefined /\ op = <<"none">> /\ steps = 0

Becomes(w, o) ==
    /\ steps < MaxSteps
    /\ steps' = steps + 1
    /\ v' = w /\ was' = v /\ op' = o

\* The constructor: what is not a date and time is UNDEF.
Create(date, clock) ==
    LET y == date[1]  m == date[2]  d == date[3]
        hh == clock[1]  mm == clock[2]  ss == clock[3]  us == clock[4]
    IN  Becomes(IF IsDateTime(y, m, d, hh, mm, ss, us)
                THEN Pack(y, m, d, hh, mm, ss, us) ELSE Undefined,
                <<"create">>)

\* DateTimeFromTm, DateTimeFromString, DateTimeFromDefault and -ISO8601:
\* the fields of a broken-down time or a text, and no microseconds.
CreateFromTm(date, clock) ==
    Create(date, <<clock[1], clock[2], clock[3], 0>>)

\* DateTimeFromTimestamp, DateTimeLocal and DateTimeGmt.
CreateFromTimestamp(t) == Becomes(WordOf(t), <<"stamp", t>>)

\* Mutant: the sum is not brought back into the month.
AddDaysUnnormalized(n) ==
    /\ v # Undefined
    /\ Becomes(Pack(Year(v), Month(v), Day(v) + n, Hours(v), Minutes(v),
                    Seconds(v), 0), <<"days", n>>)

AddDays(n) ==
    /\ v # Undefined
    /\ Becomes(WordOf(ClockCount(Year(v), Month(v), Day(v) + n, Hours(v),
                                 Minutes(v), Seconds(v))), <<"days", n>>)

\* AddHours and AddMinutes call it with their argument in seconds.
AddSeconds(n) ==
    /\ v # Undefined
    /\ Becomes(WordOf(ClockCount(Year(v), Month(v), Day(v), Hours(v),
                                 Minutes(v), Seconds(v) + n)), <<"seconds", n>>)

\* (old & ~MASK) + (x << SHIFT)
Replaced(w, shift, size, x) ==
    w - FieldOf(w, shift, size) * 2^shift + x * 2^shift

SetHour(h) ==
    /\ v # Undefined
    /\ Becomes(IF h > HoursADay - 1 THEN v
               ELSE Replaced(v, HH_SHIFT, HH_SIZE, h), <<"hour", h>>)

SetMinute(m) ==
    /\ v # Undefined
    /\ Becomes(IF m > MinutesAnHour - 1 THEN v
               ELSE Replaced(v, MM_SHIFT, MM_SIZE, m), <<"minute", m>>)

SetSecond(s) ==
    /\ v # Undefined
    /\ Becomes(IF s > SecondsAMinute - 1 THEN v
               ELSE Replaced(v, SS_SHIFT, SS_SIZE, s), <<"second", s>>)

Next ==
    \/ \E date \in Dates, clock \in Clocks : Create(date, clock)
    \/ \E date \in Dates, clock \in Clocks : CreateFromTm(date, clock)
    \/ \E t \in Stamps : CreateFromTimestamp(t)
    \/ \E n \in DayCounts : AddDays(n)
    \/ \E n \in SecondCounts : AddSeconds(n)
    \/ \E h \in 0..HoursADay : SetHour(h)
    \/ \E m \in 0..MinutesAnHour : SetMinute(m)
    \/ \E s \in 0..SecondsAMinute : SetSecond(s)

Spec == Init /\ [][Next]_vars

-----------------------------------------------------------------------------
Word == 0..(2^(YEAR_SHIFT + YEAR_SIZE) - 1)

\* The fields of a word are a day of the calendar and a time of day.
IsReal(w) ==
    /\ Month(w) \in 1..12
    /\ DateOf(DayNumber(Year(w), Month(w), Day(w)))
          = <<Year(w), Month(w), Day(w)>>
    /\ Hours(w) < HoursADay /\ Minutes(w) < MinutesAnHour
    /\ Seconds(w) < SecondsAMinute /\ Microseconds(w) <= MICROSEC_MAX

\* A word whose date was lost: no month of no year.
DateLost(w) == Year(w) = 0 /\ Month(w) = 0 /\ Day(w) = 0

\* The clock of a word as the calendar counts it.
Instant(w) == Timestamp(w) * (MICROSEC_MAX + 1) + Microseconds(w)

InRange(count) ==
    0 <= count /\ count < DaysBeforeYear(YEAR_MAX + 1) * SecondsADay

\* Type invariant.
TypeOK ==
    /\ v = Undefined \/ v \in Word
    /\ was = Undefined \/ was \in Word
    /\ steps \in 0..MaxSteps

\* A DATE_TIME holds a date of the calendar and a time of day, whatever was
\* created, set and added before, or its date is lost as a whole: the year,
\* the month and the day are all 0.  It is lost only when a result is outside
\* the years of the word.
RealUnlessOutOfRange ==
    v # Undefined =>
        \/ IsReal(v)
        \/ /\ DateLost(v)
           /\ \/ was # Undefined /\ DateLost(was)
              \/ op[1] = "stamp" /\ ~InRange(op[2])
              \/ op[1] = "days" /\ ~InRange(Timestamp(was) + op[2] * SecondsADay)
              \/ op[1] = "seconds" /\ ~InRange(Timestamp(was) + op[2])

\* Values are compared as words (OP_LT, OP_EQ): that order is the order in
\* time, down to the microsecond, for any two values a behaviour passes
\* through.
OrderIsChronological ==
    (v # Undefined /\ was # Undefined /\ IsReal(v) /\ IsReal(was)) =>
        /\ v < was <=> Instant(v) < Instant(was)
        /\ v = was <=> Instant(v) = Instant(was)

\* AddDays and AddSeconds move a date by exactly what they are given, over the
\* ends of months, leap days and years, and drop its microseconds; a timestamp
\* is read back as it was given.
AdditionMovesTheClock ==
    (v # Undefined /\ IsReal(v)) =>
        /\ op[1] = "stamp" => Timestamp(v) = op[2] /\ Microseconds(v) = 0
        /\ (op[1] \in {"days", "seconds"} /\ IsReal(was)) =>
              /\ Timestamp(v) = Timestamp(was) +
                    op[2] * (IF op[1] = "days" THEN SecondsADay ELSE 1)
              /\ Microseconds(v) = 0

\* SetHour, SetMinute and SetSecond change the field they are named for, to the
\* value given when it is in range, and no other field, the microseconds
\* included.
SetsOneField ==
    op[1] \in {"hour", "minute", "second"} =>
        /\ \A F \in {<<Year(v), Year(was)>>, <<Month(v), Month(was)>>,
                     <<Day(v), Day(was)>>,
                     <<Microseconds(v), Microseconds(was)>>} : F[1] = F[2]
        /\ Hours(v) = (IF op[1] = "hour" /\ op[2] < HoursADay
                       THEN op[2] ELSE Hours(was))
        /\ Minutes(v) = (IF op[1] = "minute" /\ op[2] < MinutesAnHour
                         THEN op[2] ELSE Minutes(was))
        /\ Seconds(v) = (IF op[1] = "second" /\ op[2] < SecondsAMinute
                         THEN op[2] ELSE Seconds(was))
=============================================================================
