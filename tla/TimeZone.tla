----------------------------- MODULE TimeZone -----------------------------
(***************************************************************************)
(* TimeZone: seconds since the epoch broken down in UTC and in a zone that *)
(* was read from a file, and put together again.  A day goes by at each    *)
(* step, so that every conversion is held against a calendar that counts.  *)
(*                                                                         *)
(* The lengths of a minute, an hour and a day are parameters: with those   *)
(* of the code TLC's integers would end in 2038.                           *)
(***************************************************************************)
EXTENDS Date, CDivision, Sequences, FiniteSets

CONSTANTS SecondsPerMinute, MinutesPerHour, HoursPerDay,    \* 60, 60, 24
          Walks       \* [file, first, last]: years that go by with a zone in use

SecondsPerHour == SecondsPerMinute * MinutesPerHour
kSecondsPerDay == SecondsPerHour * HoursPerDay

ASSUME TimeAssumption ==
    /\ {SecondsPerMinute, MinutesPerHour, HoursPerDay} \subseteq Nat \ {0}
    /\ \A w \in Walks : w.first \in Nat /\ w.last \in Nat /\ w.file.typesRead \in Nat

VARIABLES
    walk,       \* the zone file and the years
    data,       \* what was read from the file
    date,       \* today, by the calendar
    day,        \* days since the epoch, counted
    yday        \* days since the first of January, counted

zoneVars == <<walk, data, date, day, yday>>

-----------------------------------------------------------------------------
(* UTC *)

ToUtcTime(secondsSinceEpoch) ==
    LET rest == Remainder(secondsSinceEpoch, kSecondsPerDay)
        days == Quotient(secondsSinceEpoch, kSecondsPerDay)
        seconds == IF rest < 0 THEN rest + kSecondsPerDay ELSE rest
        minutes == seconds \div SecondsPerMinute
        julianDayNumber == (IF rest < 0 THEN days - 1 ELSE days) + JulianDayOf1970_01_01
        ymd == YearMonthDay(julianDayNumber)
    IN  [tm_sec |-> seconds % SecondsPerMinute,
         tm_min |-> minutes % MinutesPerHour,
         tm_hour |-> minutes \div MinutesPerHour,
         tm_year |-> ymd.year - 1900, tm_mon |-> ymd.month - 1, tm_mday |-> ymd.day,
         tm_wday |-> WeekDay(julianDayNumber),
         tm_yday |-> julianDayNumber - JulianDayNumber(ymd.year, 1, 1),
         tm_isdst |-> FALSE]

FromUtcTime(tm) ==
    LET julianDayNumber == JulianDayNumber(tm.tm_year + 1900, tm.tm_mon + 1, tm.tm_mday)
        secondsInDay == tm.tm_hour * SecondsPerHour + tm.tm_min * SecondsPerMinute + tm.tm_sec
    IN  (julianDayNumber - JulianDayOf1970_01_01) * kSecondsPerDay + secondsInDay

-----------------------------------------------------------------------------
(* Zones *)

\* A file that ends among its types leaves those before its end, and no transition;
\* readTimeZoneFile returns true all the same.
ReadTimeZoneFile(file) ==
    [localtimes |-> SubSeq(file.types, 1, file.typesRead),
     transitions |->
        IF file.typesRead < Len(file.types) THEN <<>>
        ELSE [i \in DOMAIN file.times |->
                [gmttime |-> file.times[i],
                 localtime |-> file.times[i] + file.types[file.index[i]].gmtOffset,
                 localtimeIdx |-> file.index[i]]]]

Key(transition, compareGmt) == IF compareGmt THEN transition.gmttime ELSE transition.localtime

\* std::lower_bound
LowerBound(transitions, sentry, compareGmt) ==
    1 + Cardinality({i \in DOMAIN transitions : Key(transitions[i], compareGmt) < sentry})

InForce_Mutant(transitions, sentry, compareGmt) ==   \* seeded bug: no step back
    LET at == LowerBound(transitions, sentry, compareGmt) IN
    IF at <= Len(transitions) THEN at ELSE at - 1

\* The transition to go by: the one at the sentry, or the one before it.
InForce(transitions, sentry, compareGmt) ==
    LET at == LowerBound(transitions, sentry, compareGmt) IN
    IF at <= Len(transitions) /\ Key(transitions[at], compareGmt) = sentry THEN at ELSE at - 1

FindLocaltime(zone, sentry, compareGmt) ==
    IF zone.transitions = <<>> \/ sentry < Key(zone.transitions[1], compareGmt)
    THEN zone.localtimes[1]
    ELSE zone.localtimes[zone.transitions[InForce(zone.transitions, sentry, compareGmt)].localtimeIdx]

\* gmtime_r(3) is taken to break seconds down as ToUtcTime does.
ToLocalTime(zone, seconds) ==
    LET local == FindLocaltime(zone, seconds, TRUE) IN
    [ToUtcTime(seconds + local.gmtOffset) EXCEPT !.tm_isdst = local.isDst]

SameClock(tm, other) == tm.tm_hour = other.tm_hour /\ tm.tm_min = other.tm_min

\* timegm(3) is taken to put seconds together as FromUtcTime does.
FromLocalTime(zone, tm) ==
    LET seconds == FromUtcTime(tm)
        local == FindLocaltime(zone, seconds, FALSE)
        try == ToLocalTime(zone, seconds - local.gmtOffset)
        hourLess == tm.tm_isdst /\ ~try.tm_isdst /\ SameClock(try, tm)
    IN  seconds - (IF hourLess THEN SecondsPerHour ELSE 0) - local.gmtOffset

-----------------------------------------------------------------------------
(* Days go by. *)

LeapYears(from, to) == Cardinality({y \in from .. to - 1 : IsLeap(y)})
DaysTo(year) == 365 * (year - 1970) + LeapYears(1970, year) - LeapYears(year, 1970)

ZoneInit == /\ walk \in Walks
            /\ data = ReadTimeZoneFile(walk.file)
            /\ date = [year |-> walk.first, month |-> 1, day |-> 1]
            /\ day = DaysTo(walk.first)
            /\ yday = 0

NextDay == /\ NextDate(date).year <= walk.last
           /\ date' = NextDate(date)
           /\ day' = day + 1
           /\ yday' = IF date'.year = date.year THEN yday + 1 ELSE 0
           /\ UNCHANGED <<walk, data>>

-----------------------------------------------------------------------------
(* Properties *)

SecondsOfDay == 0 .. kSecondsPerDay - 1

\* The day number, the date, the day of the week and of the year, and every second of
\* the day are what the calendar says, before the epoch and after it, and a broken
\* down time is put together to the second it came from.
CalendarAgrees ==
    LET julianDayNumber == day + JulianDayOf1970_01_01 IN
    /\ JulianDayNumber(date.year, date.month, date.day) = julianDayNumber
    /\ YearMonthDay(julianDayNumber) = date
    /\ \A s \in SecondsOfDay :
          LET tm == ToUtcTime(day * kSecondsPerDay + s) IN
          /\ tm.tm_year + 1900 = date.year /\ tm.tm_mon + 1 = date.month /\ tm.tm_mday = date.day
          /\ tm.tm_wday = (4 + day) % 7 /\ tm.tm_yday = yday
          /\ tm.tm_hour \in 0 .. HoursPerDay - 1 /\ tm.tm_min \in 0 .. MinutesPerHour - 1
          /\ tm.tm_sec \in 0 .. SecondsPerMinute - 1
          /\ FromUtcTime(tm) = day * kSecondsPerDay + s

\* What is in force at a second, by the zone's file: the type of the last change that is not
\* after it, or the first type before all changes.
TypeAt(file, seconds) ==
    LET past == {i \in DOMAIN file.times : file.times[i] <= seconds} IN
    IF past = {} THEN file.types[1]
    ELSE file.types[file.index[CHOOSE i \in past : \A j \in past : j <= i]]

ReadWhole(file) == file.typesRead = Len(file.types)

\* Of a file that was read to its end, a local time has the offset in force at its second,
\* from the second of a change on.  And it leads back to that second, also in the hour that
\* comes twice when summer time ends, in zones where summer time is one hour ahead.  Of a file
\* that ends among its types only the second is promised: that readTimeZoneFile returned true
\* (TimeZone.cc:227) does not say that local times are right.
LocalTimeReturns ==
    \A s \in SecondsOfDay :
       LET seconds == day * kSecondsPerDay + s
           tm == ToLocalTime(data, seconds)
           type == TypeAt(walk.file, seconds)
       IN  /\ ReadWhole(walk.file) => /\ FromUtcTime(tm) = seconds + type.gmtOffset
                                      /\ tm.tm_isdst = type.isDst
           /\ FromLocalTime(data, tm) = seconds
=============================================================================
