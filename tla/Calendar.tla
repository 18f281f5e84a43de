------------------------------- MODULE Calendar -------------------------------
(***************************************************************************)
(* The conversions of ATimeSpace: calendar dates and modified Julian days, *)
(* the leap seconds, and sexagesimal text.  They are pure; the variables   *)
(* walk through their arguments, one civil day or one angle a step, with   *)
(* the Gregorian rules as the reference.                                   *)
(*                                                                         *)
(* Days are whole (the fraction passes through both conversions as it is). *)
(* Divisions of doubles cut to int are written as divisions of integers:   *)
(* (4 * j - 7468865) \div 146097 is int((j - 1867216.25) / 36524.25).      *)
(***************************************************************************)
EXTENDS Integers, Sequences, SequencesExt

CONSTANTS LastYear,  \* the walk through the days ends with this year
          Degrees,   \* whole degrees (or hours) that are written and read back
          Sixtieths, \* minutes and seconds that are
          Millis     \* thousandths of a second

ASSUME AnglesAssumption ==
    Degrees \subseteq 0 .. 359 /\ Sixtieths \subseteq 0 .. 59 /\ Millis \subseteq 0 .. 999

VARIABLES dayno,  \* the modified Julian day, counted one at a time
          date,   \* the civil date of that day, by the Gregorian rules
          angle   \* an angle to be written and read back, its whole milliseconds; -1 for none yet

calVars == <<dayno, date, angle>>

(* ------------------------------ the calendar ---------------------------- *)

\* C++ integer division cuts towards zero.
Cut(a, b) == IF a >= 0 THEN a \div b ELSE -((-a) \div b)

ModifiedJulianDay(y, m, d) ==
    LET my == Cut(m - 14, 12)
        iypmy == y + my
    IN  Cut(1461 * (iypmy + 4800), 4) + Cut(367 * (m - 2 - 12 * my), 12)
        - Cut(3 * Cut(iypmy + 4900, 100), 4) + d - 2432076

\* Mutant: January is taken for a thirteenth month.
Mjd2Cal_January(n) ==
    LET jdn == n + 2400001
        t == (4 * jdn - 7468865) \div 146097
        A == IF jdn >= 2299161 THEN jdn + 1 + t - t \div 4 ELSE jdn
        B == A + 1524
        C == (20 * B - 2442) \div 7305
        D == (1461 * C) \div 4
        E == (10000 * (B - D)) \div 306001
        im == IF E <= 14 THEN E - 1 ELSE E - 13
    IN  [y |-> IF im > 2 THEN C - 4716 ELSE C - 4715,
         m |-> im,
         d |-> B - D - (306001 * E) \div 10000]

\* jdn is the Julian day number of the noon of the day.  10000 and 306001 stand
\* for 30.6000001: no whole number of days falls between the two.
Mjd2Cal(n) ==
    LET jdn == n + 2400001
        t == (4 * jdn - 7468865) \div 146097
        A == IF jdn >= 2299161 THEN jdn + 1 + t - t \div 4 ELSE jdn
        B == A + 1524
        C == (20 * B - 2442) \div 7305
        D == (1461 * C) \div 4
        E == (10000 * (B - D)) \div 306001
        im == IF E < 14 THEN E - 1 ELSE E - 13
    IN  [y |-> IF im > 2 THEN C - 4716 ELSE C - 4715,
         m |-> im,
         d |-> B - D - (306001 * E) \div 10000]

mdays == <<31, 28, 31, 30, 31, 30, 31, 31, 30, 31, 30, 31>>

\* The status SetUTC returns for a date: 0, or which part of it is not legal.
SetUTCStatus(y, m, d) ==
    LET ly == IF m = 2 /\ y % 4 = 0 /\ (y % 100 # 0 \/ y % 400 = 0) THEN 1 ELSE 0
    IN  IF y < -4799 THEN -1
        ELSE IF m < 1 \/ m > 12 THEN -2
        ELSE IF d < 1 \/ d > mdays[m] + ly THEN -3 ELSE 0

\* The first days of the leap seconds, TAI-UTC being 10 s at the first of them.
changes ==
    <<<<1972, 1>>, <<1972, 7>>, <<1973, 1>>, <<1974, 1>>, <<1975, 1>>, <<1976, 1>>,
      <<1977, 1>>, <<1978, 1>>, <<1979, 1>>, <<1980, 1>>, <<1981, 7>>, <<1982, 7>>,
      <<1983, 7>>, <<1985, 7>>, <<1988, 1>>, <<1990, 1>>, <<1991, 1>>, <<1992, 7>>,
      <<1993, 7>>, <<1994, 7>>, <<1996, 1>>, <<1997, 7>>, <<1999, 1>>, <<2006, 1>>,
      <<2009, 1>>, <<2012, 7>>, <<2015, 7>>, <<2017, 1>>>>

\* The last change whose month is not after the date's.  -1 stands for what the code
\* returns before 1972, parts of seconds that drift, and before 1960, where it reads in
\* front of its tables.
DeltaAT(y, m) ==
    LET past == {i \in DOMAIN changes : 12 * y + m >= 12 * changes[i][1] + changes[i][2]}
    IN  IF past = {} THEN -1 ELSE 9 + CHOOSE i \in past : \A k \in past : k <= i

\* Mutant: the offset of the day itself is taken for that of the next.
UTC2TAI_Today(n) ==
    LET today == Mjd2Cal(n)
        dat0 == DeltaAT(today.y, today.m)
    IN  [at0h |-> dat0, leap |-> DeltaAT(today.y, today.m) - dat0]

\* UTC2TAI: the offset at 0h, moved on by the jump spread over the day, for the
\* half day of it that has passed.
UTC2TAI(n) ==
    LET today == Mjd2Cal(n)
        dat0 == DeltaAT(today.y, today.m)
        tomorrow == Mjd2Cal(n + 1)
        dat24 == DeltaAT(tomorrow.y, tomorrow.m)
    IN  [at0h |-> dat0, leap |-> dat24 - dat0]

(* ---------------------------- sexagesimal text -------------------------- *)
\* A character is <<"digit", 0..9>>, <<"colon", 0>>, <<"dot", 0>> or <<"sign", 0>>.

Digit(n) == <<"digit", n>>
Colon == <<"colon", 0>>
Dot == <<"dot", 0>>
Two(n) == <<Digit(n \div 10), Digit(n % 10)>>
Unpadded(n) ==
    IF n < 10 THEN <<Digit(n)>> ELSE IF n < 100 THEN Two(n)
    ELSE <<Digit(n \div 100)>> \o Two(n % 100)

Thousandths(n) == <<Digit(n \div 100)>> \o Two(n % 100)

\* An angle of milliseconds cut into its parts, wrapped to less than turns; f is
\* the milliseconds past the minute.
Parts(ms, turns) ==
    LET a == ms % (turns * 3600000)
    IN  [u |-> a \div 3600000, m |-> (a \div 60000) % 60, f |-> a % 60000]

Capped(n, most) == IF n > most THEN most ELSE n

\* "%02d:%02d:%06.3f"; hours from 24 to 36 are left as they are.  The seconds are
\* capped at 59.999 and printed to the nearest thousandth: late is 1 when the
\* double lies in the second half of its millisecond.  Its arithmetic errs by far
\* less than half a millisecond, so a double meant to be a whole number of them
\* may be taken for one of the half before, and is printed a minute earlier, as
\* 59.999, when that number is a whole minute.
HourDbl2Str(ms, late) ==
    LET p == IF ms < 129600000 THEN Parts(ms, 36)
             ELSE Parts(43200000 + ((ms - 43200000) % 86400000), 36)
        f == Capped(p.f + late, 59999)
    IN  Two(p.u) \o <<Colon>> \o Two(p.m) \o <<Colon>> \o Two(f \div 1000)
        \o <<Dot>> \o Thousandths(f % 1000)

\* "%d:%02d:%05.2f" of an angle below a turn: the seconds are capped at 59.99 and
\* printed to the nearest hundredth.
DegDbl2Str(ms) ==
    LET p == Parts(ms, 360)
        f == Capped((p.f + 5) \div 10, 5999)
    IN  Unpadded(p.u) \o <<Colon>> \o Two(p.m) \o <<Colon>> \o Two(f \div 100)
        \o <<Dot>> \o Two(f % 100)

\* atof of the digits and the dot in the buffer, in thousandths.
atof(buff) ==
    LET at == SelectInSeq(buff, LAMBDA c : c = Dot)
        whole == IF at = 0 THEN buff ELSE SubSeq(buff, 1, at - 1)
        rest == IF at = 0 THEN <<>> ELSE SubSeq(buff, at + 1, Len(buff))
        number(ds) == FoldLeft(LAMBDA n, c : 10 * n + c[2], 0, ds)
    IN  1000 * number(whole)
        + number(SubSeq(rest \o <<Digit(0), Digit(0), Digit(0)>>, 1, 3))

\* One character of HourStr2Dbl and DegStr2Dbl: st holds the part being read,
\* its buffer, the parts before it, whether a dot was seen, and the status.
\* width is how many digits the first part takes: 2 for hours, 3 for degrees.
\* Mutant: the buffer of a part goes on into the next one.
Close_KeepBuffer(st) == [st EXCEPT !.done = Append(@, atof(st.buff)), !.part = @ + 1]
Close(st) ==
    [st EXCEPT !.buff = <<>>, !.done = Append(@, atof(st.buff)), !.part = @ + 1]
Read(width, st, ch) ==
    LET full == /\ ~st.dot /\ st.part <= 1
                /\ Len(st.buff) = (IF st.part = 0 THEN width ELSE 2)
    IN  CASE st.status # 0 -> st
          [] st.status = 0 /\ ch[1] = "digit" ->
                LET now == IF full THEN Close(st) ELSE st
                IN  [now EXCEPT !.buff = Append(@, ch)]
          [] st.status = 0 /\ ch = Colon ->
                IF st.dot \/ st.part >= 2 THEN [st EXCEPT !.status = -2]
                ELSE IF st.buff # <<>> THEN Close(st) ELSE st
          [] st.status = 0 /\ ch = Dot ->
                IF st.dot THEN [st EXCEPT !.status = -3]
                ELSE [st EXCEPT !.dot = TRUE, !.buff = Append(@, ch)]
          [] OTHER -> [st EXCEPT !.status = -4]

Start == [part |-> 0, buff |-> <<>>, done |-> <<>>, dot |-> FALSE, status |-> 0]

\* The parts, sixtieths of each other, put together in milliseconds.
Total(st) ==
    LET v == st.done \o <<atof(st.buff)>>
    IN  CASE st.part = 0 -> 3600 * v[1]
          [] st.part = 1 -> 3600 * v[1] + 60 * v[2]
          [] st.part = 2 -> 3600 * v[1] + 60 * v[2] + v[3]

HourStr2Dbl(str) == FoldLeft(LAMBDA st, ch : Read(2, st, ch), Start, str)
DegStr2Dbl(str) == FoldLeft(LAMBDA st, ch : Read(3, st, ch), Start, str)

(* -------------------------------- the walk ------------------------------ *)

Leap(y) == y % 4 = 0 /\ (y % 100 # 0 \/ y % 400 = 0)
MonthDays(y, m) == IF m = 2 /\ Leap(y) THEN 29 ELSE mdays[m]

\* Day 0 is the 17th of November 1858, day 57753 the 31st of December 2016, which
\* ended in the last leap second.  The walk from the one arrives at the other.
CalInit ==
    /\ \/ dayno = 0 /\ date = [y |-> 1858, m |-> 11, d |-> 17]
       \/ dayno = 57753 /\ date = [y |-> 2016, m |-> 12, d |-> 31]
    /\ angle = -1

NextDay ==
    /\ date.y <= LastYear /\ angle = -1
    /\ dayno' = dayno + 1
    /\ date' = IF date.d < MonthDays(date.y, date.m) THEN [date EXCEPT !.d = @ + 1]
               ELSE IF date.m < 12 THEN [date EXCEPT !.d = 1, !.m = @ + 1]
               ELSE [y |-> date.y + 1, m |-> 1, d |-> 1]
    /\ UNCHANGED angle

WriteAngle ==
    /\ dayno = 0
    /\ \E u \in Degrees, m \in Sixtieths, s \in Sixtieths, f \in Millis :
          angle' = 3600000 * u + 60000 * m + 1000 * s + f
    /\ UNCHANGED <<dayno, date>>

CalNext == NextDay \/ WriteAngle

CalSpec == CalInit /\ [][CalNext]_calVars

(* ------------------------------- properties ----------------------------- *)

\* Every day converts to its modified Julian day and back to itself, and SetUTC
\* takes it: SetMJD, SetJD and SetEpoch ignore its status, so a date it refused
\* would leave the object at the instant before.
DatesConvert ==
    /\ ModifiedJulianDay(date.y, date.m, date.d) = dayno
    /\ Mjd2Cal(dayno) = date
    /\ SetUTCStatus(date.y, date.m, date.d) = 0
    /\ SetUTCStatus(date.y, date.m, MonthDays(date.y, date.m) + 1) = -3

\* TAI-UTC steps by one second, only as a January or a July begins, and UTC2TAI
\* sees the step on the day before it and on no other.
LeapSeconds ==
    [][dayno' # dayno /\ date.y >= 1972 =>
         LET now == DeltaAT(date.y, date.m)
             next == DeltaAT(date'.y, date'.m)
         IN  /\ next - now \in {0, 1}
             /\ next # now => date'.d = 1 /\ date'.m \in {1, 7}
             /\ UTC2TAI(dayno).leap = next - now]_calVars

\* What HourDbl2Str and DegDbl2Str write, HourStr2Dbl and DegStr2Dbl take, and
\* read as an angle of the same minute, off by no more than the last digit: the
\* millisecond for hours, half a hundredth for degrees and, where the seconds are
\* capped, not quite a whole one.  Degrees have as many digits as they need, and
\* the reader tells where they end; seconds that round up to 60 would be read as
\* the minute after.
TextReadsBack ==
    angle >= 0 =>
    /\ LET deg == DegStr2Dbl(DegDbl2Str(angle))
       IN  /\ deg.status = 0 /\ Total(deg) - angle \in -9 .. 5
           /\ Total(deg) \div 60000 = angle \div 60000
    /\ angle < 86400000 => \A late \in {0, 1} :
          LET hour == HourStr2Dbl(HourDbl2Str(angle, late))
          IN  /\ hour.status = 0 /\ Total(hour) - angle \in {0, late}
              /\ Total(hour) \div 60000 = angle \div 60000
=============================================================================
