-------------------------------- MODULE Dates ---------------------------------
(* The date functions of xl-fn: DATE, YEAR, MONTH, DAY, EDATE, EOMONTH,      *)
(* WEEKDAY, NETWORKDAYS, WORKDAY, DAYS360, YEARFRAC, DATEVALUE and HOUR over *)
(* the calendar of datecore, and the dates and times that xl-value reads in  *)
(* a text.                                                                   *)
(*                                                                           *)
(* A serial number counts days from 1900-01-01, which is 1, or 1904-01-01,   *)
(* which is 0. Serial 60 of the 1900 system is a day 1900-02-29 that never   *)
(* was, and serial 0 is no day. A day is <<"day", year, month, day>>; a date *)
(* with a time is <<"time", serial, seconds>>. Arguments are values, numbers *)
(* integers; the holidays are the cells of a line.                           *)
EXTENDS Arrays

Systems == {"Excel1900", "Excel1904"}

Day(y, m, d) == <<"day", y, m, d>>
JanuaryZero == <<"zero">>
OutOfRange == Err("NUM")
IsDay(r) == r[1] = "day"

-----------------------------------------------------------------------------
(* The calendar (datecore.rs).                                               *)

(* The days from 1970-01-01 to a day of the Gregorian calendar and back: the *)
(* year begins in March, so that February is its end.                        *)
DaysFromCivil(y, m, d) ==
  LET year == IF m <= 2 THEN y - 1 ELSE y
      yoe == year % 400
      doy == (153 * ((m + 9) % 12) + 2) \div 5 + d - 1
  IN (year \div 400) * 146097 + yoe * 365 + yoe \div 4 - yoe \div 100 + doy - 719468

CivilFromDays(days) ==
  LET Named(year, doy, mp) ==
        Day(IF mp < 10 THEN year ELSE year + 1, IF mp < 10 THEN mp + 3 ELSE mp - 9,
            doy - (153 * mp + 2) \div 5 + 1)
      OfYear(year, doy) == Named(year, doy, (5 * doy + 2) \div 153)
      OfEra(era, doe, yoe) == OfYear(era * 400 + yoe, doe - (365 * yoe + yoe \div 4 - yoe \div 100))
      Since0(era, doe) ==
        OfEra(era, doe, (doe - doe \div 1460 + doe \div 36524 - doe \div 146096) \div 365)
  IN Since0((days + 719468) \div 146097, (days + 719468) % 146097)

Anchor(system) == IF system = "Excel1900" THEN DaysFromCivil(1899, 12, 31) ELSE DaysFromCivil(1904, 1, 1)
MaxSerial(system) ==
  DaysFromCivil(9999, 12, 31) - Anchor(system) + (IF system = "Excel1900" THEN 1 ELSE 0)

CheckSerialDomain(serial, system) ==
  IF system = "Excel1900" /\ serial = 0 THEN JanuaryZero
  ELSE IF serial \notin 0..MaxSerial(system) THEN OutOfRange ELSE Num(serial)

SerialToYmd(serial, system) ==
  IF CheckSerialDomain(serial, system) # Num(serial) THEN CheckSerialDomain(serial, system)
  ELSE IF system = "Excel1900" /\ serial = 60 THEN Day(1900, 2, 29)
  ELSE CivilFromDays(Anchor(system) + serial - (IF system = "Excel1900" /\ serial > 60 THEN 1 ELSE 0))

\* Fault: the day that never was is not skipped before 1900-03-01.
PhantomDays_Late(base) == IF base <= 60 THEN 0 ELSE 1

(* The days to add for the one that never was. *)
PhantomDays(base) == IF base <= 59 THEN 0 ELSE 1

(* The serial of a day `shift` days after the first of the month that is     *)
(* `months` months after January of year 0, if the calendar is asked for the *)
(* year at all (YEAR_GUARD).                                                 *)
FirstOfMonthSerial(base, system) == base + (IF system = "Excel1900" THEN PhantomDays(base) ELSE 0)
MonthSerial(months, shift, system) ==
  LET base == DaysFromCivil(months \div 12, (months % 12) + 1, 1) - Anchor(system)
  IN IF months \div 12 \notin -1..11000 THEN OutOfRange
     ELSE CheckSerialDomain(FirstOfMonthSerial(base, system) + shift, system)

DateToSerial(y, m, d, system) == MonthSerial(12 * y + m - 1, d - 1, system)

EomonthSerial(start, months, system) ==
  LET Ends(day) == IF IsDay(day) THEN MonthSerial(12 * day[2] + day[3] + months, -1, system) ELSE day
  IN Ends(SerialToYmd(start, system))

MapDateError(r) == IF r = JanuaryZero THEN Unsupported ELSE r

-----------------------------------------------------------------------------
(* The functions of a day or two. The arguments are coerced in their order,  *)
(* each checked before the next is read.                                     *)

OnArgs(args, F(_)) == IF Refused(args) # <<>> THEN Refused(args)[1] ELSE F(args)

DATE(year, month, day, system) ==
  LET Full(y) == IF y \in 0..1899 THEN y + 1900 ELSE y
      Shown(serial) == IF serial = JanuaryZero THEN Num(0) ELSE serial
  IN OnArgs(<<ToNumber(year), ToNumber(month), ToNumber(day)>>,
            LAMBDA args : Shown(DateToSerial(Full(args[1][2]), args[2][2], args[3][2], system)))

(* January 0, 1900 has a year, a month and a day to these three only. *)
Component(serial, system, i) ==
  LET Part(day) == IF day = JanuaryZero THEN Num(<<1900, 1, 0>>[i])
                   ELSE IF IsDay(day) THEN Num(day[i + 1]) ELSE day
  IN OnArgs(<<ToNumber(serial)>>, LAMBDA args : Part(SerialToYmd(args[1][2], system)))

YEAR(serial, system) == Component(serial, system, 1)
MONTH(serial, system) == Component(serial, system, 2)
DAY(serial, system) == Component(serial, system, 3)

(* A date argument: its serial and its day, or the error. *)
Resolve(value, system) ==
  OnArgs(<<ToNumber(value)>>, LAMBDA args : MapDateError(SerialToYmd(args[1][2], system)))

EOMONTH(start, months, system) ==
  OnArgs(<<ToNumber(start), ToNumber(months)>>,
         LAMBDA args : MapDateError(EomonthSerial(args[1][2], args[2][2], system)))

(* The day of the month is kept, or cut to the last of the month. *)
EDATE(start, months, system) ==
  LET Within(day, end) ==
        IF ~IsDay(end) THEN end
        ELSE MapDateError(DateToSerial(end[2], end[3], Min({day[4], end[4]}), system))
      Counted(day, last) == IF last[1] = "num" THEN Within(day, Resolve(last, system)) ELSE MapDateError(last)
      Shifted(day, by) == IF IsDay(day[1]) THEN Counted(day[1], EomonthSerial(day[2], by, system))
                               ELSE day[1]
  IN OnArgs(<<ToNumber(start), ToNumber(months)>>,
            LAMBDA args : Shifted(<<Resolve(args[1], system), args[1][2]>>, args[2][2]))

WEEKDAY(serial, type, system) ==
  LET Numbered(t, sundayBased) ==
        CASE t = 1 -> Num(sundayBased)
          [] t = 2 -> Num(((sundayBased - 2) % 7) + 1)
          [] t = 3 -> Num((sundayBased - 2) % 7)
          [] t \in 11..17 -> Unsupported
          [] OTHER -> OutOfRange
  IN OnArgs(<<Resolve(serial, system), ToNumber(Omittable(type, Num(1)))>>,
            LAMBDA args : Numbered(args[2][2], ((ToNumber(serial)[2] - 1) % 7) + 1))

-----------------------------------------------------------------------------
(* Working days. The holidays are read cell by cell, and text is refused.    *)

IsWeekend(serial) == (serial - 1) % 7 \in {0, 6}

HolidayParts(cells) ==
  [i \in DOMAIN cells |->
     CASE cells[i][1] \in {"num", "err"} -> cells[i] [] IsBlank(cells[i]) -> Skip [] OTHER -> BadValue]

WorksOn(serial, holidays) == ~IsWeekend(serial) /\ Num(serial) \notin Range(holidays)

NETWORKDAYS(start, end, cells, system) ==
  LET Counted(first, last, holidays) ==
        IF last < first THEN Unsupported
        ELSE Num(Cardinality({s \in first..last : WorksOn(s, holidays)}))
  IN OnArgs(<<Resolve(start, system), Resolve(end, system)>> \o HolidayParts(cells),
            LAMBDA args : Counted(ToNumber(start)[2], ToNumber(end)[2], SubSeq(args, 3, Len(args))))

Ceiling == 2958465  \* SERIAL_CEILING

\* Fault: a holiday is skipped, but the step is spent.
Remaining_Spent(remaining, serial, holidays) ==
  IF IsWeekend(serial) THEN remaining ELSE remaining - 1

(* What is left to walk once the walk is on a day. *)
Remaining(remaining, serial, holidays) ==
  IF WorksOn(serial, holidays) THEN remaining - 1 ELSE remaining

(* The walk ends on the day that spends the last step, or off the calendar.  *)
(* It meets a working day at least every seven days and one per holiday.     *)
WORKDAY(start, days, cells, system) ==
  LET Walked(walk, step, holidays) ==
        IF walk.left = 0 \/ walk.at \notin 0..Ceiling THEN walk
        ELSE [at |-> walk.at + step, left |-> Remaining(walk.left, walk.at + step, holidays)]
      End(from, n, steps, holidays) ==
        FoldLeft(LAMBDA walk, i : Walked(walk, IF n < 0 THEN -1 ELSE 1, holidays),
                 [at |-> from, left |-> steps], All(7 * (steps + Len(cells)))).at
      Landed(serial) == OnArgs(<<Resolve(Num(serial), system)>>, LAMBDA day : Num(serial))
  IN OnArgs(<<Resolve(start, system), ToNumber(days)>> \o HolidayParts(cells),
            LAMBDA args : Landed(End(ToNumber(start)[2], args[2][2], Max({args[2][2], -args[2][2]}),
                                     SubSeq(args, 3, Len(args)))))

-----------------------------------------------------------------------------
(* A year of twelve months of thirty days.                                   *)

IsLeapYear(y) == y % 4 = 0 /\ (y % 100 # 0 \/ y % 400 = 0)
DaysInMonth(y, m, system) ==
  CASE m = 2 -> IF (system = "Excel1900" /\ y = 1900) \/ IsLeapYear(y) THEN 29 ELSE 28
    [] m \in {4, 6, 9, 11} -> 30
    [] OTHER -> 31

Months360(a, b, d1, d2) == Num((b[2] - a[2]) * 360 + (b[3] - a[3]) * 30 + (d2 - d1))
Cut(d) == IF d = 31 THEN 30 ELSE d

UsAdjusted(a, b, system) ==
  LET d1 == IF a[4] = DaysInMonth(a[2], a[3], system) THEN 30 ELSE a[4]
  IN IF b[4] = DaysInMonth(b[2], b[3], system) /\ b[4] < 30 THEN Unsupported
     ELSE Months360(a, b, d1, IF d1 = 30 THEN Cut(b[4]) ELSE b[4])
EuropeanAdjusted(a, b) == Months360(a, b, Cut(a[4]), Cut(b[4]))

DAYS360(start, end, method, system) ==
  OnArgs(<<Resolve(start, system), Resolve(end, system), ToBool(Omittable(method, Truth(FALSE)))>>,
         LAMBDA args : IF args[3][2] THEN EuropeanAdjusted(args[1], args[2])
                       ELSE UsAdjusted(args[1], args[2], system))

Per(n, days) == IF IsErr(n) THEN n ELSE <<"mean", n[2], days>>

YEARFRAC(start, end, basis, system) ==
  LET Later(a, b, days, n) ==
        CASE n = 0 -> Per(UsAdjusted(a, b, system), 360)
          [] n = 1 -> Unsupported
          [] n = 2 -> Per(Num(days), 360)
          [] n = 3 -> Per(Num(days), 365)
          [] n = 4 -> Per(EuropeanAdjusted(a, b), 360)
      Fraction(a, b, days, n) ==
        IF n \notin 0..4 THEN OutOfRange
        ELSE IF days = 0 THEN Num(0)
        ELSE IF days < 0 THEN Unsupported ELSE Later(a, b, days, n)
  IN OnArgs(<<Resolve(start, system), Resolve(end, system), ToNumber(basis)>>,
            LAMBDA args : Fraction(args[1], args[2], ToNumber(end)[2] - ToNumber(start)[2], args[3][2]))

-----------------------------------------------------------------------------
(* Dates and times in a text (coerce.rs parse_datetime_text). Its words are  *)
(* numbers <<"digits", how many, value>>, months <<"month", m>> or others,   *)
(* between separators; a clock of two or three numbers may follow, or stand  *)
(* alone, and AM or PM may follow the clock.                                 *)

DateText(words, sep, clock, meridiem) ==
  [words |-> words, sep |-> sep, clock |-> clock, meridiem |-> meridiem]

IsDigits(w) == w[1] = "digits"
IsMonth(w) == w[1] = "month"

LooksLikeDatetime(t) ==
  \/ Len(t.clock) > 1
  \/ t.sep # " " /\ \E i \in 2..Len(t.words) : IsDigits(t.words[i - 1]) /\ IsDigits(t.words[i])
  \/ \E i, j \in DOMAIN t.words : IsMonth(t.words[i]) /\ IsDigits(t.words[j])

(* Two digits of a year stand for 1930 to 2029. *)
ParseYear(w) ==
  IF ~IsDigits(w) THEN Unsupported
  ELSE Num(IF w[2] > 2 THEN w[3] ELSE IF w[3] <= 29 THEN 2000 + w[3] ELSE 1900 + w[3])
ParseYearWide(w) == IF IsDigits(w) /\ w[2] < 3 THEN Unsupported ELSE ParseYear(w)
ParseDigits(w) == IF IsDigits(w) THEN Num(w[3]) ELSE Unsupported

FinishYmd(y, m, d) ==
  LET parts == <<y, m, d>>
  IN IF Refused(parts) # <<>> \/ <<y[2], m[2], d[2]>> = <<1900, 2, 29>> THEN Unsupported
     ELSE IF m[2] \in 1..12 /\ d[2] \in 1..DaysInMonth(y[2], m[2], "Excel1904") THEN Day(y[2], m[2], d[2])
     ELSE BadValue

ParseMonthNameDate(w, n) ==
  LET months == {i \in DOMAIN w : IsMonth(w[i])}
      month == Num(w[Min(months)][2])
  IN IF Cardinality(months) # 1 THEN Unsupported
     ELSE CASE n = 2 /\ months = {1} -> FinishYmd(ParseYearWide(w[2]), month, Num(1))
            [] n = 3 /\ months = {1} -> FinishYmd(ParseYearWide(w[3]), month, ParseDigits(w[2]))
            [] n = 3 /\ months = {2} -> FinishYmd(ParseYear(w[3]), month, ParseDigits(w[1]))
            [] OTHER -> Unsupported

(* Month, day and year between slashes; year, month and day between dashes. *)
ParseDatePart(t) ==
  LET w == t.words
  IN CASE \E i \in DOMAIN w : ~IsDigits(w[i]) ->
            IF t.sep = "/" THEN Unsupported ELSE ParseMonthNameDate(w, Len(w))
       [] t.sep = "/" /\ Len(w) = 3 /\ w[1][2] < 3 ->
            FinishYmd(ParseYear(w[3]), ParseDigits(w[1]), ParseDigits(w[2]))
       [] t.sep = "-" /\ Len(w) = 3 -> FinishYmd(ParseYearWide(w[1]), ParseDigits(w[2]), ParseDigits(w[3]))
       [] OTHER -> Unsupported

(* Missing seconds are none; an hour, a minute or a second too many refuse.  *)
Seconds(clock) == clock[1] * 3600 + clock[2] * 60 + (IF Len(clock) = 3 THEN clock[3] ELSE 0)
OnTheClock(clock, hours) ==
  Len(clock) \in {2, 3} /\ clock[1] \in hours /\ \A i \in 2..Len(clock) : clock[i] \in 0..59

NotDateTime == <<"other">>
NoDate == <<"nodate">>

(* The day, NoDate before a clock that stands alone, or what refuses. *)
ParseDatetimeText(t) ==
  IF ~LooksLikeDatetime(t) THEN NotDateTime
  ELSE IF t.clock # <<>> /\ (t.meridiem # "" \/ ~OnTheClock(t.clock, 0..23)) THEN Unsupported
  ELSE IF t.words = <<>> THEN NoDate ELSE ParseDatePart(t)

\* Fault: the day that never was is not counted.
YmdToSerial1900_Real(y, m, d) ==
  LET base == DaysFromCivil(y, m, d) - DaysFromCivil(1899, 12, 31)
  IN IF base \in 1..Ceiling THEN Num(base) ELSE Unsupported

(* The serial of a day that is one; xl-value cannot ask the workbook for its *)
(* system.                                                                   *)
YmdToSerial1900(y, m, d) ==
  LET base == DaysFromCivil(y, m, d) - DaysFromCivil(1899, 12, 31)
      serial == IF base >= 60 THEN base + 1 ELSE base
  IN IF serial \in 1..Ceiling THEN Num(serial) ELSE Unsupported

(* The text as a number: a serial, and a time of day in seconds. What looks  *)
(* like neither is read on as a plain number, which is not modelled here.    *)
CoerceDateText(t) ==
  LET day == ParseDatetimeText(t)
      serial == IF day = NoDate THEN Num(0) ELSE YmdToSerial1900(day[2], day[3], day[4])
  IN IF IsErr(day) \/ day = NotDateTime THEN day
     ELSE IF IsErr(serial) \/ t.clock = <<>> THEN serial ELSE <<"time", serial[2], Seconds(t.clock)>>

DATEVALUE(t, system) ==
  LET day == ParseDatetimeText(t)
      serial == DateToSerial(day[2], day[3], day[4], system)
  IN CASE IsErr(day) -> day
       [] day = NotDateTime -> BadValue
       [] day = NoDate -> Num(0)
       [] OTHER -> IF serial[1] = "num" THEN serial ELSE Unsupported

(* HOUR of a text that looks like a date or a time: it reads a clock with AM *)
(* or PM itself, which arithmetic refuses.                                   *)
HOUR(t) ==
  LET time == CoerceDateText(t)
      hour == (t.clock[1] % 12) + (IF t.meridiem = "PM" THEN 12 ELSE 0)
  IN CASE time[1] = "time" -> Num((time[3] \div 3600) % 24)
       [] time[1] = "num" -> Num(0)
       [] t.words = <<>> /\ t.meridiem # "" /\ OnTheClock(t.clock, 1..12) -> Num(hour)
       [] OTHER -> Unsupported

-----------------------------------------------------------------------------
(* What the functions promise one another.                                   *)

(* The days about the start of the calendars, the day that never was, leap   *)
(* years that are and are not, the end, and beyond both ends.                *)
SampleSerials(system) ==
  LET last == MaxSerial(system)
  IN (-1..63) \union (1457..1465) \union (36520..36590) \union (73045..73112) \union ((last - 35)..(last + 1))

Tomorrow(day, system) ==
  CASE day[4] < DaysInMonth(day[2], day[3], system) -> Day(day[2], day[3], day[4] + 1)
    [] day[4] = DaysInMonth(day[2], day[3], system) /\ day[3] < 12 -> Day(day[2], day[3] + 1, 1)
    [] OTHER -> Day(day[2] + 1, 1, 1)

Shifts == {-1, 0, 1, 11, 12, 13}

(* The four ways to write a day, and one of the day's last second.           *)
Written(day) ==
  LET y == <<"digits", 4, day[2]>>
      m == <<"digits", 1, day[3]>>
      d == <<"digits", 2, day[4]>>
      word == <<"month", day[3]>>
  IN {DateText(<<m, d, y>>, "/", clock, "") : clock \in {<<>>, <<23, 59, 59>>}}
     \union {DateText(<<y, m, d>>, "-", <<>>, ""), DateText(<<word, d, y>>, " ", <<>>, ""),
             DateText(<<d, word, y>>, "-", <<>>, "")}

(* The calendar by formula is the calendar counted day by day, in both       *)
(* systems, with the day of 1900 that never was and up to both ends; DATE    *)
(* puts back together what YEAR, MONTH and DAY take apart, day 0 included,   *)
(* and counts on when a month or a day is beyond its bounds; EDATE and       *)
(* EOMONTH land in the same month, a twelfth of YEARFRAC's thirty-day year   *)
(* away for each month but for the days cut off; and a day written in any of *)
(* four ways reads back as that day to DATEVALUE and, in the 1900 system, to *)
(* arithmetic - but for the day that never was, which both refuse.           *)
(* (datecore.rs, coerce.rs ymd_to_serial_1900, func_date.rs, func_edate.rs)  *)
CalendarIsCounted ==
  <<keys, results>> = <<<<>>, <<>>>> =>
    /\ SerialToYmd(1, "Excel1900") = Day(1900, 1, 1) /\ SerialToYmd(0, "Excel1904") = Day(1904, 1, 1)
    /\ \A system \in Systems : \A s \in SampleSerials(system) : \A day \in {SerialToYmd(s, system)} :
         /\ IF s \in 0..MaxSerial(system)
            THEN DATE(YEAR(Num(s), system), MONTH(Num(s), system), DAY(Num(s), system), system) = Num(s)
            ELSE day = OutOfRange
         /\ IsDay(day) =>
              /\ s < MaxSerial(system) => SerialToYmd(s + 1, system) = Tomorrow(day, system)
              /\ \A k \in Shifts :
                   LET first == DATE(Num(day[2]), Num(day[3] + k), Num(1), system)
                       end == EOMONTH(Num(s), Num(k), system)
                       landed == EDATE(Num(s), Num(k), system)
                       cut == Cut(SerialToYmd(landed[2], system)[4]) - Cut(day[4])
                       counted == first[2] + day[4] - 41
                   IN IF IsErr(first) THEN IsErr(end) /\ landed = end
                      ELSE /\ end = DATE(Num(day[2]), Num(day[3] + k + 1), Num(0), system)
                           /\ landed = Num(Min({end[2], first[2] + day[4] - 1}))
                           /\ k > 0 => YEARFRAC(Num(s), landed, Num(4), system) = <<"mean", 30 * k + cut, 360>>
                           /\ DATE(Num(day[2]), Num(day[3] + k), Num(day[4] - 40), system)
                                = IF counted < 0 THEN OutOfRange ELSE Num(counted)
              /\ \A t \in Written(day) :
                   IF day = Day(1900, 2, 29) THEN {DATEVALUE(t, system), CoerceDateText(t)} = {Unsupported}
                   ELSE /\ DATEVALUE(t, system) = Num(s)
                        /\ system = "Excel1900" => CoerceDateText(t) \in {Num(s), <<"time", s, 86399>>}
                        /\ t.clock # <<>> => HOUR(t) = Num(23)

(* Holidays about a day: the numbers of the line of keys, from that day on.  *)
Holidays(base) ==
  [p \in 1..LastCell |->
     IF p - 1 \notin DOMAIN keys THEN Blank
     ELSE IF keys[p - 1][1] = "num" THEN Num(base + keys[p - 1][2]) ELSE keys[p - 1]]

(* The day that never was and a leap year's February; without holidays, both *)
(* ends of the calendar too.                                                 *)
SpanBases(system) == {58, 43887} \union (IF keys = <<>> THEN {4, MaxSerial(system) - 6} ELSE {})

(* Spans of days add up. Two spans that meet have the working days of the    *)
(* span they make and, by the European year of thirty-day months, its days;  *)
(* the American year differs only after an end of February, or up to a 31st, *)
(* and refuses an end of February. WORKDAY inverts the count: n days on is   *)
(* the first day with n working days after the start, n days back the last   *)
(* with n before it, or there is none on the calendar; both refuse the same  *)
(* holidays; and without holidays the working days are WEEKDAY's first five. *)
(* (func_networkdays.rs, func_workday.rs, func_days360.rs, func_weekday.rs)  *)
SpansAddUp ==
  results = <<>> =>
    \A system \in Systems : \A base \in SpanBases(system) :
      LET cells == Holidays(base)
          near == (base - 3)..(base + 6)
          refused == Refused(HolidayParts(cells))
          Count(s, e) == IF e < s THEN Num(0) ELSE NETWORKDAYS(Num(s), Num(e), cells, system)
          until == [e \in near |-> Count(base - 3, e)]
          European(s, e) == DAYS360(Num(s), Num(e), Truth(TRUE), system)
          EndsFebruary(day) == day[3] = 2 /\ day[4] = DaysInMonth(day[2], 2, system)
      IN /\ \A s \in near, n \in {-3, -1, 1, 3} :
              LET end == WORKDAY(Num(s), Num(n), cells, system)
                  d == end[2]
              IN CASE refused # <<>> -> {end, until[s]} = {refused[1]}
                   [] IsErr(end) -> end = OutOfRange /\ base # 43887
                   [] d \in near /\ d > s -> Count(s + 1, d) = Num(n) /\ Count(s + 1, d - 1) = Num(n - 1)
                   [] d \in near /\ d < s -> Count(d, s - 1) = Num(-n) /\ Count(d + 1, s - 1) = Num(-n - 1)
                   [] OTHER -> d # s
         /\ refused = <<>> =>
              \A m, e \in near : m < e => until[e][2] = until[m][2] + Count(m + 1, e)[2]
         /\ keys = <<>> =>
              \A s, m, e \in near : (s <= m /\ m <= e) =>
                LET start == SerialToYmd(s, system)
                    end == SerialToYmd(e, system)
                    us == DAYS360(Num(s), Num(e), Elided, system)
                IN /\ European(s, e)[2] = European(s, m)[2] + European(m, e)[2]
                   /\ IF EndsFebruary(end) THEN us = Unsupported
                      ELSE us = European(s, e) \/ EndsFebruary(start) \/ end[4] = 31
                   /\ (Count(e, e) = Num(1)) = (WEEKDAY(Num(e), Num(2), system)[2] <= 5)

(* The dates of the engine are those of one calendar: a day has the number   *)
(* counted for it, and spans of days have theirs.                            *)
(* (datecore.rs, func_networkdays.rs, func_workday.rs, func_days360.rs)      *)
DaysAddUp == CalendarIsCounted /\ SpansAddUp
=============================================================================
