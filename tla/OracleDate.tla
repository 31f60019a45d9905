------------------------------ MODULE OracleDate ------------------------------
(***************************************************************************)
(* Oracle's internal DATE and TIMESTAMP, and the proleptic Gregorian        *)
(* calendar between them and DuckDB's microseconds since 1970-01-01.  The   *)
(* calendar is the real one; the units of a day are constants, so that the  *)
(* microseconds of every Oracle year lie within TLC's integers.             *)
(***************************************************************************)
EXTENDS Integers, Sequences

CONSTANTS
  kMicrosPerSecond,  \* 1000000
  SecondsPerMinute,  \* 60
  MinutesPerHour,    \* 60
  HoursPerDay        \* 24

ASSUME DateAssumption ==
  /\ kMicrosPerSecond \in Nat \ {0} /\ SecondsPerMinute \in Nat \ {0}
  /\ MinutesPerHour \in Nat \ {0} /\ HoursPerDay \in Nat \ {0}

SecondsPerHour == MinutesPerHour * SecondsPerMinute
kMicrosPerDay  == HoursPerDay * SecondsPerHour * kMicrosPerSecond
kNanosPerSecond == 1000 * kMicrosPerSecond

(* Floor division, from C++'s division towards zero. *)
MutSplitMicros(micros) ==  \* the day is not adjusted below zero
  [days |-> IF micros < 0 THEN -((-micros) \div kMicrosPerDay) ELSE micros \div kMicrosPerDay,
   micros |-> micros % kMicrosPerDay]

SplitMicros(micros) == [days |-> micros \div kMicrosPerDay, micros |-> micros % kMicrosPerDay]

(* Eras of 400 years from 0000-03-01; the years start in March. *)
CivilInYear(year, doy) ==
  LET mp == (5 * doy + 2) \div 153
      month == IF mp < 10 THEN mp + 3 ELSE mp - 9
  IN [year |-> year + (IF month <= 2 THEN 1 ELSE 0),
      month |-> month,
      day |-> doy - ((153 * mp + 2) \div 5) + 1]

CivilInEra(era, doe) ==
  LET yoe == (doe - (doe \div 1460) + (doe \div 36524) - (doe \div 146096)) \div 365
  IN CivilInYear(yoe + era * 400, doe - (365 * yoe + (yoe \div 4) - (yoe \div 100)))

CivilFromDays(days) ==
  LET z == days + 719468 IN CivilInEra(z \div 146097, z % 146097)

DaysFromCivil(year, month, day) ==
  LET y == IF month <= 2 THEN year - 1 ELSE year
      era == y \div 400
      yoe == y - era * 400
      doy == ((153 * (IF month > 2 THEN month - 3 ELSE month + 9) + 2) \div 5) + day - 1
  IN era * 146097 + yoe * 365 + (yoe \div 4) - (yoe \div 100) + doy - 719468

-----------------------------------------------------------------------------
InOracleRange(civil) == civil.year \in 1 .. 9999

(* Seven bytes, the fraction of a second dropped; <<>> outside the range. *)
DateBytes(civil, seconds) ==
  IF ~InOracleRange(civil) THEN <<>>
  ELSE <<(civil.year \div 100) + 100, (civil.year % 100) + 100, civil.month, civil.day,
         (seconds \div SecondsPerHour) + 1,
         ((seconds \div SecondsPerMinute) % MinutesPerHour) + 1,
         (seconds % SecondsPerMinute) + 1>>

EncodeOracleDate(days, micros_of_day) ==
  DateBytes(CivilFromDays(days), micros_of_day \div kMicrosPerSecond)

BigEndian(n) == <<n \div 16777216, (n \div 65536) % 256, (n \div 256) % 256, n % 256>>

(* Four more bytes for a fraction, none without one. *)
Fraction(nanos) == IF nanos = 0 THEN <<>> ELSE BigEndian(nanos)

EncodeOracleTimestamp(days, micros_of_day) ==
  LET date == EncodeOracleDate(days, micros_of_day)
  IN IF date = <<>> THEN <<>> ELSE date \o Fraction((micros_of_day % kMicrosPerSecond) * 1000)

(* FormatDateTimeText: the text by its fields, <<>> outside the range. *)
DateText(civil, seconds, micros) ==
  IF ~InOracleRange(civil) THEN <<>>
  ELSE <<civil.year, civil.month, civil.day, seconds \div SecondsPerHour,
         (seconds \div SecondsPerMinute) % MinutesPerHour, seconds % SecondsPerMinute, micros>>

FormatDateTimeText(days, micros_of_day) ==
  DateText(CivilFromDays(days), micros_of_day \div kMicrosPerSecond, micros_of_day % kMicrosPerSecond)

-----------------------------------------------------------------------------
(* The microseconds, or why not. *)
NoDate == [ok |-> FALSE, micros |-> 0]

(* Oracle has no year 0: 1 BC is year -1 in the bytes and 0 in the calendar. *)
CalendarYear(oracle_year) == IF oracle_year < 0 THEN oracle_year + 1 ELSE oracle_year

DecodeOracleDate(bytes) ==
  LET oracle_year == (bytes[1] - 100) * 100 + (bytes[2] - 100)
      year == CalendarYear(oracle_year)
      month == bytes[3]
      day == bytes[4]
      days == DaysFromCivil(year, month, day)
      seconds == ((bytes[5] - 1) * MinutesPerHour + (bytes[6] - 1)) * SecondsPerMinute + (bytes[7] - 1)
      InRange ==
        /\ oracle_year \in -4712 .. 9999 \ {0}
        /\ month \in 1 .. 12 /\ day \in 1 .. 31
        /\ bytes[5] \in 1 .. HoursPerDay /\ bytes[6] \in 1 .. MinutesPerHour
        /\ bytes[7] \in 1 .. SecondsPerMinute
  IN IF InRange /\ CivilFromDays(days) = [year |-> year, month |-> month, day |-> day]
       THEN [ok |-> TRUE, micros |-> days * kMicrosPerDay + seconds * kMicrosPerSecond]
       ELSE NoDate

DecodeOracleTimestamp(bytes) ==
  LET date == DecodeOracleDate(bytes)
      nanos == ((bytes[8] * 256 + bytes[9]) * 256 + bytes[10]) * 256 + bytes[11]
  IN IF Len(bytes) \notin {7, 11} THEN NoDate
     ELSE IF ~date.ok \/ Len(bytes) = 7 THEN date
     ELSE IF nanos >= kNanosPerSecond THEN NoDate
     ELSE [date EXCEPT !.micros = @ + (nanos \div 1000)]
=============================================================================
