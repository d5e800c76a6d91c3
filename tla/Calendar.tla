------------------------------ MODULE Calendar ------------------------------
(***************************************************************************)
(* The validity window of an epoch (stix.rs, epoch_validity_window): an    *)
(* epoch is read as a YYYYMMDD number and is valid for that day.  A date   *)
(* is written here as the number its timestamp spells, so that one day is  *)
(* one number.                                                             *)
(***************************************************************************)
EXTENDS Integers

Year(epoch) == epoch \div 10000
Month(epoch) == (epoch \div 100) % 100
Day(epoch) == epoch % 100
Date(y, m, d) == y * 10000 + m * 100 + d

Leap(y) == (y % 4 = 0 /\ y % 100 # 0) \/ y % 400 = 0

DaysInMonth(y, m) ==
    CASE m \in {1, 3, 5, 7, 8, 10, 12} -> 31
      [] m \in {4, 6, 9, 11} -> 30
      [] m = 2 -> IF Leap(y) THEN 29 ELSE 28

\* The epochs that have a window: YYYYMMDD dates of years with four digits.
IsDate(epoch) ==
    /\ Year(epoch) \in 1970..9999
    /\ Month(epoch) \in 1..12
    /\ Day(epoch) \in 1..DaysInMonth(Year(epoch), Month(epoch))

NextDate(epoch) ==
    LET y == Year(epoch)
        m == Month(epoch)
        d == Day(epoch)
    IN  CASE d < DaysInMonth(y, m) -> Date(y, m, d + 1)
          [] d = DaysInMonth(y, m) /\ m < 12 -> Date(y, m + 1, 1)
          [] d = DaysInMonth(y, m) /\ m = 12 -> Date(y + 1, 1, 1)

ValidFrom(epoch) == epoch
ValidUntil(epoch) == NextDate(epoch)

----------------------------------------------------------------------------
(* The reference: days counted by the Gregorian rule, years from March.    *)

\* The last date there is: the day after it is in a year of five digits.
LastDate == 99991231

DayNumber(date) ==
    LET y == IF Month(date) <= 2 THEN Year(date) - 1 ELSE Year(date)
        m == IF Month(date) <= 2 THEN Month(date) + 9 ELSE Month(date) - 3
    IN  365 * y + y \div 4 - y \div 100 + y \div 400 + (153 * m + 2) \div 5 + Day(date)

\* The dates of a year are consecutive days, as many as there are until the next year,
\* and the window of each is that one day.
YearIsRight(y) ==
    LET numbers == {e \in {Date(y, m, d) : m \in 0..13, d \in 0..32} : IsDate(e)}
        first == DayNumber(Date(y, 1, 1))
    IN  /\ {DayNumber(e) : e \in numbers} = first..(DayNumber(Date(y + 1, 1, 1)) - 1)
        /\ \A e \in numbers : DayNumber(ValidUntil(e)) = DayNumber(ValidFrom(e)) + 1

=============================================================================
