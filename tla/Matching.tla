----------------------------- MODULE Matching ------------------------------
(***************************************************************************)
(* How sizes, dates and names are read and compared: by the client before  *)
(* a command is sent (main.c: is_arg_number, validate_date) and by the     *)
(* child (stringutils.h: is_number, extcmp, ulong_to_string; dateutil.h).  *)
(* The two sides read the same text by different rules.                    *)
(***************************************************************************)
EXTENDS Integers

CONSTANTS
    IntHalf,   \* 2^31: the values of an int are -IntHalf .. IntHalf - 1
    Today      \* the client's date, [day, month, year]

ASSUME MatchingAssumption ==
    /\ IntHalf \in Nat \ {0}
    /\ Today \in [day : 1 .. 31, month : 1 .. 12, year : Nat]

-----------------------------------------------------------------------------
(***************************************************************************)
(* Sizes: a text [value, digits] of a number, and whether it has digits    *)
(* only ("12x" is 12 to atoi).                                             *)
(***************************************************************************)
\* Conversion to int.
int(n) == ((n + IntHalf) % (2 * IntHalf)) - IntHalf

atoi(text) == int(text.value)
atoll(text) == text.value

is_arg_number(text) == atoi(text) > 0
is_number(text) == text.digits

\* Mutant: the upper bound does not belong to the range.
InRangeBelow(size, min, max) == size >= min /\ size < max

InRange(size, min, max) == size >= min /\ size <= max

Unwritten == -1

\* Mutant: the last digit is lost.
SizeTextShort(size) == size \div 10
\* What ulong_to_string makes of a size: for 0 no digit is written, and the text is what
\* the memory held.
SizeText(size) == IF size = 0 THEN Unwritten ELSE size

(***************************************************************************)
(* Dates: a text [style, day, month, year] is written 31/12/2023           *)
(* ("digits"), 31/Dec/2023 ("month") or 2023-12-31 ("iso").                *)
(***************************************************************************)
\* Days since 1 January 1970, from months that begin in March.
DayNumber(d) ==
    LET back == (14 - d.month) \div 12
        y == d.year - back
        m == d.month + 12 * back - 3
    IN  (153 * m + 2) \div 5 + d.day + 365 * y + y \div 4 - y \div 100 + y \div 400 - 719469

\* strptime, by its format.
ParsesDigits(d) == d.style = "digits" /\ d.day \in 1 .. 31 /\ d.month \in 1 .. 12
ParsesMonth(d) == d.style = "month" /\ d.day \in 1 .. 31 /\ d.month \in 1 .. 12

\* Mutant: every fourth year is a leap year.
LeapFourth(year) == year % 4 = 0
Leap(year) == (year % 4 = 0 /\ year % 100 # 0) \/ year % 400 = 0

LastDay(month, year) ==
    CASE month = 2 -> IF Leap(year) THEN 29 ELSE 28
      [] month \in {4, 6, 9, 11} -> 30
      [] OTHER -> 31

\* The client's clock shows a date there is.
ASSUME TodayAssumption == Today.day <= LastDay(Today.month, Today.year)

AfterToday(d) ==
    \/ d.year > Today.year
    \/ d.year = Today.year /\ d.month > Today.month
    \/ d.year = Today.year /\ d.month = Today.month /\ d.day > Today.day

validate_date(d) == ParsesDigits(d) /\ d.day <= LastDay(d.month, d.year) /\ ~AfterToday(d)

\* Days instead of seconds; 0 if the text is not understood.
to_seconds(d) == IF ParsesMonth(d) THEN DayNumber(d) ELSE 0

is_before(f_date, u_date) == ~(f_date <= u_date)
is_after(f_date, u_date) == ~(f_date >= u_date)

(***************************************************************************)
(* Names: a file [name, long, ext, above, size, birth] has a name of five  *)
(* characters or more (long), and ext is what follows its last period,     *)
(* with it, or "none".  Then above is what follows the last period of the  *)
(* directories, up to the end of the path, or "none".                      *)
(***************************************************************************)
\* The search for the period does not end at the start of the name, nor of the path.
Beyond(f) == f.long /\ f.ext = "none" /\ f.above = "none"

extcmp(f, ext) == f.long /\ (IF f.ext = "none" THEN f.above ELSE f.ext) = ext

=============================================================================
