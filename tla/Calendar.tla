------------------------------ MODULE Calendar ------------------------------
(***************************************************************************)
(* calendar.c: the month or the year printed for the command line.  A page *)
(* is what is printed for one month: the column its first day is in and    *)
(* its number of days.  Columns are counted from Sunday, 0.                *)
(***************************************************************************)
EXTENDS Integers, Sequences

CONSTANTS FirstYear, LastYear   \* BOUND: the years that may be asked for

ASSUME YearAssumption == FirstYear \in Nat \ {0} /\ LastYear \in Nat

VARIABLES
  year, asked,     \* the command line; asked is 0 without a month
  month,           \* main()'s loop variable
  days_in_month,   \* the global table
  pages,           \* the pages printed
  on               \* FALSE once main() has returned

calendarVars == <<year, asked, month, days_in_month, pages, on>>

MonthDays == <<31, 28, 31, 30, 31, 30, 31, 31, 30, 31, 30, 31>>

CalendarInit ==
  /\ year \in FirstYear .. LastYear /\ asked \in 0 .. 13
  /\ month = asked
  /\ days_in_month = MonthDays
  /\ pages = <<>>
  /\ on = TRUE

-----------------------------------------------------------------------------
leap_year(yr) == (yr % 4 = 0 /\ yr % 100 # 0) \/ yr % 400 = 0

\* The number of days before the month, January counting as none.  Inclusive:
\* the loop includes the month itself.
Inclusive(table, m) ==
  LET sum[i \in 0 .. m] == IF i = 0 THEN 0 ELSE sum[i - 1] + table[i] IN sum[m]
DaysBefore(table, m) ==
  LET sum[i \in 0 .. m - 1] == IF i = 0 THEN 0 ELSE sum[i - 1] + table[i] IN sum[m - 1]

\* getdaycode(): February grows first.  Short: it does not.
Short == days_in_month
Table == IF leap_year(year) THEN [days_in_month EXCEPT ![2] = 29] ELSE days_in_month
DayCode(yr, table, m) ==
  LET y == yr - 1 IN
  (yr + y \div 4 - y \div 100 + y \div 400 + DaysBefore(table, m)) % 7

\* calendar()
Page(m) ==
  /\ days_in_month' = Table
  /\ pages' = Append(pages, [month |-> m, start |-> DayCode(year, Table, m), days |-> Table[m]])

\* main(): a single month, ...
OneMonth ==
  /\ on /\ pages = <<>>
  /\ asked > 0 /\ asked < 12
  /\ Page(asked)
  /\ on' = FALSE
  /\ UNCHANGED <<year, asked, month>>

\* ... or else the loop over all of them.
AllMonths ==
  /\ on /\ pages = <<>>
  /\ ~ (asked > 0 /\ asked < 12)
  /\ Page(1)
  /\ month' = 2
  /\ UNCHANGED <<year, asked, on>>

NextMonth ==
  /\ on /\ pages # <<>>
  /\ IF month <= 12
       THEN Page(month) /\ month' = month + 1 /\ UNCHANGED on
       ELSE on' = FALSE /\ UNCHANGED <<days_in_month, pages, month>>
  /\ UNCHANGED <<year, asked>>

CalendarNext == OneMonth \/ AllMonths \/ NextMonth

CalendarSpec == CalendarInit /\ [][CalendarNext]_calendarVars

-----------------------------------------------------------------------------
(* Properties.                                                             *)

\* The rule for leap years: 97 of them in 400 years.
Gregorian == \/ year % 400 = 0
             \/ year % 4 = 0 /\ ~ \E century \in {100, 200, 300} : year % 400 = century

(* Every month starts on the weekday after the last day of the one before, *)
(* and the next year's January after December, although each page computes *)
(* its column on its own and the leap day is written into a table that     *)
(* outlives the call (calendar.c:23-36); July 2018 starts on a Sunday      *)
(* (README.md:18-26).                                                      *)
Follows ==
  /\ \A i \in 1 .. Len(pages) - 1 :
       pages[i + 1].start = (pages[i].start + pages[i].days) % 7
  /\ Len(pages) = 12 =>
       DayCode(year + 1, MonthDays, 1)
         = (pages[1].start + (IF Gregorian THEN 366 ELSE 365)) % 7
  /\ year = 2018 => \A i \in 1 .. Len(pages) : pages[i].month = 7 => pages[i].start = 0

(* A year's pages are its months in order, with as many days as the year   *)
(* has.                                                                    *)
WholeYear ==
  (~ on /\ Len(pages) > 1) =>
    /\ [i \in 1 .. Len(pages) |-> pages[i].month] = [i \in 1 .. 12 |-> i]
    /\ DaysBefore([i \in 1 .. 12 |-> pages[i].days], 13) = (IF Gregorian THEN 366 ELSE 365)
=============================================================================
