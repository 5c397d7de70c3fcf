----------------------------- MODULE BeijingTime -----------------------------
(***************************************************************************)
(* utc2btc of uart/read_gps.c and time/localtime.c, which adds eight hours *)
(* to a date.  The GPS reader calls it for every position of a run, the    *)
(* command once; both keep the length of February in a static table.       *)
(***************************************************************************)
EXTENDS Naturals, Sequences

CONSTANTS
  Years,     \* the years dates are given in
  Days,      \* the days of the month they are given on
  Hours      \* and the hours

ASSUME BtAssumption == Years \union Days \subseteq Nat /\ Hours \subseteq 0..23

VARIABLES
  february,  \* date_mday[1]
  utc, btc,  \* the last date given and what became of it
  turned     \* history: the table was changed since the program started

btVars == <<february, utc, btc, turned>>

Date == [year : Nat, mon : 0..11, mday : 1..31, hour : 0..23]

IsLeap(y) == y % 400 = 0 \/ (y % 4 = 0 /\ y % 100 # 0)

\* What the calendar says.
DaysOf(y, m) ==
  CASE m = 1 -> IF IsLeap(y) THEN 29 ELSE 28
    [] m \in {3, 5, 8, 10} -> 30
    [] OTHER -> 31

NextDay(d) ==
  IF d.mday < DaysOf(d.year, d.mon) THEN [d EXCEPT !.mday = @ + 1]
  ELSE IF d.mon < 11 THEN [d EXCEPT !.mday = 1, !.mon = @ + 1]
  ELSE [d EXCEPT !.mday = 1, !.mon = 0, !.year = @ + 1]

EightHoursOn(d) ==
  IF d.hour < 16 THEN [d EXCEPT !.hour = @ + 8]
                 ELSE [NextDay(d) EXCEPT !.hour = @ - 16]

date_mday == <<31, 28, 31, 30, 31, 30, 31, 31, 30, 31, 30, 31>>
Epoch == [year |-> 1970, mon |-> 0, mday |-> 1, hour |-> 0]

BtInit ==
  /\ february = date_mday[2] /\ turned = FALSE
  /\ utc = Epoch /\ btc = EightHoursOn(Epoch)

LeapYear(y) == y % 400 = 0 \/ (y % 4 = 0 /\ y % 100 # 0)

\* Mutant of LengthOf: the table is read before a leap year has changed it.
LengthOfStale(feb, d) == IF d.mon = 1 THEN february ELSE date_mday[d.mon + 1]

LengthOf(feb, d) == IF d.mon = 1 THEN feb ELSE date_mday[d.mon + 1]

\* The day is one more, and a month or a year when that is past its end.
Turn(feb, d) ==
  IF d.mday + 1 <= LengthOf(feb, d) THEN [d EXCEPT !.mday = @ + 1]
  ELSE IF d.mon + 1 > 11 THEN [d EXCEPT !.mday = 1, !.mon = 0, !.year = @ + 1]
  ELSE [d EXCEPT !.mday = 1, !.mon = @ + 1]

utc2btc(d) ==
  /\ utc' = d
  /\ IF d.hour + 8 < 24
     THEN btc' = [d EXCEPT !.hour = @ + 8] /\ UNCHANGED <<february, turned>>
     ELSE /\ february' = IF d.mon = 1 /\ LeapYear(d.year) THEN 29 ELSE february
          /\ btc' = [Turn(february', d) EXCEPT !.hour = d.hour + 8 - 24]
          /\ turned' = (turned \/ february' # february)

\* The program is started anew.
BtRestart ==
  /\ february' = date_mday[2] /\ turned' = FALSE
  /\ utc' = Epoch /\ btc' = EightHoursOn(Epoch)

BtNext ==
  \/ \E y \in Years, m \in 0..11, md \in Days, h \in Hours :
       /\ md <= DaysOf(y, m)
       /\ utc2btc([year |-> y, mon |-> m, mday |-> md, hour |-> h])
  \/ BtRestart

BtSpec == BtInit /\ [][BtNext]_btVars

\* Every date is eight hours on in the calendar, at the end of every month and of
\* the year (read_gps.c:387), except where the table a leap year changed
\* (read_gps.c:384) makes a 29th of February of another year.
CalendarRight ==
  \/ btc = EightHoursOn(utc)
  \/ /\ turned
     /\ utc.mon = 1 /\ utc.mday = 28 /\ ~IsLeap(utc.year)
     /\ btc = [year |-> utc.year, mon |-> 1, mday |-> 29, hour |-> utc.hour - 16]
=============================================================================
