------------------------------- MODULE GpsFix -------------------------------
(***************************************************************************)
(* What uart/read_gps.c makes of the sentences GpsReader cuts out: RMC and *)
(* GGA leave their fields in the global mgps, a GGA prints it when the     *)
(* timer asked, and the date printed goes through utc2btc of BeijingTime.  *)
(*                                                                         *)
(* The receiver is external.  A sentence is the sequence of its fields,    *)
(* of which any may be empty but the one that tells whether it is valid.   *)
(* A field is << >> or the tuple of what its characters say: hour; day,    *)
(* month and year; a letter; or a number, angles in ten thousandths of a   *)
(* minute.  No field of an RMC but the status can end in an A with a comma *)
(* behind it, so that strstr finds the status.  Minutes and seconds of the *)
(* time go through unchanged and are left out.                             *)
(***************************************************************************)
EXTENDS BeijingTime, SequencesExt

CONSTANTS
  RmcSentences, GgaSentences,   \* the fields of each
  MaxHeard                      \* sentences in a behaviour

ASSUME FixAssumption == MaxHeard \in Nat

\* What a receiver says is an hour, an angle, and a day of the calendar.
ASSUME ReceiverAssumption ==
  \A f \in RmcSentences :
    /\ f[1] # << >> => f[1][1] \in 0..23
    /\ f[3] # << >> => f[3][1] \in Nat
    /\ f[5] # << >> => f[5][1] \in Nat
    /\ f[9] # << >> => /\ f[9] = <<f[9][1], f[9][2], f[9][3]>>
                      /\ f[9][2] \in 1..12 /\ f[9][3] \in 0..99
                      /\ f[9][1] \in 1..DaysOf(2000 + f[9][3], f[9][2] - 1)

VARIABLES
  gps,         \* mgps, the fields that sentences leave in it
  flag_send,   \* the timer asked for a position
  report,        \* what print_gps has just printed, or nothing
  heard        \* history: the sentences parsed

fixVars == <<gps, flag_send, report, heard>>
gfVars == <<btVars, fixVars>>

EMPTY == << >>

\* The items of mgps with the sentence and the field they come from.
Origin ==
  [date_day |-> <<"rmc", 1>>, latitude |-> <<"rmc", 3>>, position_sn |-> <<"rmc", 4>>,
   longitude |-> <<"rmc", 5>>, position_ew |-> <<"rmc", 6>>, speed |-> <<"rmc", 7>>,
   direction |-> <<"rmc", 8>>, date_year |-> <<"rmc", 9>>,
   satellite |-> <<"gga", 7>>, height |-> <<"gga", 9>>]

GfInit ==
  /\ BtInit
  /\ gps = [i \in DOMAIN Origin |-> EMPTY] /\ flag_send = FALSE
  /\ report = << >> /\ heard = << >>

Keep(old, field) == IF field = EMPTY THEN old ELSE field

\* Mutant of parse_gnrmc: the status is not looked at.
parse_gnrmcAnyway(g, f) ==
  [g EXCEPT !.date_day = Keep(@, f[1]),
            !.latitude = Keep(@, f[3]), !.position_sn = Keep(@, f[4]),
            !.longitude = Keep(@, f[5]), !.position_ew = Keep(@, f[6]),
            !.speed = Keep(@, f[7]), !.direction = Keep(@, f[8]),
            !.date_year = Keep(@, f[9])]

parse_gnrmc(g, f) ==
  IF f[2] # <<"A">> THEN g
  ELSE [g EXCEPT !.date_day = Keep(@, f[1]),
                 !.latitude = Keep(@, f[3]), !.position_sn = Keep(@, f[4]),
                 !.longitude = Keep(@, f[5]), !.position_ew = Keep(@, f[6]),
                 !.speed = Keep(@, f[7]), !.direction = Keep(@, f[8]),
                 !.date_year = Keep(@, f[9])]

parse_gngga(g, f) ==
  IF f[6] = <<0>> THEN g
  ELSE [g EXCEPT !.satellite = Keep(@, f[7]), !.height = Keep(@, f[9])]

\* Degrees, minutes and seconds.  The product the seconds are cut from is a double: one
\* that should be whole may be just below, unless the part of the minute is exact.
Angle(field) ==
  LET n == IF field = EMPTY THEN 0 ELSE field[1]
      part == n % 10000
      second == (part * 60) \div 10000
      whole == (part * 60) % 10000 = 0 /\ part % 2500 # 0
  IN  [degree : {n \div 1000000}, minute : {(n % 1000000) \div 10000},
       second : IF whole THEN {second, second - 1} ELSE {second}]

\* With both fields known the date is made, and brought to Beijing time.
DateTm(g) ==
  IF g.date_day # EMPTY /\ g.date_year # EMPTY
  THEN utc2btc([year |-> 2000 + g.date_year[3], mon |-> g.date_year[2] - 1,
                mday |-> g.date_year[1], hour |-> g.date_day[1]])
  ELSE UNCHANGED btVars

print_gps(g) ==
  \E lat \in Angle(g.latitude), lon \in Angle(g.longitude) :
    report' = <<[gps |-> g, latitude |-> lat, longitude |-> lon]>>

------------------------------------------------------------------------------

itmer_func ==
  /\ ~flag_send
  /\ flag_send' = TRUE /\ report' = << >>
  /\ UNCHANGED <<btVars, gps, heard>>

\* parse_packet of a sentence of each kind.  A GGA prints even when it is not valid.
PacketRmc ==
  /\ Len(heard) < MaxHeard
  /\ \E f \in RmcSentences :
       /\ gps' = parse_gnrmc(gps, f)
       /\ heard' = Append(heard, [kind |-> "rmc", f |-> f])
  /\ report' = << >>
  /\ UNCHANGED <<btVars, flag_send>>

PacketGga ==
  /\ Len(heard) < MaxHeard
  /\ \E f \in GgaSentences :
       /\ gps' = parse_gngga(gps, f)
       /\ heard' = Append(heard, [kind |-> "gga", f |-> f])
  /\ IF flag_send THEN DateTm(gps') /\ print_gps(gps')
                  ELSE report' = << >> /\ UNCHANGED btVars
  /\ flag_send' = FALSE

GfNext == itmer_func \/ PacketRmc \/ PacketGga

GfSpec == GfInit /\ [][GfNext]_gfVars

------------------------------------------------------------------------------

Valid(s) == IF s.kind = "rmc" THEN s.f[2] = <<"A">> ELSE s.f[6] # <<0>>

\* What the last valid sentence that gave the field at a place said there.
LastGiven(place) ==
  LET n == SelectLastInSeq(heard, LAMBDA s : s.kind = place[1] /\ Valid(s) /\ s.f[place[2]] # EMPTY)
  IN  IF n = 0 THEN EMPTY ELSE heard[n].f[place[2]]

\* The angle in seconds, of which the part of a second is cut off or one second more.
AsAngle(field, a) ==
  LET n == IF field = EMPTY THEN 0 ELSE field[1]
      exact == (n \div 1000000) * 3600 + ((n % 1000000) * 60) \div 10000
  IN  /\ a.degree * 3600 + a.minute * 60 + a.second \in {exact, exact - 1}
      /\ a.second \in 0..59

\* What is printed: each item is what the last valid sentence that gave it said, however
\* many came since that were invalid or left it empty, so that a position may be old; the
\* angle is the one received, cut to whole seconds or one less; and the date is made of
\* the last hour and the last day given, which need not be of one sentence
\* (read_gps.c:402-423, 435-550, 587-593).
FixTold ==
  report # << >> =>
    LET g == report[1].gps
    IN  /\ \A i \in DOMAIN Origin : g[i] = LastGiven(Origin[i])
        /\ AsAngle(g.latitude, report[1].latitude) /\ AsAngle(g.longitude, report[1].longitude)
        /\ LastGiven(<<"rmc", 1>>) # EMPTY /\ LastGiven(<<"rmc", 9>>) # EMPTY =>
             /\ utc.hour = LastGiven(<<"rmc", 1>>)[1]
             /\ <<utc.mday, utc.mon + 1, utc.year - 2000>> = LastGiven(<<"rmc", 9>>)
=============================================================================
