----------------------------- MODULE SerialLine -----------------------------
(***************************************************************************)
(* How the programs of uart/ and LTE/at bring a serial line into the mode  *)
(* they need: raw, with a speed, data bits, parity and stop bits.  Each    *)
(* has its own copy of set_speed, set_Parity and tty_raw.  The copies of   *)
(* uart/ keep in a static variable that this process has made a line raw   *)
(* and refuse to do it again; the copy of muart.c keeps the old settings   *)
(* instead and gives them back when it closes.                             *)
(*                                                                         *)
(* The tty driver is external: tcsetattr may fail, and it succeeds when    *)
(* only a part of the settings was taken.  A driver may forget the         *)
(* settings at the last close, and the device may be unplugged and come    *)
(* back with those it starts with.                                         *)
(***************************************************************************)
EXTENDS Naturals

CONSTANTS
  Speeds,     \* name_arr
  Requests,   \* what the caller asks for: speed, bits, parity and stop
  MaxOpens    \* init_uart is called at most so often

ASSUME SerialAssumption == MaxOpens \in Nat \ {0}

VARIABLES
  user,       \* the program: "test_uart", "test_uart_v2", "init_uart", "uart_send_recv",
              \* "read_gps" or "muart"
  asked,      \* the request
  forgetful,  \* the driver forgets the settings at the last close
  tty,        \* the settings of the line
  ttystate,   \* the static ttystate: "RESET" or "RAW"
  old_conf,   \* m->old_conf
  fds,        \* the descriptors open on the line
  usage,      \* "start", "opened", "used", "closed" or "exit"
  opens,      \* how often the line was set up
  gone,       \* the device was unplugged since the line was set up
  partial,    \* history: of the last settings not all were taken
  forgotten   \* history: the line lost its settings after ttystate became RAW

slVars == <<user, asked, forgetful, tty, ttystate, old_conf, fds, usage, opens, gone, partial, forgotten>>

\* What a line has after its device appears.  "raw" stands for the flags of c_lflag,
\* c_iflag and c_oflag that tty_raw clears, all but INPCK.
Default ==
  [raw |-> FALSE, bits |-> 8, parity |-> "none", inpck |-> FALSE, stop |-> 1,
   speed |-> 9600, vmin |-> 1, vtime |-> 0]

Outcome(t, ok, whole) == [tty |-> t, ok |-> ok, whole |-> whole]

\* tcsetattr: nothing done and an error, or success with all of the settings or a part.
tcsetattr(t, want) ==
  {Outcome(t, FALSE, FALSE)}
    \union {Outcome(s, TRUE, s = want) :
              s \in {want, [want EXCEPT !.raw = t.raw],
                     [want EXCEPT !.bits = t.bits, !.parity = t.parity]}}

\* A speed that is not in name_arr is passed over without an error.
set_speed(t, r) ==
  IF r.speed \in Speeds THEN tcsetattr(t, [t EXCEPT !.speed = r.speed])
  ELSE {Outcome(t, TRUE, TRUE)}

Supported(r) ==
  /\ r.bits \in {7, 8} /\ r.stop \in {1, 2}
  /\ r.parity \in {"n", "N", "o", "O", "e", "E", "s", "S"}

\* INPCK is set again for every parity but a small n.
WithParity(t, r, vmin, vtime) ==
  [t EXCEPT !.bits = r.bits, !.stop = r.stop,
            !.parity = CASE r.parity \in {"o", "O"} -> "odd"
                         [] r.parity \in {"e", "E"} -> "even"
                         [] OTHER -> "none",
            !.inpck = (r.parity # "n"),
            !.vmin = vmin, !.vtime = vtime]

\* Nothing changes when the request is not supported, or when tcgetattr fails, which the
\* failure of tcsetattr stands for.
set_Parity(t, r, vmin, vtime) ==
  IF Supported(r) THEN tcsetattr(t, WithParity(t, r, vmin, vtime))
  ELSE {Outcome(t, FALSE, TRUE)}

\* A caller that does not look at what the two return.
Unchecked(t, r, vmin, vtime) ==
  UNION {{Outcome(p.tty, TRUE, s.whole /\ p.whole) : p \in set_Parity(s.tty, r, vmin, vtime)} :
           s \in set_speed(t, r)}

\* The same two functions of each program: they differ in VMIN and VTIME.
TestUartSettings(t, r) == Unchecked(t, r, 0, 200)
TestUartV2Settings(t, r) == Unchecked(t, r, 1, 10)
InitUartSettings(t, r) == Unchecked(t, r, 1, 0)
SendRecvSettings(t, r) == Unchecked(t, r, 1, 0)
ReadGpsSettings(t, r) == Unchecked(t, r, 1, 0)

Settings(t) ==
  CASE user = "test_uart" -> TestUartSettings(t, asked)
    [] user = "test_uart_v2" -> TestUartV2Settings(t, asked)
    [] user = "init_uart" -> InitUartSettings(t, asked)
    [] user = "uart_send_recv" -> SendRecvSettings(t, asked)
    [] user = "read_gps" -> ReadGpsSettings(t, asked)

\* muart_setup stops at the first error.
MuartSettings(t, r) ==
  {s \in set_speed(t, r) : ~s.ok}
    \union UNION {{Outcome(p.tty, p.ok, s.whole /\ p.whole) : p \in set_Parity(s.tty, r, 1, 0)} :
                    s \in {u \in set_speed(t, r) : u.ok}}

Raw(t) ==
  [t EXCEPT !.raw = TRUE, !.bits = 8, !.parity = "none", !.inpck = FALSE, !.vmin = 1, !.vtime = 0]

\* Mutant of tty_raw: it takes the word of tcsetattr.
tty_rawTrusting(t) == {Outcome(s.tty, s.ok, TRUE) : s \in tcsetattr(t, Raw(t))}

\* tty_raw reads the settings back, since tcsetattr may have taken a part of them, and
\* puts the old ones back when they are not all there or cannot be read.
tty_raw(t) ==
  {Outcome(t, FALSE, TRUE)}
    \union {Outcome(s.tty, TRUE, TRUE) : s \in {u \in tcsetattr(t, Raw(t)) : u.ok /\ u.tty = Raw(t)}}
    \union UNION {{Outcome(b.tty, FALSE, b.whole) : b \in tcsetattr(s.tty, t)} :
                    s \in {u \in tcsetattr(t, Raw(t)) : u.ok}}

\* tty_raw of uart/: a process does it once.  The result is the line and ttystate.
RawOnce(t, state) ==
  IF state # "RESET" THEN {[tty |-> t, state |-> state]}
  ELSE {[tty |-> a.tty, state |-> IF a.ok THEN "RAW" ELSE "RESET"] : a \in tty_raw(t)}

SlInit ==
  /\ user \in {"test_uart", "test_uart_v2", "init_uart", "uart_send_recv", "read_gps", "muart"}
  /\ asked \in Requests /\ forgetful \in BOOLEAN
  /\ tty \in {Default, [Default EXCEPT !.bits = 7, !.parity = "even", !.inpck = TRUE, !.stop = 2]}
  /\ ttystate = "RESET" /\ old_conf = Default
  /\ fds = 0 /\ usage = "start" /\ opens = 0
  /\ gone = FALSE /\ partial = FALSE /\ forgotten = FALSE

------------------------------------------------------------------------------
(* The driver and the device.                                              *)

\* What the last close leaves.
AfterClose(t, last) == IF forgetful /\ last THEN Default ELSE t

Replug ==
  /\ usage \in {"opened", "used"} /\ ~gone
  /\ tty' = Default /\ gone' = TRUE
  /\ forgotten' = (forgotten \/ ttystate = "RAW")
  /\ UNCHANGED <<user, asked, forgetful, ttystate, old_conf, fds, usage, opens, partial>>

------------------------------------------------------------------------------
(* The programs.                                                           *)

OpenFails ==
  /\ usage = "start" \/ (usage = "used" /\ user \in {"init_uart", "read_gps"})
  /\ usage' = "exit"
  /\ UNCHANGED <<user, asked, forgetful, tty, ttystate, old_conf, fds, opens, gone, partial, forgotten>>

\* main of the two tests, up to its loop: the line is opened once.
OpenOnce ==
  /\ usage = "start"
  /\ \E a \in RawOnce(tty, ttystate) : \E s \in Settings(a.tty) :
       tty' = s.tty /\ ttystate' = a.state /\ partial' = ~s.whole
  /\ fds' = 1 /\ usage' = "used" /\ opens' = 1
  /\ UNCHANGED <<user, asked, forgetful, old_conf, gone, forgotten>>

TestUartOpen == user = "test_uart" /\ OpenOnce
TestUartV2Open == user = "test_uart_v2" /\ OpenOnce

\* init_uart: open, raw, close, open, raw again, and the settings.  The descriptor of an
\* earlier call is not closed; it is of no use to a device that was unplugged.
InitUart ==
  /\ opens < MaxOpens
  /\ \E a \in RawOnce(tty, ttystate) :
       LET last == fds = 0 \/ gone IN
       /\ forgotten' = (forgotten \/ (forgetful /\ last /\ a.state = "RAW"))
       /\ \E b \in RawOnce(AfterClose(a.tty, last), a.state) : \E s \in Settings(b.tty) :
            tty' = s.tty /\ ttystate' = b.state /\ partial' = ~s.whole
  /\ fds' = fds + 1 /\ usage' = "used" /\ opens' = opens + 1 /\ gone' = FALSE
  /\ UNCHANGED <<user, asked, forgetful, old_conf>>

UartStart == user = "init_uart" /\ usage = "start" /\ InitUart
SendRecvStart == user = "uart_send_recv" /\ usage = "start" /\ InitUart
GpsStart == user = "read_gps" /\ usage = "start" /\ InitUart

\* Nothing came back after three attempts, or more than five reads failed.
UartRestart == user = "init_uart" /\ usage = "used" /\ InitUart
GpsRestart == user = "read_gps" /\ usage = "used" /\ InitUart

UartClose ==
  /\ user \in {"test_uart", "test_uart_v2", "init_uart"} /\ usage = "used"
  /\ tty' = AfterClose(tty, fds = 1)
  /\ fds' = fds - 1 /\ usage' = "closed"
  /\ UNCHANGED <<user, asked, forgetful, ttystate, old_conf, opens, gone, partial, forgotten>>

------------------------------------------------------------------------------
(* muart.c, and mat_uart_init, which calls it.                             *)

muart_open ==
  /\ user = "muart" /\ usage \in {"start", "closed"} /\ opens < MaxOpens
  /\ old_conf' = tty
  /\ \E a \in tty_raw(tty) :
       /\ tty' = IF a.ok THEN a.tty ELSE AfterClose(a.tty, TRUE)
       /\ usage' = IF a.ok THEN "opened" ELSE "closed"
       /\ fds' = IF a.ok THEN 1 ELSE 0
       /\ partial' = ~a.whole
  /\ opens' = opens + 1 /\ gone' = FALSE
  /\ UNCHANGED <<user, asked, forgetful, ttystate, forgotten>>

\* muart_close, and the state of the line after it.
Closed(t) ==
  \E c \in IF gone THEN {Outcome(t, FALSE, FALSE)} ELSE tcsetattr(t, old_conf) :
    /\ tty' = AfterClose(c.tty, TRUE)
    /\ partial' = ~c.whole
    /\ usage' = "closed" /\ fds' = 0

muart_setup ==
  /\ user = "muart" /\ usage = "opened" /\ ~gone
  /\ \E s \in MuartSettings(tty, asked) :
       \/ /\ s.ok
          /\ tty' = s.tty /\ partial' = ~s.whole
          /\ usage' = "used" /\ fds' = fds
       \/ ~s.ok /\ Closed(s.tty)
  /\ UNCHANGED <<user, asked, forgetful, ttystate, old_conf, opens, gone, forgotten>>

\* The call fails on a device that was unplugged.
SetupOfNone ==
  /\ user = "muart" /\ usage = "opened" /\ gone
  /\ Closed(tty)
  /\ UNCHANGED <<user, asked, forgetful, ttystate, old_conf, opens, gone, forgotten>>

muart_close ==
  /\ user = "muart" /\ usage = "used"
  /\ Closed(tty)
  /\ UNCHANGED <<user, asked, forgetful, ttystate, old_conf, opens, gone, forgotten>>

SlNext ==
  \/ OpenFails \/ TestUartOpen \/ TestUartV2Open \/ UartClose
  \/ UartStart \/ SendRecvStart \/ GpsStart \/ UartRestart \/ GpsRestart
  \/ muart_open \/ muart_setup \/ SetupOfNone \/ muart_close
  \/ Replug

SlSpec == SlInit /\ [][SlNext]_slVars

------------------------------------------------------------------------------

\* The line has the data format and the speed asked for.  Of INPCK this says something
\* for the three letters the usage names.
AsAsked ==
  /\ tty.bits = asked.bits /\ tty.stop = asked.stop
  /\ asked.speed \in Speeds => tty.speed = asked.speed
  /\ asked.parity \in {"n", "o", "e"} =>
       tty.parity = [n |-> "none", o |-> "odd", e |-> "even"][asked.parity]
  /\ asked.parity \in {"n", "o", "e"} => (tty.inpck <=> tty.parity # "none")

\* While a program of uart/ that has made its line raw, or a caller of muart_setup that
\* was told 0, uses the line, the line is raw and has the format asked for, or 8 bits
\* without parity if that format is not supported; only the driver may have kept a part
\* back.  A program of uart/ may not rely on it once the line has lost its settings, at a
\* close or because it was unplugged: the restart does not make it raw again.  A line
\* muart.c used has its old settings back after it, or has been reset.
LineAsAsked ==
  /\ \/ usage = "used" /\ ttystate = "RAW" /\ ~forgotten
     \/ usage = "used" /\ user = "muart"
     => gone \/ /\ tty.raw
                /\ Supported(asked) => partial \/ AsAsked
                /\ ~Supported(asked) => tty.bits = 8 /\ tty.parity = "none"
  /\ user = "muart" /\ usage = "closed" /\ ~partial => gone \/ tty = AfterClose(old_conf, TRUE)
=============================================================================
