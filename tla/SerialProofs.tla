---------------------------- MODULE SerialProofs ----------------------------
(***************************************************************************)
(* What is done over a serial line: SerialLine for any speeds, requests    *)
(* and number of calls, SerialTool for any buffer, any number of attempts, *)
(* lines and bytes, and PppCall for any set of pppd processes, any timeout *)
(* and any number of pings.                                                *)
(***************************************************************************)
EXTENDS SerialLine, SerialTool, PppCall, SequenceTheorems, FiniteSetTheorems, TLAPS

(* SerialLine.                                                             *)

\* The settings a line can have.
Line ==
  [raw : BOOLEAN, bits : {7, 8}, parity : {"none", "odd", "even"}, inpck : BOOLEAN, stop : {1, 2},
   speed : Speeds \union {9600}, vmin : Nat, vtime : Nat]

\* tcsetattr leaves the line alone, or it takes the settings, or a part of them.
LEMMA SetAttr ==
  ASSUME NEW t \in Line, NEW want \in Line, NEW o \in tcsetattr(t, want)
  PROVE  /\ o.tty \in Line
         /\ o.whole => o.ok /\ o.tty = want
         /\ ~o.ok => o.tty = t
         /\ o.tty.raw = t.raw \/ o.tty.raw = want.raw
         /\ o.ok => /\ o.tty.stop = want.stop /\ o.tty.speed = want.speed
         /\ \/ o.tty.bits = t.bits /\ o.tty.parity = t.parity
            \/ o.tty.bits = want.bits /\ o.tty.parity = want.parity
<1>1. CASE o = Outcome(t, FALSE, FALSE)
  BY <1>1 DEF Outcome, Line
<1>2. ASSUME NEW s \in {want, [want EXCEPT !.raw = t.raw], [want EXCEPT !.bits = t.bits, !.parity = t.parity]},
             o = Outcome(s, TRUE, s = want)
      PROVE  /\ o.tty = s /\ o.ok /\ (o.whole <=> s = want)
  BY <1>2 DEF Outcome
<1>3. \A s \in {want, [want EXCEPT !.raw = t.raw], [want EXCEPT !.bits = t.bits, !.parity = t.parity]} :
        /\ s \in Line
        /\ s.raw = t.raw \/ s.raw = want.raw
        /\ s.stop = want.stop /\ s.speed = want.speed
        /\ \/ s.bits = t.bits /\ s.parity = t.parity
           \/ s.bits = want.bits /\ s.parity = want.parity
  <2>1. want \in Line
    OBVIOUS
  <2> DEFINE kept == [want EXCEPT !.raw = t.raw]
             part == [want EXCEPT !.bits = t.bits, !.parity = t.parity]
  <2>2. /\ kept \in Line /\ kept.raw = t.raw /\ kept.stop = want.stop /\ kept.speed = want.speed
        /\ kept.bits = want.bits /\ kept.parity = want.parity
    BY DEF Line
  <2>3. /\ part \in Line /\ part.raw = want.raw /\ part.stop = want.stop /\ part.speed = want.speed
        /\ part.bits = t.bits /\ part.parity = t.parity
    <3> DEFINE mid == [want EXCEPT !.bits = t.bits]
    <3>1. /\ mid \in Line /\ mid.raw = want.raw /\ mid.stop = want.stop /\ mid.speed = want.speed
          /\ mid.bits = t.bits
      BY DEF Line
    <3>2. part = [mid EXCEPT !.parity = t.parity]
      OBVIOUS
    <3> HIDE DEF mid, part
    <3> QED BY <3>1, <3>2 DEF Line
  <2> QED BY <2>1, <2>2, <2>3
<1> QED BY <1>1, <1>2, <1>3 DEF tcsetattr

\* AsAsked of any line and any request.
Matches(l, r) ==
  /\ l.bits = r.bits /\ l.stop = r.stop
  /\ r.speed \in Speeds => l.speed = r.speed
  /\ r.parity \in {"n", "o", "e"} => l.parity = [n |-> "none", o |-> "odd", e |-> "even"][r.parity]
  /\ r.parity \in {"n", "o", "e"} => (l.inpck <=> l.parity # "none")

\* set_speed changes the speed only.
LEMMA SpeedSet ==
  ASSUME NEW t \in Line, NEW r, NEW s \in set_speed(t, r)
  PROVE  /\ s.tty \in Line /\ s.tty.raw = t.raw /\ s.tty.bits = t.bits /\ s.tty.parity = t.parity
         /\ s.whole => (r.speed \in Speeds => s.tty.speed = r.speed)
<1>1. CASE r.speed \in Speeds
  <2> DEFINE want == [t EXCEPT !.speed = r.speed]
  <2>1. /\ want \in Line /\ want.raw = t.raw /\ want.bits = t.bits /\ want.parity = t.parity
        /\ want.speed = r.speed
    BY <1>1 DEF Line
  <2>2. s \in tcsetattr(t, want)
    BY <1>1 DEF set_speed
  <2> HIDE DEF want
  <2> QED BY <2>1, <2>2, SetAttr
<1>2. CASE r.speed \notin Speeds
  BY <1>2 DEF set_speed, Outcome
<1> QED BY <1>1, <1>2

\* The line set_Parity asks for is one with the format of the request.
LEMMA ParityLine ==
  ASSUME NEW t \in Line, NEW r, Supported(r), NEW vmin \in Nat, NEW vtime \in Nat,
         NEW l, l = WithParity(t, r, vmin, vtime)
  PROVE  /\ l \in Line /\ l.raw = t.raw /\ l.speed = t.speed
         /\ (r.speed \in Speeds => t.speed = r.speed) => Matches(l, r)
<1> DEFINE parity == CASE r.parity \in {"o", "O"} -> "odd"
                       [] r.parity \in {"e", "E"} -> "even"
                       [] OTHER -> "none"
           inpck == (r.parity # "n")
<1>1. parity \in {"none", "odd", "even"} /\ inpck \in BOOLEAN /\ r.bits \in {7, 8} /\ r.stop \in {1, 2}
  BY DEF Supported
<1>2. l = [raw |-> t.raw, bits |-> r.bits, parity |-> parity, inpck |-> inpck, stop |-> r.stop,
           speed |-> t.speed, vmin |-> vmin, vtime |-> vtime]
  <2> HIDE DEF parity, inpck
  <2>1. l = [t EXCEPT !.bits = r.bits, !.stop = r.stop, !.parity = parity, !.inpck = inpck,
                      !.vmin = vmin, !.vtime = vtime]
    BY DEF WithParity, parity, inpck
  <2>2. t = [raw |-> t.raw, bits |-> t.bits, parity |-> t.parity, inpck |-> t.inpck, stop |-> t.stop,
             speed |-> t.speed, vmin |-> t.vmin, vtime |-> t.vtime]
    BY DEF Line
  <2> QED BY <2>1, <2>2
<1>3. /\ r.parity = "n" => parity = "none"
      /\ r.parity = "o" => parity = "odd"
      /\ r.parity = "e" => parity = "even"
  OBVIOUS
<1>4. inpck <=> r.parity # "n"
  OBVIOUS
<1> HIDE DEF parity, inpck
<1>5. /\ l.raw = t.raw /\ l.bits = r.bits /\ l.parity = parity /\ l.inpck = inpck /\ l.stop = r.stop
      /\ l.speed = t.speed
  BY <1>2
<1>6. l \in Line
  BY <1>1, <1>2 DEF Line
<1>7. (r.speed \in Speeds => t.speed = r.speed) => Matches(l, r)
  BY <1>3, <1>4, <1>5 DEF Matches
<1> QED BY <1>5, <1>6, <1>7

\* set_Parity does nothing for a request that is not supported, and otherwise brings the
\* line into its format, unless the driver kept a part back.
LEMMA ParitySet ==
  ASSUME NEW t \in Line, NEW r, NEW vmin \in Nat, NEW vtime \in Nat, NEW p \in set_Parity(t, r, vmin, vtime)
  PROVE  /\ p.tty \in Line /\ p.tty.raw = t.raw
         /\ ~Supported(r) => p.tty = t /\ ~p.ok
         /\ Supported(r) /\ p.whole /\ (r.speed \in Speeds => t.speed = r.speed) => Matches(p.tty, r)
<1>1. CASE Supported(r)
  <2> DEFINE want == WithParity(t, r, vmin, vtime)
  <2>1. /\ want \in Line /\ want.raw = t.raw
        /\ (r.speed \in Speeds => t.speed = r.speed) => Matches(want, r)
    BY <1>1, ParityLine
  <2>2. p \in tcsetattr(t, want)
    BY <1>1 DEF set_Parity
  <2> HIDE DEF want
  <2>3. /\ p.tty \in Line /\ (p.tty.raw = t.raw \/ p.tty.raw = want.raw)
        /\ p.whole => p.tty = want
    BY <2>1, <2>2, SetAttr
  <2> QED BY <1>1, <2>1, <2>3
<1>2. CASE ~Supported(r)
  BY <1>2 DEF set_Parity, Outcome
<1> QED BY <1>1, <1>2

\* What a program of uart/ leaves after it has asked for its speed and its format.
LEMMA UncheckedSet ==
  ASSUME NEW t \in Line, NEW r, NEW vmin \in Nat, NEW vtime \in Nat, NEW o \in Unchecked(t, r, vmin, vtime)
  PROVE  /\ o.tty \in Line /\ o.tty.raw = t.raw
         /\ ~Supported(r) => o.tty.bits = t.bits /\ o.tty.parity = t.parity
         /\ Supported(r) /\ o.whole => Matches(o.tty, r)
<1>1. PICK s \in set_speed(t, r) : \E p \in set_Parity(s.tty, r, vmin, vtime) :
        o = Outcome(p.tty, TRUE, s.whole /\ p.whole)
  BY DEF Unchecked
<1>2. PICK p \in set_Parity(s.tty, r, vmin, vtime) : o = Outcome(p.tty, TRUE, s.whole /\ p.whole)
  BY <1>1
<1>3. o.tty = p.tty /\ (o.whole => s.whole /\ p.whole)
  BY <1>2 DEF Outcome
<1>4. /\ s.tty \in Line /\ s.tty.raw = t.raw /\ s.tty.bits = t.bits /\ s.tty.parity = t.parity
      /\ s.whole => (r.speed \in Speeds => s.tty.speed = r.speed)
  BY SpeedSet
<1>5. /\ p.tty \in Line /\ p.tty.raw = s.tty.raw
      /\ ~Supported(r) => p.tty = s.tty /\ ~p.ok
      /\ Supported(r) /\ p.whole /\ (r.speed \in Speeds => s.tty.speed = r.speed) => Matches(p.tty, r)
  BY <1>4, ParitySet
<1> QED BY <1>3, <1>4, <1>5

\* The same for the program at hand.
LEMMA SettingsSet ==
  ASSUME user \in {"test_uart", "test_uart_v2", "init_uart", "uart_send_recv", "read_gps"},
         NEW t \in Line, NEW o \in Settings(t)
  PROVE  /\ o.tty \in Line /\ o.tty.raw = t.raw
         /\ ~Supported(asked) => o.tty.bits = t.bits /\ o.tty.parity = t.parity
         /\ Supported(asked) /\ o.whole => Matches(o.tty, asked)
<1>1. \/ o \in Unchecked(t, asked, 0, 200) \/ o \in Unchecked(t, asked, 1, 10)
      \/ o \in Unchecked(t, asked, 1, 0)
  BY DEF Settings, TestUartSettings, TestUartV2Settings, InitUartSettings, SendRecvSettings, ReadGpsSettings
<1> QED BY <1>1, UncheckedSet

\* A caller of muart_setup that is told 0 asked for a supported format and has it, unless
\* the driver kept a part back.
LEMMA MuartSet ==
  ASSUME NEW t \in Line, NEW r, NEW o \in MuartSettings(t, r)
  PROVE  /\ o.tty \in Line
         /\ o.ok => Supported(r) /\ o.tty.raw = t.raw
         /\ o.ok /\ o.whole => Matches(o.tty, r)
<1>1. ASSUME NEW s \in set_speed(t, r)
      PROVE  /\ s.tty \in Line /\ s.tty.raw = t.raw
             /\ s.whole => (r.speed \in Speeds => s.tty.speed = r.speed)
  BY SpeedSet
<1>2. CASE o \in set_speed(t, r) /\ ~o.ok
  BY <1>1, <1>2
<1>3. ASSUME NEW s \in set_speed(t, r), NEW p \in set_Parity(s.tty, r, 1, 0),
             o = Outcome(p.tty, p.ok, s.whole /\ p.whole)
      PROVE  /\ o.tty \in Line
             /\ o.ok => Supported(r) /\ o.tty.raw = t.raw
             /\ o.ok /\ o.whole => Matches(o.tty, r)
  <2>1. o.tty = p.tty /\ o.ok = p.ok /\ (o.whole => s.whole /\ p.whole)
    BY <1>3 DEF Outcome
  <2>2. /\ p.tty \in Line /\ p.tty.raw = s.tty.raw
        /\ ~Supported(r) => ~p.ok
        /\ Supported(r) /\ p.whole /\ (r.speed \in Speeds => s.tty.speed = r.speed) => Matches(p.tty, r)
    BY <1>1, ParitySet
  <2> QED BY <1>1, <2>1, <2>2
<1> QED BY <1>2, <1>3 DEF MuartSettings

\* The settings tty_raw asks for.
LEMMA RawLine ==
  ASSUME NEW t \in Line
  PROVE  Raw(t) \in Line /\ Raw(t).raw /\ Raw(t).bits = 8 /\ Raw(t).parity = "none"
<1>1. t = [raw |-> t.raw, bits |-> t.bits, parity |-> t.parity, inpck |-> t.inpck, stop |-> t.stop,
           speed |-> t.speed, vmin |-> t.vmin, vtime |-> t.vtime]
  BY DEF Line
<1>2. Raw(t) = [raw |-> TRUE, bits |-> 8, parity |-> "none", inpck |-> FALSE, stop |-> t.stop,
                speed |-> t.speed, vmin |-> 1, vtime |-> 0]
  <2> DEFINE yes == TRUE
             no == FALSE
  <2> HIDE DEF yes, no
  <2>1. Raw(t) = [t EXCEPT !.raw = yes, !.bits = 8, !.parity = "none", !.inpck = no, !.vmin = 1, !.vtime = 0]
    BY DEF Raw, yes, no
  <2>2. Raw(t) = [raw |-> yes, bits |-> 8, parity |-> "none", inpck |-> no, stop |-> t.stop,
                  speed |-> t.speed, vmin |-> 1, vtime |-> 0]
    BY <1>1, <2>1
  <2> QED BY <2>2 DEF yes, no
<1> QED BY <1>2 DEF Line

\* tty_raw returns success for a line that is raw, and otherwise has put the old settings
\* back, unless the driver kept a part of them back.
LEMMA RawDone ==
  ASSUME NEW t \in Line, NEW a \in tty_raw(t)
  PROVE  /\ a.tty \in Line
         /\ a.ok => a.tty.raw /\ a.tty.bits = 8 /\ a.tty.parity = "none"
         /\ ~a.ok /\ a.whole => a.tty = t
<1>1. Raw(t) \in Line /\ Raw(t).raw /\ Raw(t).bits = 8 /\ Raw(t).parity = "none"
  BY RawLine
<1>2. CASE a = Outcome(t, FALSE, TRUE)
  BY <1>2 DEF Outcome
<1>3. ASSUME NEW s \in tcsetattr(t, Raw(t)), s.tty = Raw(t), a = Outcome(s.tty, TRUE, TRUE)
      PROVE  a.tty = Raw(t) /\ a.ok
  BY <1>3 DEF Outcome
<1>4. ASSUME NEW s \in tcsetattr(t, Raw(t)), NEW b \in tcsetattr(s.tty, t), a = Outcome(b.tty, FALSE, b.whole)
      PROVE  a.tty \in Line /\ ~a.ok /\ (a.whole => a.tty = t)
  <2>1. s.tty \in Line
    BY <1>1, SetAttr
  <2>2. b.tty \in Line /\ (b.whole => b.tty = t)
    BY <2>1, SetAttr
  <2> QED BY <1>4, <2>2 DEF Outcome
<1>5. \/ a = Outcome(t, FALSE, TRUE)
      \/ \E s \in tcsetattr(t, Raw(t)) : s.tty = Raw(t) /\ a = Outcome(s.tty, TRUE, TRUE)
      \/ \E s \in tcsetattr(t, Raw(t)) : \E b \in tcsetattr(s.tty, t) : a = Outcome(b.tty, FALSE, b.whole)
  BY DEF tty_raw
<1> QED BY <1>1, <1>2, <1>3, <1>4, <1>5

\* tty_raw of uart/ leaves a line alone that it has made raw before.
LEMMA RawOnceDone ==
  ASSUME NEW t \in Line, NEW state \in {"RESET", "RAW"}, NEW a \in RawOnce(t, state)
  PROVE  /\ a.tty \in Line /\ a.state \in {"RESET", "RAW"}
         /\ state = "RAW" => a.tty = t /\ a.state = "RAW"
         /\ state = "RESET" /\ a.state = "RAW" => a.tty.raw /\ a.tty.bits = 8 /\ a.tty.parity = "none"
<1>1. CASE state = "RAW"
  BY <1>1 DEF RawOnce
<1>2. CASE state = "RESET"
  <2>1. PICK b \in tty_raw(t) : a = [tty |-> b.tty, state |-> IF b.ok THEN "RAW" ELSE "RESET"]
    BY <1>2 DEF RawOnce
  <2>2. /\ b.tty \in Line
        /\ b.ok => b.tty.raw /\ b.tty.bits = 8 /\ b.tty.parity = "none"
    BY RawDone
  <2> QED BY <1>2, <2>1, <2>2
<1> QED BY <1>1, <1>2

------------------------------------------------------------------------------
(* The inductive invariant.                                                *)

UartUsers == {"test_uart", "test_uart_v2", "init_uart", "uart_send_recv", "read_gps"}

SlType ==
  /\ user \in UartUsers \union {"muart"}
  /\ forgetful \in BOOLEAN /\ gone \in BOOLEAN /\ partial \in BOOLEAN /\ forgotten \in BOOLEAN
  /\ tty \in Line /\ old_conf \in Line
  /\ ttystate \in {"RESET", "RAW"}
  /\ usage \in {"start", "opened", "used", "closed", "exit"}

\* Only the programs of uart/ keep ttystate, and not before they have opened the line.
StateOfUart ==
  /\ user = "muart" \/ usage = "start" => ttystate = "RESET"
  /\ usage = "start" => ~gone

\* What a program of uart/ relies on when it does not make the line raw again.
RawWhileUsed ==
  user # "muart" /\ usage = "used" /\ ttystate = "RAW" /\ ~forgotten =>
    /\ ~gone /\ tty.raw
    /\ Supported(asked) => partial \/ Matches(tty, asked)
    /\ ~Supported(asked) => tty.bits = 8 /\ tty.parity = "none"

\* The line of muart.c, step by step.
MuartLine ==
  user = "muart" =>
    /\ usage = "opened" => gone \/ tty.raw
    /\ usage = "used" => \/ gone
                         \/ tty.raw /\ Supported(asked) /\ (partial \/ Matches(tty, asked))
    /\ usage = "closed" /\ ~partial => gone \/ tty = AfterClose(old_conf, TRUE)

SlInv == SlType /\ StateOfUart /\ RawWhileUsed /\ MuartLine

\* The invariant gives what is wanted of the line.
LEMMA SlInvSuffices == SlInv => LineAsAsked
<1>1. Matches(tty, asked) => AsAsked
  BY DEF Matches, AsAsked
<1>2. ASSUME SlInv, usage = "used", ttystate = "RAW", ~forgotten, user # "muart"
      PROVE  gone \/ /\ tty.raw
                     /\ Supported(asked) => partial \/ AsAsked
                     /\ ~Supported(asked) => tty.bits = 8 /\ tty.parity = "none"
  BY <1>1, <1>2 DEF SlInv, RawWhileUsed
<1>3. ASSUME SlInv, usage = "used", user = "muart"
      PROVE  gone \/ /\ tty.raw
                     /\ Supported(asked) => partial \/ AsAsked
                     /\ ~Supported(asked) => tty.bits = 8 /\ tty.parity = "none"
  BY <1>1, <1>3 DEF SlInv, MuartLine
<1>4. ASSUME SlInv, user = "muart", usage = "closed", ~partial
      PROVE  gone \/ tty = AfterClose(old_conf, TRUE)
  BY <1>4 DEF SlInv, MuartLine
<1> QED BY <1>2, <1>3, <1>4 DEF LineAsAsked

\* The invariant holds at the start.
LEMMA SlInitInv == SlInit => SlInv
<1> SUFFICES ASSUME SlInit PROVE SlInv
  OBVIOUS
<1>1. Default \in Line
  BY DEF Default, Line
<1>2. [Default EXCEPT !.bits = 7, !.parity = "even", !.inpck = TRUE, !.stop = 2] \in Line
  <2> DEFINE seven == [Default EXCEPT !.bits = 7]
             even == [seven EXCEPT !.parity = "even"]
             check == [even EXCEPT !.inpck = TRUE]
  <2> HIDE DEF seven, even, check
  <2>1. seven \in Line
    BY <1>1 DEF Line, seven
  <2>2. even \in Line
    BY <2>1 DEF Line, even
  <2>3. check \in Line
    <3>1. \A yes \in BOOLEAN : [even EXCEPT !.inpck = yes] \in Line
      BY <2>2 DEF Line
    <3> QED BY <3>1, Zenon DEF check
  <2>4. [check EXCEPT !.stop = 2] \in Line
    BY <2>3 DEF Line
  <2> QED BY <2>4 DEF seven, even, check
<1> QED BY <1>1, <1>2 DEF SlInit, SlInv, SlType, UartUsers, StateOfUart, RawWhileUsed, MuartLine

\* A close leaves a line that a line can be.
LEMMA AfterCloseLine == ASSUME NEW t \in Line, NEW last PROVE AfterClose(t, last) \in Line
BY DEF AfterClose, Default, Line

\* The steps that change no settings: the device appears anew, a program of uart/ closes
\* its line or cannot open it.
LEMMA QuietKeep == SlInv /\ (Replug \/ OpenFails \/ UartClose) => SlInv'
<1> SUFFICES ASSUME SlInv, Replug \/ OpenFails \/ UartClose PROVE SlInv'
  OBVIOUS
<1>0. Default \in Line
  BY DEF Default, Line
<1>1. CASE Replug
  BY <1>0, <1>1 DEF Replug, SlInv, SlType, UartUsers, StateOfUart, RawWhileUsed, MuartLine
<1>2. CASE OpenFails
  BY <1>2 DEF OpenFails, SlInv, SlType, UartUsers, StateOfUart, RawWhileUsed, MuartLine
<1>3. CASE UartClose
  <2>1. tty' \in Line
    BY <1>3, AfterCloseLine DEF UartClose, SlInv, SlType
  <2> QED BY <1>3, <2>1 DEF UartClose, SlInv, SlType, UartUsers, StateOfUart, RawWhileUsed, MuartLine
<1> QED BY <1>1, <1>2, <1>3

\* The main programs of the two tests make the line raw and set it up once.
LEMMA OnceKeeps == SlInv /\ (TestUartOpen \/ TestUartV2Open) => SlInv'
<1> SUFFICES ASSUME SlInv, user \in {"test_uart", "test_uart_v2"}, OpenOnce PROVE SlInv'
  BY DEF TestUartOpen, TestUartV2Open
<1>1. PICK a \in RawOnce(tty, ttystate) : \E s \in Settings(a.tty) :
        tty' = s.tty /\ ttystate' = a.state /\ partial' = ~s.whole
  BY DEF OpenOnce
<1>2. PICK s \in Settings(a.tty) : tty' = s.tty /\ ttystate' = a.state /\ partial' = ~s.whole
  BY <1>1
<1>3. tty \in Line /\ ttystate = "RESET"
  BY DEF SlInv, SlType, StateOfUart, OpenOnce
<1>4. /\ a.tty \in Line /\ a.state \in {"RESET", "RAW"}
      /\ a.state = "RAW" => a.tty.raw /\ a.tty.bits = 8 /\ a.tty.parity = "none"
  BY <1>3, RawOnceDone
<1>5. /\ s.tty \in Line /\ s.tty.raw = a.tty.raw
      /\ ~Supported(asked) => s.tty.bits = a.tty.bits /\ s.tty.parity = a.tty.parity
      /\ Supported(asked) /\ s.whole => Matches(s.tty, asked)
  BY <1>4, SettingsSet
<1>6. usage = "start" /\ usage' = "used" /\ UNCHANGED <<user, asked, forgetful, old_conf, gone, forgotten>>
  BY DEF OpenOnce
<1>7. ~gone
  BY <1>6 DEF SlInv, StateOfUart
<1>8. SlType' /\ StateOfUart' /\ MuartLine'
  BY <1>2, <1>4, <1>5, <1>6 DEF SlInv, SlType, UartUsers, StateOfUart, MuartLine
<1>9. ASSUME Supported(asked) PROVE partial' \/ Matches(tty', asked')
  BY <1>2, <1>5, <1>6, <1>9
<1>10. RawWhileUsed'
  BY <1>2, <1>4, <1>5, <1>6, <1>7, <1>9 DEF RawWhileUsed, Supported
<1> QED BY <1>8, <1>10 DEF SlInv

\* init_uart makes the line raw, closes it, opens it, makes it raw again if it did not
\* yet, and sets it up.
LEMMA InitKeeps ==
  SlInv /\ (UartStart \/ SendRecvStart \/ GpsStart \/ UartRestart \/ GpsRestart) => SlInv'
<1> SUFFICES ASSUME SlInv, user \in {"init_uart", "uart_send_recv", "read_gps"}, usage \in {"start", "used"}, InitUart
             PROVE  SlInv'
  BY DEF UartStart, SendRecvStart, GpsStart, UartRestart, GpsRestart
<1> DEFINE last == fds = 0 \/ gone
<1>1. PICK a \in RawOnce(tty, ttystate) :
        /\ forgotten' = (forgotten \/ (forgetful /\ last /\ a.state = "RAW"))
        /\ \E b \in RawOnce(AfterClose(a.tty, last), a.state) : \E s \in Settings(b.tty) :
             tty' = s.tty /\ ttystate' = b.state /\ partial' = ~s.whole
  BY DEF InitUart
<1>2. PICK b \in RawOnce(AfterClose(a.tty, last), a.state) : \E s \in Settings(b.tty) :
        tty' = s.tty /\ ttystate' = b.state /\ partial' = ~s.whole
  BY <1>1
<1>3. PICK s \in Settings(b.tty) : tty' = s.tty /\ ttystate' = b.state /\ partial' = ~s.whole
  BY <1>2
<1> HIDE DEF last
<1>4. tty \in Line /\ ttystate \in {"RESET", "RAW"}
  BY DEF SlInv, SlType
<1>5. /\ a.tty \in Line /\ a.state \in {"RESET", "RAW"}
      /\ ttystate = "RAW" => a.tty = tty /\ a.state = "RAW"
      /\ ttystate = "RESET" /\ a.state = "RAW" => a.tty.raw /\ a.tty.bits = 8 /\ a.tty.parity = "none"
  BY <1>4, RawOnceDone
<1>6. PICK c \in Line : c = AfterClose(a.tty, last)
  BY <1>5, AfterCloseLine
<1>7. /\ b.tty \in Line /\ b.state \in {"RESET", "RAW"}
      /\ a.state = "RAW" => b.tty = c /\ b.state = "RAW"
      /\ a.state = "RESET" /\ b.state = "RAW" => b.tty.raw /\ b.tty.bits = 8 /\ b.tty.parity = "none"
  BY <1>2, <1>5, <1>6, RawOnceDone
<1>8. /\ s.tty \in Line /\ s.tty.raw = b.tty.raw
      /\ ~Supported(asked) => s.tty.bits = b.tty.bits /\ s.tty.parity = b.tty.parity
      /\ Supported(asked) /\ s.whole => Matches(s.tty, asked)
  BY <1>7, SettingsSet
<1>9. usage' = "used" /\ gone' = FALSE /\ UNCHANGED <<user, asked, forgetful, old_conf>>
  BY DEF InitUart
<1>10. SlType' /\ StateOfUart' /\ MuartLine'
  BY <1>1, <1>3, <1>7, <1>8, <1>9 DEF SlInv, SlType, UartUsers, StateOfUart, MuartLine
<1>11. ASSUME Supported(asked) PROVE partial' \/ Matches(tty', asked')
  BY <1>3, <1>8, <1>9, <1>11
<1>12. ASSUME ttystate' = "RAW", ~forgotten'
       PROVE  tty'.raw /\ (~Supported(asked) => tty'.bits = 8 /\ tty'.parity = "none")
  <2>1. CASE a.state = "RESET"
    BY <1>3, <1>7, <1>8, <1>12, <2>1
  <2>2. CASE a.state = "RAW"
    <3>1. c = a.tty /\ ~forgotten
      BY <1>1, <1>6, <1>12, <2>2 DEF AfterClose
    <3>2. a.tty.raw /\ (~Supported(asked) => a.tty.bits = 8 /\ a.tty.parity = "none")
      <4>1. CASE ttystate = "RESET"
        BY <1>5, <2>2, <4>1
      <4>2. CASE ttystate = "RAW"
        BY <1>5, <3>1, <4>2 DEF SlInv, StateOfUart, RawWhileUsed
      <4> QED BY <1>4, <4>1, <4>2
    <3> QED BY <1>3, <1>7, <1>8, <2>2, <3>1, <3>2
  <2> QED BY <1>5, <2>1, <2>2
<1>13. RawWhileUsed'
  BY <1>9, <1>11, <1>12 DEF RawWhileUsed, Supported
<1> QED BY <1>10, <1>13 DEF SlInv

\* muart_open keeps the settings it found and makes the line raw, or puts them back.
LEMMA MuartOpenKeeps == SlInv /\ muart_open => SlInv'
<1> SUFFICES ASSUME SlInv, muart_open PROVE SlInv'
  OBVIOUS
<1>1. PICK a \in tty_raw(tty) :
        /\ tty' = IF a.ok THEN a.tty ELSE AfterClose(a.tty, TRUE)
        /\ usage' = IF a.ok THEN "opened" ELSE "closed"
        /\ partial' = ~a.whole
  BY DEF muart_open
<1>2. /\ user = "muart" /\ old_conf' = tty /\ gone' = FALSE
      /\ UNCHANGED <<user, asked, forgetful, ttystate, forgotten>>
  BY DEF muart_open
<1>3. /\ a.tty \in Line
      /\ a.ok => a.tty.raw /\ a.tty.bits = 8 /\ a.tty.parity = "none"
      /\ ~a.ok /\ a.whole => a.tty = tty
  BY RawDone DEF SlInv, SlType
<1>4. AfterClose(a.tty, TRUE) \in Line
  BY <1>3, AfterCloseLine
<1>5. AfterClose(tty, TRUE) = AfterClose(old_conf, TRUE)'
  BY <1>2 DEF AfterClose, Default
<1>6. SlType' /\ StateOfUart' /\ RawWhileUsed'
  BY <1>1, <1>2, <1>3, <1>4 DEF SlInv, SlType, UartUsers, StateOfUart, RawWhileUsed
<1>7. MuartLine'
  BY <1>1, <1>2, <1>3, <1>5 DEF MuartLine
<1> QED BY <1>6, <1>7 DEF SlInv

\* muart_close gives the old settings back.
LEMMA ClosedKeeps ==
  ASSUME SlInv, user = "muart", NEW t \in Line, Closed(t),
         UNCHANGED <<user, asked, forgetful, ttystate, old_conf, opens, gone, forgotten>>
  PROVE  SlInv'
<1>1. PICK c \in IF gone THEN {Outcome(t, FALSE, FALSE)} ELSE tcsetattr(t, old_conf) :
        tty' = AfterClose(c.tty, TRUE) /\ partial' = ~c.whole /\ usage' = "closed"
  BY DEF Closed
<1>2. c.tty \in Line /\ (c.whole => c.tty = old_conf)
  <2>1. CASE gone
    BY <1>1, <2>1 DEF Outcome
  <2>2. CASE ~gone
    BY <1>1, <2>2, SetAttr DEF SlInv, SlType
  <2> QED BY <2>1, <2>2
<1>3. AfterClose(c.tty, TRUE) \in Line
  BY <1>2, AfterCloseLine
<1>4. AfterClose(old_conf, TRUE)' = AfterClose(old_conf, TRUE)
  BY DEF AfterClose, Default
<1>5. SlType' /\ StateOfUart' /\ RawWhileUsed'
  BY <1>1, <1>3 DEF SlInv, SlType, UartUsers, StateOfUart, RawWhileUsed
<1>6. MuartLine'
  BY <1>1, <1>2, <1>4 DEF MuartLine
<1> QED BY <1>5, <1>6 DEF SlInv

\* muart_setup sets the line up, or closes it at the first error.
LEMMA MuartSetupKeeps == SlInv /\ (muart_setup \/ SetupOfNone \/ muart_close) => SlInv'
<1> SUFFICES ASSUME SlInv, muart_setup \/ SetupOfNone \/ muart_close PROVE SlInv'
  OBVIOUS
<1>0. tty \in Line
  BY DEF SlInv, SlType
<1>1. CASE SetupOfNone \/ muart_close
  BY <1>0, <1>1, ClosedKeeps DEF SetupOfNone, muart_close
<1>2. CASE muart_setup
  <2>1. PICK s \in MuartSettings(tty, asked) :
          \/ s.ok /\ tty' = s.tty /\ partial' = ~s.whole /\ usage' = "used"
          \/ ~s.ok /\ Closed(s.tty)
    BY <1>2 DEF muart_setup
  <2>2. /\ user = "muart" /\ usage = "opened" /\ ~gone
        /\ UNCHANGED <<user, asked, forgetful, ttystate, old_conf, opens, gone, forgotten>>
    BY <1>2 DEF muart_setup
  <2>3. /\ s.tty \in Line
        /\ s.ok => Supported(asked) /\ s.tty.raw = tty.raw
        /\ s.ok /\ s.whole => Matches(s.tty, asked)
    BY <1>0, MuartSet
  <2>4. CASE ~s.ok
    BY <2>1, <2>2, <2>3, <2>4, ClosedKeeps
  <2>5. CASE s.ok
    <3>1. SlType' /\ StateOfUart' /\ RawWhileUsed'
      BY <2>1, <2>2, <2>3, <2>5 DEF SlInv, SlType, UartUsers, StateOfUart, RawWhileUsed
    <3>2. tty'.raw
      BY <2>1, <2>2, <2>3, <2>5 DEF SlInv, MuartLine
    <3>3. Supported(asked') /\ (partial' \/ Matches(tty', asked'))
      BY <2>1, <2>2, <2>3, <2>5
    <3>4. MuartLine'
      BY <2>1, <2>5, <3>2, <3>3 DEF MuartLine, Matches, Supported
    <3> QED BY <3>1, <3>4 DEF SlInv
  <2> QED BY <2>4, <2>5
<1> QED BY <1>1, <1>2

\* The invariant holds always.
LEMMA SlAlways == SlSpec => []SlInv
<1>1. SlInv /\ UNCHANGED slVars => SlInv'
  BY DEF slVars, SlInv, SlType, UartUsers, StateOfUart, RawWhileUsed, MuartLine, Matches, Supported, AfterClose, Default
<1>2. SlInv /\ [SlNext]_slVars => SlInv'
  BY <1>1, QuietKeep, OnceKeeps, InitKeeps, MuartOpenKeeps, MuartSetupKeeps DEF SlNext
<1> QED BY <1>2, SlInitInv, PTL DEF SlSpec

\* Whatever the driver takes of the settings and whenever the device is unplugged, a
\* program of uart/ that has made its line raw, or a caller of muart_setup that was told
\* 0, has a raw line with the format it asked for, unless the driver kept a part back;
\* and muart_close and the error paths of muart_setup give the old settings back.
THEOREM LineSafe == SlSpec => []LineAsAsked
BY SlAlways, SlInvSuffices, PTL

------------------------------------------------------------------------------
(* SerialTool.                                                             *)

StType ==
  /\ tool \in {"test_uart", "test_uart_v2", "init_uart", "uart_send_recv"}
  /\ len \in Nat /\ taken \in Nat /\ len <= taken
  /\ arrived \in Nat /\ sentAt \in Nat /\ sentAt <= arrived
  /\ rx_buf \in [1..RxSize -> Nat] /\ inq \in Seq(Nat)

\* An exchange begins with nothing read, and only test_uart_v2 reads more than fits.
Flow ==
  /\ at \in {"poll", "restart"} => tool = "init_uart"
  /\ at \in {"send", "poll", "restart"} => len = 0
  /\ tool = "test_uart" /\ at = "read" => len = 0
  /\ tool # "test_uart_v2" => len <= RxSize

\* What init_uart has in the driver came in this order, and since the last flush.
Flushed ==
  /\ \A i \in DOMAIN inq : inq[i] <= arrived
  /\ \A i, j \in DOMAIN inq : i < j => inq[i] < inq[j]
  /\ at \in {"poll", "restart", "read", "show"} => \A i \in DOMAIN inq : inq[i] > sentAt

\* What init_uart has read of this exchange came in this order, after the line was sent and
\* before all that is still in the driver.
ReadFresh ==
  at \in {"read", "show"} =>
    \A i \in 1..len :
      /\ rx_buf[i] > sentAt /\ rx_buf[i] <= arrived
      /\ \A j \in 1..len : i < j => rx_buf[i] < rx_buf[j]
      /\ \A k \in DOMAIN inq : rx_buf[i] < inq[k]

\* What the other tools have in the driver and have read of this exchange.
AllInOrder ==
  /\ inq = [i \in 1..(arrived - taken) |-> taken + i] /\ taken <= arrived
  /\ at \in {"read", "show"} => \A i \in 1..len : i <= RxSize => rx_buf[i] = taken - len + i

\* The rest of AnswersFresh.
ShownInHex == tool = "init_uart" /\ hex => \A i \in DOMAIN shown : i > 1 => shown[i] > shown[i - 1]
OverrunKnown == overrun => tool = "test_uart_v2" /\ taken > RxSize

StInv ==
  /\ StType /\ Flow /\ ShownInHex /\ OverrunKnown
  /\ tool = "init_uart" => Flushed /\ ReadFresh
  /\ tool # "init_uart" => AllInOrder

\* There is room for a byte.
LEMMA RxPositive == RxSize \in Nat /\ RxSize > 0
BY ToolAssumption

\* Before the first line nothing has come and nothing was read.
LEMMA StInitInv == StInit => StInv
<1> SUFFICES ASSUME StInit PROVE StInv
  OBVIOUS
<1>1. StType
  BY RxPositive DEF StInit, StType
<1>2. Flow /\ ShownInHex /\ OverrunKnown
  BY RxPositive DEF StInit, Flow, ShownInHex, OverrunKnown
<1>3. Flushed /\ ReadFresh
  BY DEF StInit, Flushed, ReadFresh
<1>4. AllInOrder
  BY DEF StInit, AllInOrder
<1> QED BY <1>1, <1>2, <1>3, <1>4 DEF StInv

\* Steps that only lead from one place of a tool to another.
LEMMA MovesKeep ==
  ASSUME StInv,
         \/ EndOfInput \/ TestReadsNothing \/ TestReadFails \/ V2ReadsNothing \/ V2ReadFails
         \/ PollReady \/ PollTimesOut \/ Received
  PROVE  StInv'
<1>1. /\ UNCHANGED <<tool, hex, len, rx_buf, taken, overrun, inq, arrived, hungup, sentAt, shown>>
      /\ at' \in {"poll", "restart"} => at = "poll" /\ tool = "init_uart"
      /\ at' = "send" => at = "poll"
      /\ at' = "read" => at \in {"poll", "read"}
      /\ at' = "show" => at \in {"poll", "read", "show"}
  <2>1. CASE EndOfInput \/ TestReadsNothing \/ TestReadFails
    BY <2>1 DEF EndOfInput, TestReadsNothing, TestReadFails, terminal, received, driver
  <2>2. CASE V2ReadsNothing \/ V2ReadFails \/ Received
    BY <2>2 DEF V2ReadsNothing, V2ReadFails, Received, ReadingOver, terminal, received, driver
  <2>3. CASE PollReady \/ PollTimesOut
    BY <2>3 DEF PollReady, PollTimesOut, terminal, received, driver, StInv, Flow
  <2> QED BY <2>1, <2>2, <2>3
<1>2. StType' /\ Flow' /\ ShownInHex' /\ OverrunKnown'
  BY <1>1 DEF StInv, StType, Flow, ShownInHex, OverrunKnown
<1>3. tool = "init_uart" => Flushed' /\ ReadFresh'
  BY <1>1 DEF StInv, StType, Flow, Flushed, ReadFresh
<1>4. tool # "init_uart" => AllInOrder'
  BY <1>1 DEF StInv, Flow, AllInOrder
<1> QED BY <1>1, <1>2, <1>3, <1>4 DEF StInv

\* A line is sent; init_uart flushes the line before (init_uart.c:415).
LEMMA SendsKeep ==
  ASSUME StInv, TestSend \/ V2Send \/ Try \/ SendAgain
  PROVE  StInv'
<1>1. /\ UNCHANGED <<tool, hex, len, rx_buf, taken, overrun, arrived, hungup, shown>>
      /\ sentAt' = arrived
      /\ at' \in {"poll", "read"} \/ (tool = "uart_send_recv" /\ at' = at)
      /\ at' = "poll" => Try
      /\ at = "send" \/ (tool = "uart_send_recv" /\ at' = at)
  BY DEF TestSend, V2Send, Try, SendAgain, terminal, received, driver
<1>2. tool = "init_uart" => at = "send" /\ at' = "poll" /\ inq' = << >>
  BY DEF TestSend, V2Send, Try, SendAgain
<1>3. tool # "init_uart" => inq' = inq
  BY DEF TestSend, V2Send, Try, SendAgain, driver
<1>4. StType'
  <2>1. inq' \in Seq(Nat)
    <3>1. CASE tool = "init_uart"
      BY <1>2, <3>1
    <3>2. CASE tool # "init_uart"
      BY <1>3, <3>2 DEF StInv, StType
    <3> QED BY <3>1, <3>2
  <2> QED BY <1>1, <2>1 DEF StInv, StType
<1>5. Flow' /\ ShownInHex' /\ OverrunKnown'
  BY <1>1, <1>2 DEF StInv, Flow, ShownInHex, OverrunKnown, Try
<1>6. tool = "init_uart" => Flushed' /\ ReadFresh'
  BY <1>2 DEF Flushed, ReadFresh
<1>7. tool # "init_uart" => AllInOrder'
  BY <1>1, <1>3 DEF StInv, StType, Flow, AllInOrder
<1> QED BY <1>1, <1>4, <1>5, <1>6, <1>7 DEF StInv

\* The driver takes a byte in.
LEMMA ByteKeeps == StInv /\ ByteComes => StInv'
<1> SUFFICES ASSUME StInv, ByteComes PROVE StInv'
  OBVIOUS
<1>1. /\ UNCHANGED <<tool, hex, at, len, rx_buf, taken, overrun, hungup, sentAt, shown>>
      /\ arrived' = arrived + 1 /\ inq' = Append(inq, arrived + 1)
  BY DEF ByteComes, terminal, received
<1>2. StType'
  BY <1>1 DEF StInv, StType
<1>3. Flow' /\ ShownInHex' /\ OverrunKnown'
  BY <1>1 DEF StInv, Flow, ShownInHex, OverrunKnown
<1>4. /\ Len(inq) \in Nat /\ DOMAIN inq = 1..Len(inq) /\ DOMAIN inq' = 1..(Len(inq) + 1)
      /\ inq'[Len(inq) + 1] = arrived + 1 /\ \A i \in DOMAIN inq : inq'[i] = inq[i]
  BY <1>1 DEF StInv, StType
<1>5. ASSUME tool = "init_uart" PROVE Flushed' /\ ReadFresh'
  <2> USE DEF StInv, StType
  <2>1. \A i \in DOMAIN inq : inq[i] \in Nat /\ inq[i] <= arrived
    BY <1>5 DEF Flushed
  <2>2. \A i \in DOMAIN inq' : i \in DOMAIN inq \/ i = Len(inq) + 1
    BY <1>4
  <2>3. Flushed'
    <3>1. \A i \in DOMAIN inq' : inq'[i] <= arrived'
      BY <1>1, <1>4, <2>1, <2>2
    <3>2. \A i, j \in DOMAIN inq' : i < j => inq'[i] < inq'[j]
      BY <1>4, <1>5, <2>1, <2>2 DEF Flushed
    <3>3. at' \in {"poll", "restart", "read", "show"} => \A i \in DOMAIN inq' : inq'[i] > sentAt'
      BY <1>1, <1>4, <1>5, <2>1, <2>2 DEF Flushed
    <3> QED BY <3>1, <3>2, <3>3 DEF Flushed
  <2>4. ReadFresh'
    <3>1. \A i \in 1..len : rx_buf[i] \in Nat
      BY <1>5, RxPositive DEF Flow
    <3>2. at \in {"read", "show"} => \A i \in 1..len : \A k \in DOMAIN inq' : rx_buf[i] < inq'[k]
      <4> SUFFICES ASSUME at \in {"read", "show"}, NEW i \in 1..len, NEW k \in DOMAIN inq'
                   PROVE  rx_buf[i] < inq'[k]
        OBVIOUS
      <4>1. rx_buf[i] <= arrived /\ arrived \in Nat /\ rx_buf[i] \in Nat
        BY <1>5, <3>1 DEF ReadFresh
      <4>2. CASE k \in DOMAIN inq
        BY <1>4, <1>5, <4>2 DEF ReadFresh
      <4>3. CASE k = Len(inq) + 1
        BY <1>4, <4>1, <4>3
      <4> QED BY <2>2, <4>2, <4>3
    <3>3. at \in {"read", "show"} => \A i \in 1..len : rx_buf[i] <= arrived'
      BY <1>1, <1>5, <3>1 DEF ReadFresh
    <3> QED BY <1>1, <1>5, <3>2, <3>3 DEF ReadFresh
  <2> QED BY <2>3, <2>4
<1>6. ASSUME tool # "init_uart" PROVE AllInOrder'
  <2>1. inq' = [i \in 1..(arrived' - taken') |-> taken' + i]
    BY <1>1, <1>4, <1>6 DEF StInv, StType, AllInOrder
  <2> QED BY <1>1, <1>6, <2>1 DEF StInv, StType, AllInOrder
<1> QED BY <1>1, <1>2, <1>3, <1>5, <1>6 DEF StInv

\* What is left of a sequence without its first elements.
LEMMA Dropping ==
  ASSUME NEW S, NEW s \in Seq(S), NEW n \in 0..Len(s), NEW t, t = SubSeq(s, n + 1, Len(s))
  PROVE  /\ t \in Seq(S) /\ Len(t) = Len(s) - n
         /\ \A i \in DOMAIN t : i + n \in DOMAIN s /\ t[i] = s[i + n]
<1>1. Len(s) \in Nat /\ n \in Nat /\ n <= Len(s)
  OBVIOUS
<1>2. \A i \in (n + 1)..Len(s) : s[i] \in S
  BY <1>1
<1>3. /\ SubSeq(s, n + 1, Len(s)) \in Seq(S)
      /\ Len(SubSeq(s, n + 1, Len(s))) = IF n + 1 <= Len(s) THEN Len(s) - (n + 1) + 1 ELSE 0
      /\ \A i \in 1..(Len(s) - (n + 1) + 1) : SubSeq(s, n + 1, Len(s))[i] = s[(n + 1) + i - 1]
  BY <1>1, <1>2, SubSeqProperties
<1>4. t \in Seq(S) /\ Len(t) = Len(s) - n
  BY <1>1, <1>3
<1>5. ASSUME NEW i \in DOMAIN t PROVE i + n \in DOMAIN s /\ t[i] = s[i + n]
  <2>1. i \in 1..(Len(s) - n)
    BY <1>4
  <2>2. i \in 1..(Len(s) - (n + 1) + 1) /\ (n + 1) + i - 1 = i + n /\ i + n \in 1..Len(s)
    BY <1>1, <2>1
  <2> QED BY <1>3, <2>2
<1> QED BY <1>4, <1>5

\* A read stores the first bytes of the driver behind those of this exchange.
LEMMA Taking ==
  ASSUME StType, NEW max \in Nat \ {0}, inq # << >>, TakeIn(max)
  PROVE  \E n \in 1..max :
           /\ n <= Len(inq) /\ len' = len + n /\ taken' = taken + n
           /\ overrun' => overrun \/ len + n > RxSize
           /\ inq' \in Seq(Nat) /\ Len(inq') = Len(inq) - n
           /\ \A i \in DOMAIN inq' : i + n \in DOMAIN inq /\ inq'[i] = inq[i + n]
           /\ rx_buf' \in [1..RxSize -> Nat]
           /\ \A i \in 1..RxSize : /\ i <= len => rx_buf'[i] = rx_buf[i]
                                   /\ i > len /\ i <= len + n => i - len \in DOMAIN inq /\ rx_buf'[i] = inq[i - len]
<1> DEFINE n == IF Len(inq) < max THEN Len(inq) ELSE max
<1>1. n \in 1..max /\ n <= Len(inq) /\ Len(inq) \in Nat
  BY DEF StType
<1>2. /\ rx_buf' = [i \in 1..RxSize |-> IF i \in (len + 1)..(len + n) THEN inq[i - len] ELSE rx_buf[i]]
      /\ overrun' => overrun \/ len + n > RxSize
      /\ len' = len + n /\ taken' = taken + n
      /\ inq' = SubSeq(inq, n + 1, Len(inq))
  BY DEF TakeIn
<1> HIDE DEF n
<1>3. n \in 0..Len(inq) /\ inq \in Seq(Nat)
  BY <1>1 DEF StType
<1>4. /\ inq' \in Seq(Nat) /\ Len(inq') = Len(inq) - n
      /\ \A i \in DOMAIN inq' : i + n \in DOMAIN inq /\ inq'[i] = inq[i + n]
  BY <1>2, <1>3, Dropping
<1>5. \A i \in (len + 1)..(len + n) : i - len \in DOMAIN inq /\ inq[i - len] \in Nat
  BY <1>1 DEF StType
<1>6. rx_buf' \in [1..RxSize -> Nat]
  BY <1>2, <1>5 DEF StType
<1>7. \A i \in 1..RxSize : /\ i <= len => rx_buf'[i] = rx_buf[i]
                           /\ i > len /\ i <= len + n => i - len \in DOMAIN inq /\ rx_buf'[i] = inq[i - len]
  BY <1>1, <1>2, <1>5, RxPositive DEF StType
<1> QED BY <1>1, <1>2, <1>4, <1>6, <1>7

\* The three ways to read keep the order of the bytes; only test_uart_v2 can read more than
\* fits (test_uart_v2.c:270).
LEMMA ReadsKeep == StInv /\ (TestRead \/ V2Read \/ Dread) => StInv'
<1> SUFFICES ASSUME StInv, TestRead \/ V2Read \/ Dread PROVE StInv'
  OBVIOUS
<1>1. /\ UNCHANGED <<tool, hex, arrived, hungup, sentAt, shown>>
      /\ at = "read" /\ at' \in {"read", "show"} /\ inq # << >>
      /\ at' = "show" <=> tool = "test_uart"
  BY DEF TestRead, V2Read, Dread, terminal
<1>2. PICK max \in Nat \ {0} : TakeIn(max) /\ (tool # "test_uart_v2" => max <= RxSize - len)
  <2>1. CASE TestRead \/ V2Read
    BY <2>1, RxPositive DEF TestRead, V2Read, StInv, Flow
  <2>2. CASE Dread
    <3>1. RxSize - len \in Nat \ {0}
      BY <2>2, RxPositive DEF Dread, StInv, StType
    <3> QED BY <2>2, <3>1 DEF Dread
  <2> QED BY <2>1, <2>2
<1>3. PICK n \in 1..max :
           /\ n <= Len(inq) /\ len' = len + n /\ taken' = taken + n
           /\ overrun' => overrun \/ len + n > RxSize
           /\ inq' \in Seq(Nat) /\ Len(inq') = Len(inq) - n
           /\ \A i \in DOMAIN inq' : i + n \in DOMAIN inq /\ inq'[i] = inq[i + n]
           /\ rx_buf' \in [1..RxSize -> Nat]
           /\ \A i \in 1..RxSize : /\ i <= len => rx_buf'[i] = rx_buf[i]
                                   /\ i > len /\ i <= len + n => i - len \in DOMAIN inq /\ rx_buf'[i] = inq[i - len]
  BY <1>1, <1>2, Taking DEF StInv
<1>11. \A i \in DOMAIN inq' : i \in Nat /\ i > 0
  <2>1. DOMAIN inq' = 1..Len(inq') /\ Len(inq') \in Nat
    BY <1>3, LenProperties
  <2> QED BY <2>1
<1>12. \A i \in DOMAIN inq' : i + n \in DOMAIN inq /\ inq'[i] = inq[i + n]
  BY <1>3
<1>4. n \in Nat /\ n > 0 /\ (tool # "test_uart_v2" => len + n <= RxSize)
  BY <1>2, <1>3, RxPositive DEF StInv, StType
<1>5. StType'
  BY <1>1, <1>3, <1>4 DEF StInv, StType
<1>6. Flow'
  BY <1>1, <1>3, <1>4 DEF Flow
<1>7. ShownInHex'
  BY <1>1 DEF StInv, ShownInHex
<1>8. OverrunKnown'
  BY <1>1, <1>3, <1>4, RxPositive DEF StInv, StType, OverrunKnown
<1>9. ASSUME tool = "init_uart" PROVE Flushed' /\ ReadFresh'
  <2> USE <1>9 DEF StInv, StType
  <2>1. Flushed'
    <3>1. \A i \in DOMAIN inq' : i \in Nat /\ i + n \in DOMAIN inq /\ inq'[i] = inq[i + n]
      BY <1>11, <1>12
    <3> QED BY <1>1, <1>4, <3>1 DEF Flushed
  <2>2. \A i \in 1..len' : i \in 1..RxSize /\ (i \in 1..len \/ i - len \in DOMAIN inq)
    BY <1>3, <1>4, RxPositive
  <2>3. \A i \in 1..len : rx_buf'[i] = rx_buf[i]
    BY <1>3, <1>4, RxPositive
  <2>4. \A i \in 1..len' : i \notin 1..len => i > len /\ i <= len + n /\ rx_buf'[i] = inq[i - len]
    BY <1>3, <1>4, <2>2
  <2>5. \A i \in 1..len' : rx_buf'[i] > sentAt /\ rx_buf'[i] <= arrived
    BY <1>1, <2>2, <2>3, <2>4 DEF Flushed, ReadFresh
  <2>6. ASSUME NEW i \in 1..len', NEW j \in 1..len', i < j PROVE rx_buf'[i] < rx_buf'[j]
    <3>1. CASE j \in 1..len
      BY <1>1, <2>3, <2>6, <3>1 DEF ReadFresh
    <3>2. CASE j \notin 1..len /\ i \in 1..len
      BY <1>1, <2>2, <2>3, <2>4, <3>2 DEF ReadFresh
    <3>3. CASE j \notin 1..len /\ i \notin 1..len
      <4>1. i - len \in DOMAIN inq /\ j - len \in DOMAIN inq /\ i - len < j - len
        BY <1>3, <1>4, <2>2, <2>6, <3>3
      <4> QED BY <2>4, <3>3, <4>1 DEF Flushed
    <3> QED BY <3>1, <3>2, <3>3
  <2>7. ASSUME NEW i \in 1..len', NEW k \in DOMAIN inq' PROVE rx_buf'[i] < inq'[k]
    <3>1. k + n \in DOMAIN inq /\ inq'[k] = inq[k + n] /\ k \in Nat /\ k > 0
      BY <1>11, <1>12, <2>7
    <3>2. CASE i \in 1..len
      BY <1>1, <2>3, <3>1, <3>2 DEF ReadFresh
    <3>3. CASE i \notin 1..len
      <4>1. i - len \in DOMAIN inq /\ i - len < k + n
        <5>1. i - len \in DOMAIN inq /\ i <= len + n /\ i \in Nat
          BY <2>2, <2>4, <3>3
        <5>2. len \in Nat /\ n \in Nat
          BY <1>3, <1>4
        <5> QED BY <3>1, <5>1, <5>2
      <4> QED BY <2>4, <3>1, <3>3, <4>1 DEF Flushed
    <3> QED BY <3>2, <3>3
  <2> QED BY <1>1, <2>1, <2>5, <2>6, <2>7 DEF ReadFresh
<1>10. ASSUME tool # "init_uart" PROVE AllInOrder'
  <2> USE <1>10 DEF StInv, StType
  <2>1. /\ DOMAIN inq = 1..(arrived - taken) /\ Len(inq) = arrived - taken
        /\ \A i \in DOMAIN inq : inq[i] = taken + i
    BY DEF AllInOrder
  <2>2. taken' <= arrived'
    BY <1>1, <1>3, <1>4, <2>1
  <2>3. inq' = [i \in 1..(arrived' - taken') |-> taken' + i]
    <3>1. DOMAIN inq' = 1..(arrived' - taken')
      BY <1>1, <1>3, <1>4, <2>1
    <3>2. ASSUME NEW i \in DOMAIN inq' PROVE inq'[i] = taken' + i
      <4>1. i + n \in DOMAIN inq /\ inq'[i] = inq[i + n] /\ i \in Nat
        BY <1>11, <1>12, <3>2
      <4> QED BY <1>3, <1>4, <2>1, <4>1
    <3>3. inq' = [i \in DOMAIN inq' |-> inq'[i]]
      BY <1>3
    <3> QED BY <3>1, <3>2, <3>3
  <2>4. ASSUME NEW i \in 1..len', i <= RxSize PROVE rx_buf'[i] = taken' - len' + i
    <3>1. i \in 1..RxSize
      BY <1>3, <2>4, RxPositive
    <3>2. CASE i <= len
      BY <1>1, <1>3, <1>4, <2>4, <3>1, <3>2 DEF AllInOrder
    <3>3. CASE i > len
      <4>1. i - len \in DOMAIN inq /\ rx_buf'[i] = inq[i - len]
        BY <1>3, <2>4, <3>1, <3>3
      <4>2. inq[i - len] = taken + (i - len)
        BY <2>1, <4>1
      <4> QED BY <1>3, <1>4, <4>1, <4>2
    <3> QED BY <3>1, <3>2, <3>3
  <2> QED BY <2>2, <2>3, <2>4 DEF AllInOrder
<1> QED BY <1>1, <1>5, <1>6, <1>7, <1>8, <1>9, <1>10 DEF StInv

\* init_uart throws away what has come, or a part of it stays (init_uart.c:361, 440).
LEMMA FlushesKeep == StInv /\ (RestartLine \/ AnswerRead) => StInv'
<1> SUFFICES ASSUME StInv, RestartLine \/ AnswerRead PROVE StInv'
  OBVIOUS
<1>1. /\ UNCHANGED <<tool, hex, len, rx_buf, taken, overrun, arrived, hungup, sentAt, shown>>
      /\ tool = "init_uart" /\ at \in {"restart", "read"} /\ at' \in {"read", "exit", "show", "fgets"}
      /\ at' = "show" => at = "read"
      /\ inq' = << >> \/ inq' = inq
  BY DEF RestartLine, AnswerRead, ReadingOver, terminal, received, StInv, Flow
<1>2. CASE inq' = << >>
  <2>1. inq' \in Seq(Nat) /\ DOMAIN inq' = {}
    BY <1>2
  <2>2. StType' /\ Flow' /\ ShownInHex' /\ OverrunKnown'
    BY <1>1, <2>1 DEF StInv, StType, Flow, ShownInHex, OverrunKnown
  <2>3. Flushed' /\ ReadFresh'
    BY <1>1, <2>1 DEF StInv, StType, Flow, Flushed, ReadFresh
  <2> QED BY <1>1, <2>2, <2>3 DEF StInv
<1>3. CASE inq' = inq
  <2>1. StType' /\ Flow' /\ ShownInHex' /\ OverrunKnown'
    BY <1>1, <1>3 DEF StInv, StType, Flow, ShownInHex, OverrunKnown
  <2>2. Flushed' /\ ReadFresh'
    BY <1>1, <1>3 DEF StInv, StType, Flow, Flushed, ReadFresh
  <2> QED BY <1>1, <2>1, <2>2 DEF StInv
<1> QED BY <1>1, <1>2, <1>3

\* A line is typed, and nothing of its answer has been read.
LEMMA TypeKeeps == StInv /\ TypeLine => StInv'
<1> SUFFICES ASSUME StInv, TypeLine PROVE StInv'
  OBVIOUS
<1>1. /\ UNCHANGED <<tool, hex, rx_buf, taken, overrun, inq, arrived, hungup, sentAt, shown>>
      /\ len' = 0 /\ at' \in {"send", "fgets"}
  BY DEF TypeLine, driver
<1>2. StType' /\ Flow' /\ ShownInHex' /\ OverrunKnown'
  BY <1>1, RxPositive DEF StInv, StType, Flow, ShownInHex, OverrunKnown
<1>3. tool = "init_uart" => Flushed' /\ ReadFresh'
  BY <1>1 DEF StInv, Flushed, ReadFresh
<1>4. tool # "init_uart" => AllInOrder'
  BY <1>1 DEF StInv, AllInOrder
<1> QED BY <1>1, <1>2, <1>3, <1>4 DEF StInv

\* What init_uart prints in hex is what it has read.
LEMMA ShowKeeps == StInv /\ Show => StInv'
<1> SUFFICES ASSUME StInv, Show PROVE StInv'
  OBVIOUS
<1>1. /\ UNCHANGED <<tool, hex, rx_buf, taken, overrun, inq, arrived, hungup, sentAt>>
      /\ len' = 0 /\ at = "show" /\ at' = IF tool = "uart_send_recv" THEN "read" ELSE "fgets"
      /\ shown' = IF hex THEN InBuf(len) ELSE InBuf(len) \o StaleTail
  BY DEF Show, terminal, driver
<1>2. StType' /\ Flow' /\ OverrunKnown'
  BY <1>1, RxPositive DEF StInv, StType, Flow, OverrunKnown
<1>3. ShownInHex'
  <2> SUFFICES ASSUME tool = "init_uart", hex,
                      NEW i \in DOMAIN shown', i > 1
               PROVE  shown'[i] > shown'[i - 1]
    BY <1>1 DEF ShownInHex
  <2>1. shown' = SubSeq(rx_buf, 1, len) /\ len \in Nat /\ len <= RxSize
    <3>1. len \in Nat /\ len <= RxSize
      BY DEF StInv, StType, Flow
    <3>2. (IF len < RxSize THEN len ELSE RxSize) = len
      BY <3>1, RxPositive
    <3> QED BY <1>1, <3>1, <3>2 DEF InBuf
  <2>2. \A k \in 1..len : rx_buf[k] \in Nat
    BY <2>1, RxPositive DEF StInv, StType
  <2>3. /\ SubSeq(rx_buf, 1, len) \in Seq(Nat)
        /\ Len(SubSeq(rx_buf, 1, len)) = IF 1 <= len THEN len - 1 + 1 ELSE 0
        /\ \A k \in 1..(len - 1 + 1) : SubSeq(rx_buf, 1, len)[k] = rx_buf[1 + k - 1]
    BY <2>1, <2>2, SubSeqProperties
  <2>4. i \in 1..len /\ i - 1 \in 1..len /\ i - 1 < i
    BY <2>1, <2>3
  <2>5. shown'[i] = rx_buf[i] /\ shown'[i - 1] = rx_buf[i - 1]
    BY <2>1, <2>3, <2>4
  <2> QED BY <1>1, <2>2, <2>4, <2>5 DEF StInv, ReadFresh
<1>4. tool = "init_uart" => Flushed' /\ ReadFresh'
  BY <1>1 DEF StInv, Flushed, ReadFresh
<1>5. tool # "init_uart" => AllInOrder'
  BY <1>1 DEF StInv, AllInOrder
<1> QED BY <1>1, <1>2, <1>3, <1>4, <1>5 DEF StInv

\* The invariant holds of every behaviour of the four tools.
LEMMA StAlways == StSpec => []StInv
<1>1. ASSUME StInv, HangUp PROVE StInv'
  <2>1. UNCHANGED <<tool, hex, at, len, rx_buf, taken, overrun, inq, arrived, sentAt, shown>> /\ hungup'
    BY <1>1 DEF HangUp, terminal, received
  <2> QED BY <1>1, <2>1 DEF StInv, StType, Flow, Flushed, ReadFresh, AllInOrder, ShownInHex,
                            OverrunKnown
<1>2. ASSUME StInv, UNCHANGED stVars PROVE StInv'
  BY <1>2 DEF stVars, StInv, StType, Flow, Flushed, ReadFresh, AllInOrder, ShownInHex,
              OverrunKnown
<1>3. StInv /\ [StNext]_stVars => StInv'
  BY <1>1, <1>2, MovesKeep, SendsKeep, ByteKeeps, ReadsKeep, FlushesKeep, TypeKeeps, ShowKeeps DEF StNext
<1> QED BY StInitInv, <1>3, PTL DEF StSpec

\* init_uart prints only what came after it had sent the line (init_uart.c:415-440), the other
\* tools read every byte once and in order, and only test_uart_v2 stores behind its buffer,
\* for any buffer, any number of lines and attempts and whenever bytes come.
THEOREM AnswersSafe == StSpec => []AnswersFresh
<1>1. ASSUME StInv PROVE AnswersFresh
  <2> USE <1>1 DEF StInv
  <2>1. tool = "init_uart" /\ at = "show" =>
          \A i \in 1..len : rx_buf[i] > sentAt /\ (i > 1 => rx_buf[i] > rx_buf[i - 1])
    <3> SUFFICES ASSUME tool = "init_uart", at = "show", NEW i \in 1..len
                 PROVE  rx_buf[i] > sentAt /\ (i > 1 => rx_buf[i] > rx_buf[i - 1])
      OBVIOUS
    <3>1. len <= RxSize /\ len \in Nat
      BY DEF Flow, StType
    <3>2. \A k \in 1..len : rx_buf[k] \in Nat
      BY <3>1, RxPositive DEF StType
    <3>3. i > 1 => i - 1 \in 1..len /\ i - 1 < i
      BY <3>1
    <3> QED BY <3>2, <3>3 DEF ReadFresh
  <2>2. tool # "init_uart" => /\ inq = [i \in 1..(arrived - taken) |-> taken + i]
                              /\ at = "show" => \A i \in 1..len : i <= RxSize => rx_buf[i] = taken - len + i
    BY DEF AllInOrder
  <2>3. overrun => tool = "test_uart_v2" /\ taken > RxSize
    BY DEF OverrunKnown
  <2> QED BY <2>1, <2>2, <2>3 DEF AnswersFresh, ShownInHex
<1> QED BY <1>1, StAlways, PTL

(* PppCall.                                                                *)

\* The loop of pppd_start is entered with time left.
PollHasTime == pc = "poll" => timeout > 0

\* pppd_start forks only after its own killall.
AllToldToEnd == pc = "exec" => alive = doomed

\* OneDialer, without counting.
SameDialer == \A p, q \in alive \ doomed : p = q

Dialing == {"start_kill", "exec", "poll", "poll_status", "open", "clear_load"}

\* What pppd_status can be at each place of the loop: the value that led there, or
\* what the handler has stored over it since.
Branch == STOP \in status \/ status \in {{START}, {ONLINE}}

StatusKnown ==
  /\ pc = "top" => Branch
  /\ pc = "test_start" => status \in {{START}, {ONLINE}, {STOP}}
  /\ pc \in Dialing \union {"clear_store"} => status \in {{START}, {STOP}}
  /\ pc = "clear_store" => reg \in {{START}, {STOP}}
  /\ pc \in {"set_load", "set_store"} => status \in {{}, {STOP}}
  /\ pc = "set_store" => reg \in {{}, {STOP}}
  /\ pc \in {"test_online", "ping"} => STOP \in status \/ status = {ONLINE}

PppInv == TypeOK /\ PollHasTime /\ AllToldToEnd /\ SameDialer /\ StatusKnown

\* A set whose members are all the same has at most one.
LEMMA AtMostOne ==
  ASSUME NEW S, \A p, q \in S : p = q
  PROVE  Cardinality(S) <= 1
<1>1. CASE S = {}
  BY <1>1, FS_EmptySet
<1>2. CASE S # {}
  <2>1. PICK p \in S : TRUE
    BY <1>2
  <2>2. S = {p}
    BY <2>1
  <2>3. Cardinality({p}) = 1
    BY FS_Singleton
  <2> QED BY <2>2, <2>3
<1> QED BY <1>1, <1>2

\* The supervisor starts without a child and with START alone (ppp_call.c:30, 215).
LEMMA PppInit == Init => PppInv
<1> SUFFICES ASSUME Init PROVE PppInv
  OBVIOUS
<1>1. TypeOK
  <2>1. pc \in Places /\ status \subseteq {STOP, START, ONLINE} /\ reg \subseteq {STOP, START, ONLINE}
    BY DEF Init, Places
  <2>2. timeout \in 0..StartTimeout /\ errors \in 0..PingCount
    BY PppCallAssumption DEF Init
  <2>3. pending \in BOOLEAN /\ link \in BOOLEAN
    BY Zenon DEF Init
  <2> QED BY <2>1, <2>2, <2>3 DEF Init, TypeOK
<1>2. PollHasTime /\ AllToldToEnd /\ SameDialer
  BY DEF Init, PollHasTime, AllToldToEnd, SameDialer
<1>3. StatusKnown
  BY DEF Init, StatusKnown, Branch, Dialing
<1> QED BY <1>1, <1>2, <1>3 DEF PppInv

\* The steps of the main loop keep every variable in its range and the counters
\* within their limits (ppp_call.c:127-140, 243-252).
LEMMA MainTyped == PppInv /\ MainStep => TypeOK' /\ PollHasTime'
<1> SUFFICES ASSUME PppInv, MainStep PROVE TypeOK' /\ PollHasTime'
  OBVIOUS
<1> USE PppCallAssumption DEF PppInv, TypeOK, PollHasTime, Places, Goto, pppd
<1>1. CASE TestStop \/ StopScripts \/ StopPppd \/ StopUnlink \/ StopDone
  BY <1>1 DEF TestStop, StopScripts, StopPppd, StopUnlink, StopDone, KillallPppd, START
<1>2. CASE TestStart \/ StartKill \/ ForkFails
  BY <1>2 DEF TestStart, StartKill, ForkFails, StartFails, KillallPppd, STOP
<1>3. CASE Exec
  BY <1>3 DEF Exec
<1>4. CASE Poll
  BY <1>4 DEF Poll
<1>5. CASE PollAgain \/ PollGivesUp \/ OpenLink \/ OpenLinkFails
  BY <1>5 DEF PollAgain, PollGivesUp, OpenLink, OpenLinkFails, StartFails, STOP
<1>6. CASE ClearLoad \/ ClearStore \/ SetLoad \/ SetStore
  BY <1>6 DEF ClearLoad, ClearStore, SetLoad, SetStore, ONLINE
<1>7. CASE TestOnline \/ PingOk
  BY <1>7 DEF TestOnline, PingOk
<1>8. CASE PingFails
  <2>1. UNCHANGED <<reg, timeout>> /\ UNCHANGED pppd /\ pc' = "top"
    BY <1>8 DEF PingFails
  <2>2. status' = {STOP} \/ status' = status
    BY <1>8 DEF PingFails
  <2>3. errors' \in 0..PingCount
    BY <1>8 DEF PingFails
  <2> QED BY <2>1, <2>2, <2>3
<1> QED BY <1>1, <1>2, <1>3, <1>4, <1>5, <1>6, <1>7, <1>8 DEF MainStep

\* Only pppd_start makes a pppd, and it has told all the others to end before
\* (ppp_call.c:106, 111).
LEMMA MainDials == PppInv /\ MainStep => AllToldToEnd' /\ SameDialer'
<1> SUFFICES ASSUME PppInv, MainStep PROVE AllToldToEnd' /\ SameDialer'
  OBVIOUS
<1> USE DEF PppInv, AllToldToEnd, SameDialer, Goto, pppd
<1>1. CASE TestStop \/ StopScripts \/ StopUnlink \/ StopDone \/ TestStart \/ TestOnline
  BY <1>1 DEF TestStop, StopScripts, StopUnlink, StopDone, TestStart, TestOnline
<1>2. CASE StopPppd \/ StartKill
  BY <1>2 DEF StopPppd, StartKill, KillallPppd
<1>3. CASE Exec
  BY <1>3 DEF Exec
<1>4. CASE ForkFails \/ Poll \/ PollAgain \/ PollGivesUp \/ OpenLink \/ OpenLinkFails
  BY <1>4 DEF ForkFails, Poll, PollAgain, PollGivesUp, OpenLink, OpenLinkFails, StartFails
<1>5. CASE ClearLoad \/ ClearStore \/ SetLoad \/ SetStore \/ PingOk \/ PingFails
  BY <1>5 DEF ClearLoad, ClearStore, SetLoad, SetStore, PingOk, PingFails
<1> QED BY <1>1, <1>2, <1>3, <1>4, <1>5 DEF MainStep

\* The main loop moves pppd_status along its branches (ppp_call.c:230-257).
LEMMA MainStatus == PppInv /\ MainStep => StatusKnown'
<1> SUFFICES ASSUME PppInv, MainStep PROVE StatusKnown'
  OBVIOUS
<1> USE DEF PppInv, TypeOK, StatusKnown, Branch, Dialing, Places, Goto, START, STOP, ONLINE
<1>1. CASE TestStop \/ StopScripts \/ StopPppd \/ StopUnlink
  BY <1>1 DEF TestStop, StopScripts, StopPppd, StopUnlink
<1>2. CASE StopDone \/ TestStart
  BY <1>2 DEF StopDone, TestStart
<1>3. CASE StartKill \/ Exec \/ ForkFails
  BY <1>3 DEF StartKill, Exec, ForkFails, StartFails
<1>4. CASE Poll \/ PollAgain \/ PollGivesUp \/ OpenLink \/ OpenLinkFails
  BY <1>4 DEF Poll, PollAgain, PollGivesUp, OpenLink, OpenLinkFails, StartFails
<1>5. CASE ClearLoad \/ ClearStore
  BY <1>5 DEF ClearLoad, ClearStore
<1>6. CASE SetLoad \/ SetStore
  BY <1>6 DEF SetLoad, SetStore
<1>7. CASE TestOnline \/ PingOk \/ PingFails
  BY <1>7 DEF TestOnline, PingOk, PingFails
<1> QED BY <1>1, <1>2, <1>3, <1>4, <1>5, <1>6, <1>7 DEF MainStep

\* The handler may run between any two steps: what it stores is a value every
\* branch accepts (ppp_call.c:186).
LEMMA HandlerKeeps == PppInv /\ ChildSignal => PppInv'
BY DEF ChildSignal, PppInv, TypeOK, PollHasTime, AllToldToEnd, SameDialer,
   StatusKnown, Branch, Dialing, STOP, START, ONLINE

\* A pppd and its scripts touch neither the loop nor the other processes.
LEMMA PppdKeeps == PppInv /\ PppdStep => PppInv'
<1> SUFFICES ASSUME PppInv, NEW p \in Pids,
                    LinkUp(p) \/ IpUp(p) \/ LinkDown(p) \/ IpDown(p) \/ Die(p)
             PROVE  PppInv'
  BY DEF PppdStep
<1>1. UNCHANGED main
  BY DEF LinkUp, IpUp, LinkDown, IpDown, Die
<1>2. PollHasTime' /\ StatusKnown'
  BY <1>1 DEF PppInv, PollHasTime, StatusKnown, Branch, main
<1>3. TypeOK'
  BY <1>1 DEF LinkUp, IpUp, LinkDown, IpDown, Die, main, PppInv, TypeOK
<1>4. AllToldToEnd' /\ SameDialer'
  BY <1>1 DEF LinkUp, IpUp, LinkDown, IpDown, Die, main, PppInv, AllToldToEnd, SameDialer
<1> QED BY <1>2, <1>3, <1>4 DEF PppInv

\* No step of the three parties breaks the invariant.
LEMMA PppStep == PppInv /\ [Next]_vars => PppInv'
<1>1. ASSUME PppInv, UNCHANGED vars PROVE PppInv'
  BY <1>1 DEF vars, PppInv, TypeOK, PollHasTime, AllToldToEnd, SameDialer, StatusKnown, Branch
<1> QED BY <1>1, MainTyped, MainDials, MainStatus, HandlerKeeps, PppdKeeps DEF Next, PppInv

\* The invariant holds of every behaviour of the supervisor.
LEMMA PppAlways == Spec => []PppInv
BY PppInit, PppStep, PTL DEF Spec

\* The supervisor's variables keep their types; in particular the poll never counts
\* below zero (ppp_call.c:130) nor the failed pings past PING_COUNT (ppp_call.c:245).
THEOREM TypeCorrect == Spec => []TypeOK
<1>1. PppInv => TypeOK
  BY DEF PppInv
<1> QED BY <1>1, PppAlways, PTL

\* However many pppd processes are started, fail and linger, at most one was not told
\* to end (ppp_call.c:92, 106, 111).
THEOREM OneDialerSafe == Spec => []OneDialer
<1>1. PppInv => OneDialer
  BY AtMostOne DEF PppInv, SameDialer, OneDialer
<1> QED BY <1>1, PppAlways, PTL

\* Wherever the handler interrupts it, the loop never comes back to its top with a
\* pppd_status that no branch acts on (ppp_call.c:186, 230-257).
THEOREM BranchSafe == Spec => []LoopHasABranch
<1>1. PppInv => LoopHasABranch
  BY DEF PppInv, StatusKnown, Branch, LoopHasABranch
<1> QED BY <1>1, PppAlways, PTL

=============================================================================
