------------------------------- MODULE AtModem -------------------------------
(***************************************************************************)
(* LTE/at: a driver that asks a modem for its SIM, registration, operator  *)
(* and signal by AT commands over a serial line, and the loop of its       *)
(* caller.  An answer is a sequence of pieces, each a run of bytes that    *)
(* arrives at once; it may arrive after the command's read has timed out   *)
(* and is then met by a later command.  Nothing in an answer says which    *)
(* command it belongs to.                                                  *)
(*                                                                         *)
(* The modem and the line are external.  Texts are abstracted to what the  *)
(* driver looks for in them.                                               *)
(***************************************************************************)
EXTENDS Naturals, Sequences, FiniteSets, SequencesExt

CONSTANTS
  BufCap,    \* AT_MAX_LEN, in pieces
  MaxLate    \* pieces on their way beyond which an unsteady modem ignores a command

ASSUME AtAssumption == BufCap \in Nat \ {0} /\ MaxLate \in Nat

VARIABLES
  api,       \* the caller's loop: over "get_sim" (main.c:31) or "get_signal" (main.c:18)
  pc,        \* "idle" between two checks, "send" or "read" in send_at_cmd, or "fault"
  cmd,       \* the command sent or about to be
  state,     \* msim.state, of which the code uses two values
  operator,  \* msim.operator: "none", "set", or "over" when the name did not fit
  signal,    \* the caller's signal: "none", of "this" check or of a "past" one
  ret,       \* how the last check ended: "none", "ok" or "fail"
  buf,       \* the pieces in buf
  rx,        \* received by the tty and not read
  coming,    \* what the modem has still to send
  half,      \* the modem has received the beginning of a command only
  steady,    \* the modem answers every command well and in time, writes succeed
  late,      \* history: a read of this check, or the check before, left something behind
  refused    \* history: a command of this check got no good answer, or the line failed

driver == <<cmd, state, operator, signal, ret>>
line == <<rx, coming, half>>
history == <<late, refused>>
atVars == <<api, pc, driver, buf, line, steady, history>>

\* What a modem answers that has a SIM, a network and a good signal.  The name of the
\* operator comes in two runs with one quotation mark each; with the run LONG2 it has
\* 16 characters or more (mat.h:17).
Goods(c) ==
  CASE c = "AT"   -> {<<"OK">>}
    [] c = "CPIN" -> {<<"READY", "OK">>}
    [] c = "CREG" -> {<<"REG1", "OK">>}
    [] c = "COPS" -> {<<"NAME1", "NAME2", "OK">>, <<"NAME1", "LONG2", "OK">>}
    [] c = "CSQ"  -> {<<"HIGH", "OK">>}

Answers(c) ==
  Goods(c) \union {<<"ERROR">>}
    \union (CASE c = "CREG" -> {<<"REG0", "OK">>}
              [] c = "COPS" -> {<<"NONAME", "OK">>}
              [] c = "CSQ"  -> {<<"LOW", "OK">>}
              [] OTHER -> {})

AtInit ==
  /\ api \in {"get_sim", "get_signal"}
  /\ pc = "idle" /\ cmd = "AT" /\ state = "ZERO"
  /\ operator = "none" /\ signal = "none" /\ ret = "none"
  /\ buf = << >> /\ rx = << >> /\ coming = << >> /\ half = FALSE
  /\ steady = FALSE /\ late = FALSE /\ refused = FALSE

------------------------------------------------------------------------------
(* The line and the modem.                                                 *)

Arrive ==
  /\ coming # << >> /\ pc # "fault"
  /\ rx' = Append(rx, Head(coming))
  /\ coming' = Tail(coming)
  /\ UNCHANGED <<api, pc, driver, buf, half, steady, history>>

Settle ==
  /\ ~steady /\ pc # "fault"
  /\ steady' = TRUE
  /\ UNCHANGED <<api, pc, driver, buf, line, history>>

Aged(s) == [i \in DOMAIN s |-> [s[i] EXCEPT !.old = TRUE]]
Fresh(texts) == [i \in DOMAIN texts |-> [text |-> texts[i], old |-> FALSE]]

\* What is on its way when the next command is sent belongs to an earlier one.
Reply(texts) ==
  /\ rx' = Aged(rx)
  /\ coming' = Aged(coming) \o Fresh(texts)

------------------------------------------------------------------------------
(* The driver.                                                             *)

\* mat_uart_check_sim_all, for get_sim after mat_uart_init: opening and setting up
\* the line discards what was received.
StartCheck ==
  /\ pc = "idle"
  /\ pc' = "send"
  /\ cmd' = IF api = "get_signal" /\ state = "REGISTER" THEN "CSQ" ELSE "AT"
  /\ signal' = IF signal = "this" THEN "past" ELSE signal
  /\ IF api = "get_sim" THEN rx' = << >> /\ operator' = "none" /\ state' = "ZERO"
                        ELSE UNCHANGED <<rx, operator, state>>
  /\ late' = (coming \o rx' # << >>)
  /\ refused' = FALSE
  /\ UNCHANGED <<api, ret, buf, coming, half, steady>>

\* The caller of get_sim keeps the values it has when the line cannot be opened.
OpenFails ==
  /\ pc = "idle" /\ api = "get_sim" /\ ~steady
  /\ ret' = "fail" /\ refused' = TRUE
  /\ signal' = IF signal = "this" THEN "past" ELSE signal
  /\ UNCHANGED <<api, pc, cmd, state, operator, buf, line, steady, late>>

\* The end of a check; for get_sim mat_uart_deinit discards what was received.
EndCheck(r) ==
  /\ pc' = "idle" /\ ret' = r
  /\ state' = IF r = "ok" THEN "REGISTER" ELSE "ZERO"
  /\ rx' = IF api = "get_sim" THEN << >> ELSE rx

\* The whole command is written; the modem answers it, or an unsteady one does not.
Send ==
  /\ pc = "send"
  /\ pc' = "read" /\ buf' = << >>
  /\ half' = FALSE
  /\ LET likely == IF half THEN {<<"ERROR">>} ELSE IF steady THEN Goods(cmd) ELSE Answers(cmd)
     IN  \E a \in likely \union {<< >>} :
           /\ a = << >> => ~steady
           /\ steady \/ Len(coming \o rx \o a) <= MaxLate \/ a = << >>
           /\ Reply(a)
           /\ refused' = (refused \/ a \notin Goods(cmd))
  /\ UNCHANGED <<api, driver, steady, late>>

\* write takes a part of the command and muart_write returns, as it does when an
\* error follows; send_at_cmd waits for the answer to what was never sent.
SendPart ==
  /\ pc = "send" /\ ~steady
  /\ pc' = "read" /\ buf' = << >>
  /\ half' = TRUE /\ refused' = TRUE
  /\ Reply(<< >>)
  /\ UNCHANGED <<api, driver, steady, late>>

SendFails ==
  /\ pc = "send" /\ ~steady
  /\ EndCheck("fail")
  /\ refused' = TRUE
  /\ UNCHANGED <<api, cmd, operator, signal, buf, coming, half, steady, late>>

Room == BufCap - Len(buf)

\* select says readable: read takes all there is room for.
Read ==
  /\ pc = "read" /\ Room > 0 /\ rx # << >>
  /\ LET n == IF Len(rx) < Room THEN Len(rx) ELSE Room
     IN  /\ buf' = buf \o SubSeq(rx, 1, n)
         /\ rx' = SubSeq(rx, n + 1, Len(rx))
  /\ UNCHANGED <<api, pc, driver, coming, half, steady, history>>

Holds(t) == \E p \in ToSet(buf) : p.text = t
QuoteAt == {i \in DOMAIN buf : buf[i].text \in {"NAME1", "NAME2", "LONG2"}}
Quotes == Cardinality(QuoteAt)

\* strstr for the second quotation mark returns NULL, which is written through.
NoSecondQuote == cmd = "COPS" /\ Holds("OK") /\ Quotes = 1

\* The number before the first comma, which another command's answer has as well.
Commas == {i \in DOMAIN buf : buf[i].text \in {"REG0", "REG1", "NAME1", "NAME2", "LONG2", "LOW", "HIGH"}}
FirstComma == buf[CHOOSE i \in Commas : \A j \in Commas : i <= j]
SignalHigh == Commas # {} /\ FirstComma.text = "HIGH"

Accepted ==
  CASE cmd = "AT"   -> Holds("OK")
    [] cmd = "CPIN" -> Holds("READY")
    [] cmd = "CREG" -> Holds("OK") /\ Holds("REG1")
    [] cmd = "COPS" -> Holds("OK") /\ Quotes >= 2
    [] cmd = "CSQ"  -> SignalHigh  \* the piece holds "+CSQ" too

\* Mutant of ReadOver: the time limit is given only once something has come.
ReadOverNever ==
  /\ pc = "read" /\ buf # << >>
  /\ Room = 0 \/ (rx = << >> /\ (steady => coming = << >>))

\* muart_read_nbytes returns: buf is full or nothing came for the time limit.
ReadOver ==
  /\ pc = "read"
  /\ Room = 0 \/ (rx = << >> /\ (steady => coming = << >>))

Following ==
  CASE cmd = "AT" -> "CPIN" [] cmd = "CPIN" -> "CREG" [] cmd = "CREG" -> "COPS" [] OTHER -> "CSQ"

NotYetAnswered == late' = (late \/ coming \o rx # << >>)

\* The first two quotation marks enclose a name that fits, or only such a mixture of
\* answers as may be shorter than 16 characters or longer.
Encloses(i, j) == i < j /\ \A k \in QuoteAt : k = i \/ k >= j
Fitting == \E i, j \in QuoteAt : Encloses(i, j) /\ buf[j].text # "LONG2"
Overlong == \E i, j \in QuoteAt : Encloses(i, j) /\ (i + 1 = j /\ buf[i].text = "NAME1" => buf[j].text # "NAME2")

NextCommand ==
  /\ ReadOver /\ ~NoSecondQuote /\ Accepted /\ cmd # "CSQ"
  /\ cmd = "COPS" => Fitting
  /\ cmd' = Following /\ pc' = "send"
  /\ operator' = IF cmd = "COPS" THEN "set" ELSE operator
  /\ NotYetAnswered
  /\ UNCHANGED <<api, state, signal, ret, buf, line, steady, refused>>

\* strncpy copies the name and its zero past the end of operator, over what the
\* program needs or not.
Overrun ==
  /\ ReadOver /\ Accepted /\ cmd = "COPS" /\ Overlong
  /\ operator' = "over"
  /\ \/ pc' = "fault" /\ UNCHANGED cmd
     \/ pc' = "send" /\ cmd' = Following
  /\ NotYetAnswered
  /\ UNCHANGED <<api, state, signal, ret, buf, line, steady, refused>>

\* Mutant of Succeed: the signal is compared but not stored.
SucceedUnstored ==
  /\ ReadOver /\ Accepted /\ cmd = "CSQ"
  /\ NotYetAnswered
  /\ EndCheck("ok")
  /\ UNCHANGED <<api, cmd, operator, signal, buf, coming, half, steady, refused>>

Succeed ==
  /\ ReadOver /\ Accepted /\ cmd = "CSQ"
  /\ signal' = IF FirstComma.old THEN "past" ELSE "this"
  /\ NotYetAnswered
  /\ EndCheck("ok")
  /\ UNCHANGED <<api, cmd, operator, buf, coming, half, steady, refused>>

Fail ==
  /\ ReadOver /\ ~NoSecondQuote /\ ~Accepted
  /\ NotYetAnswered
  /\ EndCheck("fail")
  /\ UNCHANGED <<api, cmd, operator, signal, buf, coming, half, steady, refused>>

Fault ==
  /\ ReadOver /\ NoSecondQuote
  /\ pc' = "fault"
  /\ UNCHANGED <<api, driver, buf, line, steady, history>>

DriverStep ==
  \/ StartCheck
  \/ OpenFails
  \/ Send
  \/ SendPart
  \/ SendFails
  \/ Read
  \/ NextCommand
  \/ Overrun
  \/ Succeed
  \/ Fail
  \/ Fault

AtNext == DriverStep \/ Arrive \/ Settle

\* The caller loops and what the modem sends arrives.
AtFairness == WF_atVars(DriverStep) /\ WF_atVars(Arrive)

AtSpec == AtInit /\ [][AtNext]_atVars /\ AtFairness

------------------------------------------------------------------------------
(* Properties.                                                             *)

\* A late answer is taken for the next command's (mat.c:63).  In a check that found the
\* line quiet and whose reads each ended with nothing outstanding, the driver succeeds
\* exactly when the modem gave every command of this check a good answer, and then
\* reports the signal of this check and an operator.  When it fails, it reports no new
\* signal: both callers go on with that of an earlier check (mat.c:261, main.c:32).  The
\* missing search for the second quotation mark (mat.c:188) brings such a check to no
\* fault; an operator's name of 16 characters or more may (mat.c:191).
RightUnlessLate ==
  ~late => /\ pc = "fault" => Holds("LONG2")
           /\ pc = "idle" /\ ret = "ok" => ~refused /\ signal = "this" /\ operator # "none"
           /\ pc = "idle" /\ ret = "fail" => refused /\ signal # "this"

\* However late answers were, once the modem keeps its time the driver gets back into
\* step with it, in both callers' loops, unless it has faulted before.
Resyncs == <>[](steady => ret = "ok" \/ pc = "fault")
==============================================================================
