----------------------------- MODULE SerialTool -----------------------------
(***************************************************************************)
(* The serial tools of uart/ once their line is set up.  test_uart,        *)
(* test_uart_v2 and init_uart take a line from the terminal, send it and   *)
(* print what comes back; uart_send_recv sends from one thread and         *)
(* receives in another.  They differ in how they find out that an answer   *)
(* is complete, and in what they do with answers that came too late.       *)
(*                                                                         *)
(* The driver and the device are external: bytes arrive at any time and    *)
(* carry the number of their arrival, which the programs do not see.       *)
(* What a line becomes when it is sent is HexLine of module Codec.         *)
(***************************************************************************)
EXTENDS Naturals, Sequences, SequencesExt

CONSTANTS
  RxSize,      \* sizeof(rx_buf), and the 22 uart_send_recv asks for
  SendTries,   \* how often init_uart sends before it starts the line again
  MaxLines,    \* lines typed
  MaxArrivals  \* bytes that arrive

ASSUME ToolAssumption == {RxSize, SendTries, MaxLines, MaxArrivals} \subseteq Nat \ {0}

VARIABLES
  tool,      \* "test_uart", "test_uart_v2", "init_uart" or "uart_send_recv"
  hex,       \* flag_data == 2
  at,        \* "fgets", "send", "poll", "restart", "read", "show" or "exit"
  lines, attempts,
  len,       \* bytes read in this exchange
  rx_buf,    \* its bytes by place, 0 where nothing was stored yet
  inq,       \* bytes in the driver
  arrived,   \* how many arrived
  hungup,    \* the device is gone: reads return 0 or fail
  sentAt,    \* history: how many had arrived when this line was last sent
  taken,     \* history: how many bytes were read in all
  overrun,   \* history: a byte was stored behind rx_buf
  shown      \* history: what was printed last

stVars == <<tool, hex, at, lines, attempts, len, rx_buf, inq, arrived, hungup, sentAt, taken, overrun, shown>>

terminal == <<tool, hex, lines>>
driver == <<inq, arrived, hungup>>
received == <<len, rx_buf, taken, overrun>>

StInit ==
  /\ tool \in {"test_uart", "test_uart_v2", "init_uart", "uart_send_recv"}
  /\ hex \in IF tool = "uart_send_recv" THEN {FALSE} ELSE BOOLEAN
  /\ at = IF tool = "uart_send_recv" THEN "read" ELSE "fgets"
  /\ lines = 0 /\ attempts = 0
  /\ len = 0 /\ rx_buf = [i \in 1..RxSize |-> 0]
  /\ inq = << >> /\ arrived = 0 /\ hungup = FALSE
  /\ sentAt = 0 /\ taken = 0 /\ overrun = FALSE /\ shown = << >>

------------------------------------------------------------------------------
(* The driver and the device.                                              *)

ByteComes ==
  /\ arrived < MaxArrivals /\ ~hungup /\ at # "exit"
  /\ arrived' = arrived + 1
  /\ inq' = Append(inq, arrived')
  /\ UNCHANGED <<terminal, at, attempts, received, hungup, sentAt, shown>>

HangUp ==
  /\ ~hungup /\ at # "exit"
  /\ hungup' = TRUE
  /\ UNCHANGED <<terminal, at, attempts, received, inq, arrived, sentAt, shown>>

------------------------------------------------------------------------------
(* The terminal: the three tools' common loop.                             *)

\* fgets, and the line put into the form it is sent in.  A line in hex may be refused.
TypeLine ==
  /\ at = "fgets" /\ lines < MaxLines
  /\ lines' = lines + 1
  /\ at' \in IF hex THEN {"send", "fgets"} ELSE {"send"}
  /\ attempts' = 0 /\ len' = 0
  /\ UNCHANGED <<tool, hex, driver, rx_buf, taken, overrun, sentAt, shown>>

EndOfInput ==
  /\ at = "fgets"
  /\ at' = "exit"
  /\ UNCHANGED <<terminal, attempts, received, driver, sentAt, shown>>

\* The bytes behind the ones read that %s goes on with, up to the first never stored.
StaleTail ==
  LET behind == SubSeq(rx_buf, len + 1, RxSize)
      blank == SelectInSeq(behind, LAMBDA b : b = 0)
  IN  IF blank = 0 THEN behind ELSE SubSeq(behind, 1, blank - 1)

InBuf(n) == SubSeq(rx_buf, 1, IF n < RxSize THEN n ELSE RxSize)

\* In hex exactly the bytes read are printed, as a string also what an earlier answer left.
Show ==
  /\ at = "show"
  /\ shown' = IF hex THEN InBuf(len) ELSE InBuf(len) \o StaleTail
  /\ at' = IF tool = "uart_send_recv" THEN "read" ELSE "fgets"
  /\ len' = 0
  /\ UNCHANGED <<terminal, attempts, driver, rx_buf, taken, overrun, sentAt>>

\* The bytes a read of up to max takes are stored behind those already there.
TakeIn(max) ==
  LET n == IF Len(inq) < max THEN Len(inq) ELSE max
  IN  /\ rx_buf' = [i \in 1..RxSize |-> IF i \in (len + 1)..(len + n) THEN inq[i - len] ELSE rx_buf[i]]
      /\ overrun' = (overrun \/ len + n > RxSize)
      /\ len' = len + n /\ taken' = taken + n
      /\ inq' = SubSeq(inq, n + 1, Len(inq))

------------------------------------------------------------------------------
(* test_uart: one write, one read of up to 20 seconds.                     *)

TestSend ==
  /\ tool = "test_uart" /\ at = "send"
  /\ at' = "read" /\ sentAt' = arrived
  /\ UNCHANGED <<terminal, attempts, received, driver, shown>>

TestRead ==
  /\ tool = "test_uart" /\ at = "read" /\ inq # << >>
  /\ TakeIn(RxSize)
  /\ at' = "show"
  /\ UNCHANGED <<terminal, attempts, arrived, hungup, sentAt, shown>>

\* The time is over or the line is gone: 0 bytes are printed like any other answer.
TestReadsNothing ==
  /\ tool = "test_uart" /\ at = "read" /\ inq = << >>
  /\ at' = "show"
  /\ UNCHANGED <<terminal, attempts, received, driver, sentAt, shown>>

TestReadFails ==
  /\ tool = "test_uart" /\ at = "read"
  /\ at' = "fgets"
  /\ UNCHANGED <<terminal, attempts, received, driver, sentAt, shown>>

------------------------------------------------------------------------------
(* test_uart_v2: reads until one returns 0, each of up to sizeof(rx_buf)   *)
(* bytes behind the last.  With VMIN 1 a read waits for a byte, so that    *)
(* only a line that hung up ends the loop.                                 *)

V2Send ==
  /\ tool = "test_uart_v2" /\ at = "send"
  /\ at' = "read" /\ sentAt' = arrived
  /\ UNCHANGED <<terminal, attempts, received, driver, shown>>

V2Read ==
  /\ tool = "test_uart_v2" /\ at = "read" /\ inq # << >>
  /\ TakeIn(RxSize)
  /\ UNCHANGED <<terminal, at, attempts, arrived, hungup, sentAt, shown>>

\* Without a byte so far the loop goes round for ever.
V2ReadsNothing ==
  /\ tool = "test_uart_v2" /\ at = "read" /\ inq = << >> /\ hungup
  /\ at' = IF len > 0 THEN "show" ELSE "read"
  /\ UNCHANGED <<terminal, attempts, received, driver, sentAt, shown>>

V2ReadFails ==
  /\ tool = "test_uart_v2" /\ at = "read"
  /\ at' = "exit"
  /\ UNCHANGED <<terminal, attempts, received, driver, sentAt, shown>>

------------------------------------------------------------------------------
(* init_uart: sends up to three times until something comes, starts the    *)
(* line again if nothing does, and reads until a second is silent.         *)

\* Mutant of Try: nothing is flushed before the line is sent.
TryUnflushed ==
  /\ tool = "init_uart" /\ at = "send" /\ attempts < SendTries
  /\ attempts' = attempts + 1
  /\ sentAt' = arrived
  /\ at' = "poll"
  /\ UNCHANGED <<terminal, received, driver, shown>>

Try ==
  /\ tool = "init_uart" /\ at = "send" /\ attempts < SendTries
  /\ attempts' = attempts + 1
  /\ inq' = << >> /\ sentAt' = arrived
  /\ at' = "poll"
  /\ UNCHANGED <<terminal, received, arrived, hungup, shown>>

\* poll finds bytes or a line that hung up; or nothing comes within a second, or it fails.
PollReady ==
  /\ at = "poll" /\ (inq # << >> \/ hungup)
  /\ at' = "read"
  /\ UNCHANGED <<terminal, attempts, received, driver, sentAt, shown>>

PollTimesOut ==
  /\ at = "poll"
  /\ at' = IF attempts < SendTries THEN "send" ELSE "restart"
  /\ UNCHANGED <<terminal, attempts, received, driver, sentAt, shown>>

\* init_uart again, whose set_Parity throws away what has come unless it stops before.
RestartLine ==
  /\ at = "restart"
  /\ at' \in {"read", "exit"}
  /\ inq' \in {inq, << >>}
  /\ UNCHANGED <<terminal, attempts, received, arrived, hungup, sentAt, shown>>

\* dreadn: one dread that returned bytes.  The loop ends when the buffer is full.
Dread ==
  /\ tool \in {"init_uart", "uart_send_recv"} /\ at = "read" /\ inq # << >> /\ len < RxSize
  /\ TakeIn(RxSize - len)
  /\ UNCHANGED <<terminal, at, attempts, arrived, hungup, sentAt, shown>>

\* dreadn is over: the buffer is full, a second was silent, or the line hung up.
ReadingOver == at = "read" /\ (len = RxSize \/ inq = << >>)

\* After it init_uart flushes the line; -1, when the first second was silent, is printed
\* as an error, and 0, when the line hung up, as an answer.
AnswerRead ==
  /\ tool = "init_uart" /\ ReadingOver
  /\ inq' = << >>
  /\ at' = IF len > 0 \/ hungup THEN "show" ELSE "fgets"
  /\ UNCHANGED <<terminal, attempts, received, arrived, hungup, sentAt, shown>>

------------------------------------------------------------------------------
(* uart_send_recv.                                                         *)

\* send_routine flushes what was not sent yet: of the input it changes nothing.
SendAgain ==
  /\ tool = "uart_send_recv" /\ at \in {"read", "show"} /\ sentAt # arrived
  /\ sentAt' = arrived
  /\ UNCHANGED <<terminal, at, attempts, received, driver, shown>>

\* recv_routine prints the buffer as a string, also when nothing was read.
Received ==
  /\ tool = "uart_send_recv" /\ ReadingOver
  /\ at' = "show"
  /\ UNCHANGED <<terminal, attempts, received, driver, sentAt, shown>>

StNext ==
  \/ ByteComes \/ HangUp
  \/ TypeLine \/ EndOfInput \/ Show
  \/ TestSend \/ TestRead \/ TestReadsNothing \/ TestReadFails
  \/ V2Send \/ V2Read \/ V2ReadsNothing \/ V2ReadFails
  \/ Try \/ PollReady \/ PollTimesOut \/ RestartLine \/ Dread \/ AnswerRead
  \/ SendAgain \/ Received

StSpec == StInit /\ [][StNext]_stVars

\* test_uart_v2 runs: it sends, reads what is there or sees that the line hung up, and
\* prints.  Nothing is assumed of the user, of the device or of reads that fail.
StFairSpec == StSpec /\ WF_stVars(V2Send) /\ WF_stVars(V2Read \/ V2ReadsNothing) /\ WF_stVars(Show)

------------------------------------------------------------------------------

\* What init_uart prints of an exchange in hex arrived after the line was sent for the
\* last time, however late the answers to earlier lines and earlier attempts came
\* (init_uart.c:415-440).  The other tools flush nothing: they read every byte once and
\* in order, so that a late answer is printed as the answer to the next line.
\* test_uart_v2 alone stores behind rx_buf, once it has read more than fits.
AnswersFresh ==
  /\ tool = "init_uart" /\ at = "show" =>
       \A i \in 1..len : rx_buf[i] > sentAt /\ (i > 1 => rx_buf[i] > rx_buf[i - 1])
  /\ tool = "init_uart" /\ hex => \A i \in DOMAIN shown : i > 1 => shown[i] > shown[i - 1]
  /\ tool # "init_uart" => inq = [i \in 1..(arrived - taken) |-> taken + i]
  /\ tool # "init_uart" /\ at = "show" =>
       \A i \in 1..len : i <= RxSize => rx_buf[i] = taken - len + i
  /\ overrun => tool = "test_uart_v2" /\ taken > RxSize

\* test_uart_v2 receives "at least one bytes", goes on with the "remaining bytes" and
\* leaves the loop when there are "no more bytes" (test_uart_v2.c:265-266), so that an
\* answer which has begun is over at some time.  The loop ends only after a read of 0
\* (279), and none returns 0 while the line is up, since each waits for a byte: a line
\* that falls silent without hanging up keeps the program in its next read.
AnswerEnds == (tool = "test_uart_v2" /\ at = "read" /\ len > 0) ~> (at # "read")
=============================================================================
