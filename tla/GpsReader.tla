------------------------------ MODULE GpsReader ------------------------------
(***************************************************************************)
(* uart/read_gps.c: main reads bytes from a serial line into one buffer,   *)
(* parse_buf cuts it at carriage returns, parse_packet drops what is not a *)
(* whole sentence, and a GGA prints the position if a timer asked for it.  *)
(*                                                                         *)
(* The line is external.  A sentence is "$", its body with the checksum,   *)
(* CR and LF; noise is any other byte but CR.  A byte carries the number   *)
(* of the item it belongs to, which the program does not see.              *)
(***************************************************************************)
EXTENDS Naturals, Sequences, FiniteSets, SequencesExt

CONSTANTS
  Cap,        \* BUF_SIZE - 1
  MinSize,    \* MIN_SIZE
  MaxErrors,  \* failed reads before the line is opened again
  MaxFds,     \* descriptors the process may have
  MaxItems    \* items the line carries in a behaviour

\* Bytes that overlap when they are moved are three at least, more than half a sentence
\* has here.  The program's 2048 and 64 leave a sentence far more room.
ASSUME GpsAssumption ==
  /\ {Cap, MinSize, MaxFds, MaxItems} \subseteq Nat \ {0} /\ MaxErrors \in Nat
  /\ MinSize + 3 <= Cap

VARIABLES
  pc,          \* "loop", "parse" in parse_buf, "print" between test and reset of the flag, "exit"
  rx_buf,      \* its first write_pos bytes
  read_pos,
  istart,      \* parse_buf: where the next packet begins, and
  from,        \*   where the search for its end goes on
  flag_send,
  num_errors,
  fds,         \* descriptors open on the line
  rest, line,  \* bytes of the current item not sent yet; bytes received and not read
  items,       \* how many items have been begun
  handled,     \* history: the numbers of the sentences parsed, in order
  clean,       \* history: the sentences that came whole right after a whole one
  steadily,    \* history: the last item begun is a sentence, and nothing was lost of it
  owed         \* history: a tick no printing has begun after

parser == <<pc, rx_buf, read_pos, istart, from>>
sender == <<rest, line, items>>
history == <<handled, clean, steadily, owed>>
vars == <<parser, flag_send, num_errors, fds, sender, history>>

Init ==
  /\ pc = "loop" /\ rx_buf = << >> /\ read_pos = 0 /\ istart = 0 /\ from = 0
  /\ flag_send = FALSE /\ num_errors = 0 /\ fds = 1
  /\ rest = << >> /\ line = << >> /\ items = 0
  /\ handled = << >> /\ clean = {} /\ steadily = TRUE /\ owed = FALSE

------------------------------------------------------------------------------
(* The line and the timer.                                                 *)

Sentence(kind, n) == [i \in 1..4 |-> [ch |-> <<"$", kind, "CR", "LF">>[i], id |-> n]]

BeginSentence(kind) ==
  /\ rest = << >> /\ items < MaxItems /\ pc # "exit"
  /\ items' = items + 1
  /\ rest' = Sentence(kind, items')
  /\ clean' = IF steadily THEN clean \union {items'} ELSE clean
  /\ steadily' = TRUE
  /\ UNCHANGED <<parser, flag_send, num_errors, fds, line, handled, owed>>

\* Stray bytes, the "$" of a broken sentence included.
Noise(chs) ==
  /\ rest = << >> /\ items < MaxItems /\ pc # "exit"
  /\ items' = items + 1
  /\ rest' = [i \in DOMAIN chs |-> [ch |-> chs[i], id |-> items']]
  /\ steadily' = FALSE
  /\ UNCHANGED <<parser, flag_send, num_errors, fds, line, handled, clean, owed>>

Arrive ==
  /\ rest # << >> /\ pc # "exit"
  /\ line' = Append(line, Head(rest))
  /\ rest' = Tail(rest)
  /\ UNCHANGED <<parser, flag_send, num_errors, fds, items, history>>

\* itmer_func.  A tick while the position is printed counts as answered by it.
Tick ==
  /\ pc # "exit"
  /\ flag_send' = TRUE
  /\ owed' = (owed \/ pc # "print")
  /\ UNCHANGED <<parser, num_errors, fds, sender, handled, clean, steadily>>

------------------------------------------------------------------------------
(* The program.                                                            *)

Unread == SubSeq(rx_buf, read_pos + 1, Len(rx_buf))

\* The unread bytes move to the front when little room is left.  memcpy of
\* overlapping bytes is undefined: they may be garbled.
Compacted ==
  IF Cap - Len(rx_buf) >= MinSize THEN {[buf |-> rx_buf, pos |-> read_pos]}
  ELSE {[buf |-> Unread, pos |-> 0]}
         \union (IF read_pos \in 1..(Len(Unread) - 1)
                 THEN {[buf |-> [i \in DOMAIN Unread |-> [ch |-> "x", id |-> 0]], pos |-> 0]}
                 ELSE {})

\* Where parse_buf starts: at the first "$", or behind everything without one.
FirstDollar(s) == SelectInSeq(s, LAMBDA b : b.ch = "$")

\* dread does not wait: it returns as many of the bytes that have come as there is room for.
dread(room) == IF Len(line) < room THEN Len(line) ELSE room

\* One turn of the loop whose dread returns bytes.
Receive ==
  /\ pc = "loop" /\ line # << >>
  /\ \E c \in Compacted :
       LET n == dread(Cap - Len(c.buf))
           buf == c.buf \o SubSeq(line, 1, n)
           dollar == FirstDollar(SubSeq(buf, c.pos + 1, Len(buf)))
           begin == IF dollar = 0 THEN Len(buf) ELSE c.pos + dollar - 1
       IN  /\ rx_buf' = buf /\ read_pos' = c.pos
           /\ line' = SubSeq(line, n + 1, Len(line))
           /\ istart' = begin /\ from' = begin
  /\ pc' = "parse"
  /\ UNCHANGED <<flag_send, num_errors, fds, rest, items, history>>

Ends == {i \in (from + 1)..Len(rx_buf) : rx_buf[i].ch = "CR"}
NextEnd == CHOOSE i \in Ends : \A j \in Ends : i <= j

\* What parse_packet accepts: it compares the checksum, which leaves out the "$".
IsSentence(s) == Len(s) = 2 /\ s[1].ch = "$" /\ s[2].ch \in {"rmc", "gga"}

\* Mutant of Skip: the line feed is left to the next packet.
SkipNot(e) == /\ istart' = e
              /\ from' = e

\* After the CR an LF is skipped, and the byte behind is not looked at.
Skip(e) ==
  LET feed == e < Len(rx_buf) /\ rx_buf[e + 1].ch = "LF"
  IN  /\ istart' = IF feed THEN e + 1 ELSE e
      /\ from' = IF feed THEN e + 2 ELSE e + 1

\* parse_buf hands the bytes up to a CR to parse_packet.
Packet ==
  /\ pc = "parse" /\ Ends # {}
  /\ LET s == SubSeq(rx_buf, istart + 1, NextEnd - 1)
         prints == IsSentence(s) /\ s[2].ch = "gga" /\ flag_send
     IN  /\ handled' = IF IsSentence(s) THEN Append(handled, s[2].id) ELSE handled
         /\ pc' = IF prints THEN "print" ELSE "parse"
         /\ owed' = (owed /\ ~prints)
  /\ Skip(NextEnd)
  /\ rx_buf' = [rx_buf EXCEPT ![NextEnd].ch = "NUL"]
  /\ UNCHANGED <<read_pos, flag_send, num_errors, fds, sender, clean, steadily>>

Printed ==
  /\ pc = "print"
  /\ flag_send' = FALSE
  /\ pc' = "parse"
  /\ UNCHANGED <<rx_buf, read_pos, istart, from, num_errors, fds, sender, history>>

\* Mutant of ParsedAll: the flag is reset after every parse.
ParsedAllResets ==
  /\ pc = "parse" /\ Ends = {}
  /\ read_pos' = istart
  /\ istart' = 0 /\ from' = 0
  /\ flag_send' = FALSE
  /\ pc' = "loop"
  /\ UNCHANGED <<rx_buf, num_errors, fds, sender, history>>

ParsedAll ==
  /\ pc = "parse" /\ Ends = {}
  /\ read_pos' = istart
  /\ istart' = 0 /\ from' = 0
  /\ pc' = "loop"
  /\ UNCHANGED <<rx_buf, flag_send, num_errors, fds, sender, history>>

\* dread fails: select met a signal, or the line has an error.
ReadError ==
  /\ pc = "loop" /\ num_errors < MaxErrors
  /\ \E c \in Compacted : rx_buf' = c.buf /\ read_pos' = c.pos
  /\ num_errors' = num_errors + 1
  /\ UNCHANGED <<pc, istart, from, flag_send, fds, sender, history>>

\* One failure too many: the line is opened again, which discards what was received.
\* The old descriptor is not closed.
Restart ==
  /\ pc = "loop" /\ num_errors = MaxErrors /\ fds < MaxFds
  /\ \E c \in Compacted : rx_buf' = c.buf /\ read_pos' = c.pos
  /\ num_errors' = 0
  /\ fds' = fds + 1
  /\ line' = << >>
  /\ clean' = clean \ {b.id : b \in ToSet(line \o rest)}
  /\ steadily' = FALSE
  /\ UNCHANGED <<pc, istart, from, flag_send, rest, items, handled, owed>>

RestartFails ==
  /\ pc = "loop" /\ num_errors = MaxErrors
  /\ pc' = "exit"
  /\ UNCHANGED <<rx_buf, read_pos, istart, from, flag_send, num_errors, fds, sender, history>>

Next ==
  \/ \E kind \in {"rmc", "gga"} : BeginSentence(kind)
  \/ \E chs \in {<<"x">>, <<"$">>, <<"x", "x", "x">>} : Noise(chs)
  \/ Arrive
  \/ Tick
  \/ Receive
  \/ Packet
  \/ Printed
  \/ ParsedAll
  \/ ReadError
  \/ Restart
  \/ RestartFails

Spec == Init /\ [][Next]_vars

------------------------------------------------------------------------------
(* Properties.                                                             *)

Pending == {b.id : b \in {p \in ToSet(rest \o line \o Unread) : p.ch # "LF"}}

\* Sentences are cut out of a buffer that fills in pieces of any size and is moved
\* while one of them is half there (read_gps.c:707-711, 738): none is parsed twice or
\* out of order, and each one that came right behind a whole one is parsed.  With no
\* room left the read is asked for nothing, for ever (read_gps.c:714): this takes a
\* buffer full of noise behind a "$", never sentences.
EachSentenceOnce ==
  /\ \A i, j \in DOMAIN handled : i < j => handled[i] < handled[j]
  /\ pc = "loop" => clean \ Pending \subseteq ToSet(handled)
  /\ pc = "loop" /\ (\A c \in Compacted : Len(c.buf) = Cap) =>
       /\ \A b \in ToSet(rx_buf) : b.ch \notin {"CR", "NUL"}
       /\ Cardinality({i \in DOMAIN rx_buf : rx_buf[i].id \notin clean}) >= Cap - 2

\* The timer's flag (read_gps.c:592, 631): a tick is remembered until a printing
\* begins after it.  Only one that comes while the position is printed is not.
TicksRemembered == owed => flag_send
==============================================================================
