-------------------------------- MODULE Codec --------------------------------
(***************************************************************************)
(* encode/base64.c, itoa of common_itoa.c, the lines of hex digits the     *)
(* serial tools of uart/ send, and the checksums of crc/.  A text is the   *)
(* sequence of its character codes.  The base64 decoder works in place: it *)
(* reads characters of the buffer that it is overwriting.  itoa writes the *)
(* digits from the last to the first and turns them round in place.  The   *)
(* serial tools search a line for the ends of its words and may run into   *)
(* what an older line left behind it.                                      *)
(***************************************************************************)
EXTENDS Integers, Sequences, SequencesExt, FiniteSets, Checksum

CONSTANTS
  Bytes,     \* bytes of the data to encode
  MaxBytes,  \* length of the data
  IntBits,   \* bits of an int
  Radixes,
  HexChars,  \* characters of a line typed, but its line feed
  MaxChars,  \* length of a line typed
  Tails      \* what follows a line in tx_buf and behind it: an older line and a space

ASSUME CodecAssumption ==
  /\ Bytes \subseteq 0..255 /\ {MaxBytes, IntBits} \subseteq Nat \ {0}
  /\ Radixes \subseteq 2..16
  /\ HexChars \subseteq 1..255 /\ MaxChars \in Nat
  /\ \A t \in Tails : t # << >> /\ Last(t) = 32

VARIABLES
  cstep,     \* "none", "encoded", "decoded", "written", "sent" or "summed"
  cin,       \* the bytes encoded, the number and the radix, the line typed, or the message
  cbuf       \* the text or the bytes it has become

cVars == <<cstep, cin, cbuf>>

PAD == 61
ENC == [i \in 0..63 |-> CASE i < 26 -> 65 + i
                          [] i \in 26..51 -> 97 + i - 26
                          [] i \in 52..61 -> 48 + i - 52
                          [] i = 62 -> 43
                          [] OTHER -> 47]

\* The four characters of up to three bytes.
EncodeGroup(g) ==
  CASE Len(g) = 1 -> <<ENC[g[1] \div 4], ENC[(g[1] % 4) * 16], PAD, PAD>>
    [] Len(g) = 2 -> <<ENC[g[1] \div 4], ENC[(g[1] % 4) * 16 + g[2] \div 16], ENC[(g[2] % 16) * 4], PAD>>
    [] OTHER -> <<ENC[g[1] \div 4], ENC[(g[1] % 4) * 16 + g[2] \div 16],
                  ENC[(g[2] % 16) * 4 + g[3] \div 64], ENC[g[3] % 64]>>

base64_encode(in) ==
  FlattenSeq([n \in 1..((Len(in) + 2) \div 3) |->
    EncodeGroup(SubSeq(in, 3 * n - 2, IF 3 * n < Len(in) THEN 3 * n ELSE Len(in)))])

\* The decoder's table, by character.
decode_table == [ch \in 0..255 |-> CASE ch = 43 -> 62
                              [] ch = 47 -> 63
                              [] ch \in 48..57 -> ch + 4
                              [] ch \in 65..90 -> ch - 65
                              [] ch \in 97..122 -> ch - 71
                              [] OTHER -> 0]

\* Mutant of Outlen: one "=" is looked for before two.
OutlenSwapped(code) ==
  LET n == (Len(code) \div 4) * 3
  IN  IF \E i \in DOMAIN code : code[i] = PAD THEN n - 1
      ELSE IF \E i \in 1..(Len(code) - 1) : code[i] = PAD /\ code[i + 1] = PAD THEN n - 2
      ELSE n

Outlen(code) ==
  LET n == (Len(code) \div 4) * 3
  IN  IF \E i \in 1..(Len(code) - 1) : code[i] = PAD /\ code[i + 1] = PAD THEN n - 2
      ELSE IF \E i \in DOMAIN code : code[i] = PAD THEN n - 1
      ELSE n

\* One turn of the loop: each store is seen by the reads after it.
DecodeGroup(code, n) ==
  LET i == 4 * n + 1
      j == 3 * n + 1
      one == [code EXCEPT ![j] = (decode_table[code[i]] * 4 + decode_table[code[i + 1]] \div 16) % 256]
      two == [one EXCEPT ![j + 1] = (decode_table[one[i + 1]] * 16 + decode_table[one[i + 2]] \div 4) % 256]
  IN  [two EXCEPT ![j + 2] = (decode_table[two[i + 2]] * 64 + decode_table[two[i + 3]]) % 256]

base64_decode(code) ==
  LET turns == [n \in 1..((Len(code) + 1) \div 4) |-> n - 1]
  IN  SubSeq(FoldLeft(DecodeGroup, code, turns), 1, Outlen(code))

Digits == <<48, 49, 50, 51, 52, 53, 54, 55, 56, 57, 65, 66, 67, 68, 69, 70>>
MINUS == 45
UMax == 2^IntBits

\* The digits from the last to the first; every number has one.
DigitsOf(n, radix) ==
  LET left[k \in Nat] == IF k = 0 THEN n ELSE left[k - 1] \div radix
      many == CHOOSE k \in 1..IntBits : left[k] = 0 /\ (k = 1 \/ left[k - 1] # 0)
  IN  [k \in 1..many |-> Digits[(left[k - 1] % radix) + 1]]

Swap(str, i, j) == [str EXCEPT ![i + 1] = str[j + 1], ![j + 1] = str[i + 1]]

\* The second loop, from k (past a sign) to the middle.
Turned(str) ==
  LET i == Len(str)
      k == IF str[1] = MINUS THEN 1 ELSE 0
      Turn1(s, j) == Swap(s, j, i - 1 + k - j)
  IN  FoldLeft(Turn1, str, [n \in 1..((i - 1) \div 2 - k + 1) |-> k + n - 1])

itoa(num, radix) ==
  IF radix = 10 /\ num < 0 THEN Turned(<<MINUS>> \o DigitsOf((-num) % UMax, radix))
                           ELSE Turned(DigitsOf(num % UMax, radix))

isspace(ch) == ch \in 9..13 \union {32}
isxdigit(ch) == ch \in 48..57 \union 65..70 \union 97..102
DigitValue(ch) == CASE ch <= 57 -> ch - 48 [] ch <= 70 -> ch - 55 [] OTHER -> ch - 87

\* The first place from i on that holds a space, or none.
SpaceFrom(tx, i) == CHOOSE k \in i..Len(tx) : isspace(tx[k]) /\ \A j \in i..(k - 1) : ~isspace(tx[j])
TextFrom(tx, i) == CHOOSE k \in i..(Len(tx) + 1) :
                     (k > Len(tx) \/ ~isspace(tx[k])) /\ \A j \in i..(k - 1) : isspace(tx[j])

\* The place of the loop's next turn behind the space at e.  The loop steps over the
\* first character of the next word.
AfterWord(tx, e) == TextFrom(tx, e + 1) + 1

\* The bytes of the line in tx_buf[0..len-1], which starts at tx[2]; tx[1] is what lies
\* before tx_buf.  No byte means that the line is refused.
HexLine(tx, len) ==
  LET words[i \in Nat] ==
        IF i > len + 1 THEN [stop |-> i, out |-> << >>]
        ELSE LET e == SpaceFrom(tx, i)
             IN  IF isxdigit(tx[e - 2]) /\ isxdigit(tx[e - 1])
                 THEN LET more == words[AfterWord(tx, e)]
                      IN  [stop |-> more.stop,
                           out |-> <<DigitValue(tx[e - 2]) * 16 + DigitValue(tx[e - 1])>> \o more.out]
                 ELSE [stop |-> e, out |-> << >>]
      all == words[TextFrom(tx, 2)]
  IN  IF all.stop <= len + 1 THEN << >> ELSE all.out

CodecInit == cstep = "none" /\ cin = << >> /\ cbuf = << >>

Encode ==
  /\ cstep = "none"
  /\ \E n \in 0..MaxBytes : \E in \in [1..n -> Bytes] :
       cin' = in /\ cbuf' = base64_encode(in)
  /\ cstep' = "encoded"

Decode ==
  /\ cstep = "encoded"
  /\ cbuf' = base64_decode(cbuf)
  /\ cstep' = "decoded"
  /\ UNCHANGED cin

Write ==
  /\ cstep = "none"
  /\ \E num \in -(UMax \div 2)..(UMax \div 2 - 1), radix \in Radixes :
       cin' = <<num, radix>> /\ cbuf' = itoa(num, radix)
  /\ cstep' = "written"

\* A line from the terminal, with its line feed unless it is the last or too long, over
\* what tx_buf held, and with any character before tx_buf.
SendHex ==
  /\ cstep = "none"
  /\ \E n \in 1..MaxChars : \E text \in [1..n -> HexChars], feed \in {<< >>, <<10>>},
        tail \in Tails, before \in {0, 49} :
       /\ cin' = text \o feed
       /\ cbuf' = HexLine(<<before>> \o text \o feed \o <<0>> \o tail, n + Len(feed))
  /\ cstep' = "sent"

Sum ==
  /\ cstep = "none"
  /\ \E m \in UNION {[1..n -> Bytes] : n \in 0..(MaxBytes - 1)} \union [1..1 -> 0..255] :
       cin' = m /\ cbuf' = <<crc8(m), crc8_table(m), crc16(m), bcc(m)>>
  /\ cstep' = "summed"

CodecNext == Encode \/ Decode \/ Write \/ SendHex \/ Sum

ValueOfDigit(ch) == (CHOOSE i \in 1..16 : Digits[i] = ch) - 1
ValueOfText(str, radix) ==
  LET Shift(v, ch) == v * radix + ValueOfDigit(ch)
  IN  IF str[1] = MINUS THEN -FoldLeft(Shift, 0, Tail(str)) ELSE FoldLeft(Shift, 0, str)

\* The places where a word of the line ends, and the byte its last two digits stand for.
WordEnds(line) == {i \in 1..(Len(line) - 1) : ~isspace(line[i]) /\ isspace(line[i + 1])}
EndsInByte(line, i) == i > 1 /\ isxdigit(line[i - 1]) /\ isxdigit(line[i])
ByteAt(line, i) == DigitValue(line[i - 1]) * 16 + DigitValue(line[i])

\* A line that begins with a word of one character looks at what is before tx_buf.
OneAtFront(line) == ~isspace(line[1]) /\ isspace(line[2])

WholeLine(line) == Last(line) = 10 /\ Len(line) > 1

\* The two ways of crc8.c give the same sum for every message, the tables of crc16.c give
\* the one of the Modbus polynomial, a message followed by its sum has the sum 0, and no
\* sum is the same when one bit of the message has changed.
SumsAgree ==
  cstep = "summed" =>
    /\ cbuf[2] = cbuf[1] /\ cbuf[3] = Modbus(cin)
    /\ crc8_table(cin \o <<cbuf[1]>>) = 0
    /\ crc16(cin \o cbuf[3]) = <<0, 0>>
    /\ bcc(cin \o <<cbuf[4]>>) = 0
    /\ \A i \in DOMAIN cin, bit \in 0..7 :
         /\ crc8_table(Damaged(cin, i, bit)) # cbuf[2]
         /\ crc16(Damaged(cin, i, bit)) # cbuf[3]

\* What was written as text reads back as what it was: bytes of every length modulo
\* three through the decoder that overwrites its own input (base64.c:65, 73-78), and
\* every int in every radix, the smallest one and the turn round the middle included
\* (common_itoa.c:10, 29); other radixes than ten show the bits of a negative int.
\* A line of hex with its line feed is sent as the last two digits of each of its words,
\* and refused if one of them does not end in two digits (init_uart.c:382-399), whatever
\* an older line left behind it; only a first word of one character is not sure to be
\* refused.  And a message can be told whole by the checksum that goes with it.
EncodingReadsBack ==
  /\ cstep = "decoded" => cbuf = cin
  /\ cstep = "written" =>
       LET num == cin[1]
           radix == cin[2]
       IN  /\ ValueOfText(cbuf, radix) = IF radix = 10 THEN num ELSE num % UMax
           /\ cbuf[1] = Digits[1] => Len(cbuf) = 1
  /\ cstep = "sent" /\ WholeLine(cin) /\ ~OneAtFront(cin) =>
       LET ends == SetToSortSeq(WordEnds(cin), <)
       IN  cbuf = IF \A i \in WordEnds(cin) : EndsInByte(cin, i)
                  THEN [k \in DOMAIN ends |-> ByteAt(cin, ends[k])] ELSE << >>
  /\ SumsAgree
=============================================================================
