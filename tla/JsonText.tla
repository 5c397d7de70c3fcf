------------------------------ MODULE JsonText ------------------------------
(***************************************************************************)
(* json/mkey_str2j/cJSON.c: printing items as text, parsing text into      *)
(* items, and minifying text.                                              *)
(*                                                                         *)
(* A text is the sequence of its bytes; the 0 that ends it is read by At.  *)
(* Texts are parsed with cJSON_Parse or cJSON_ParseWithOpts, so the 0 is   *)
(* there.  The parser stands at an offset, counted from 1.                 *)
(***************************************************************************)
EXTENDS JsonTree

CONSTANTS
  CJSON_NESTING_LIMIT,
  Trees,       \* items the client prints
  Texts        \* texts the client parses

ASSUME NestingAssumption == CJSON_NESTING_LIMIT \in Nat

VARIABLES
  tstep,       \* "none", "tree", "printed", "read" or "rejected"
  tree,        \* the item the client has
  text,        \* its text
  format,      \* whether the text is formatted
  back         \* the item that the text parses to

jtVars == <<tstep, tree, text, format, back>>

QUOTE == 34
BACKSLASH == 92
COMMA == 44
COLON == 58
POINT == 46
MINUSSIGN == 45
PLUS == 43
STAR == 42
OVER == 47
TAB == 9
NEWLINE == 10
SPACE == 32
Digit0 == 48
IsDigit(ch) == ch \in 48..57

NullText == <<110, 117, 108, 108>>
TrueText == <<116, 114, 117, 101>>
FalseText == <<102, 97, 108, 115, 101>>

\* Letter and byte of the one-letter escapes.
Escapes == {<<98, 8>>, <<102, 12>>, <<110, 10>>, <<114, 13>>, <<116, 9>>, <<34, 34>>, <<92, 92>>}

------------------------------------------------------------------------------
(* Printing.  What is printed goes to the buffer in chunks.  Before each,  *)
(* ensure asks for need bytes and one more; then the chunk is written, most *)
(* with a 0 behind it.                                                     *)

Chunk(need, s, nul) == <<[need |-> need, text |-> s, nul |-> nul]>>

HexDigit(n) == IF n < 10 THEN 48 + n ELSE 87 + n

\* Mutant of Escaped: a backslash is printed as it is.
EscapedBare(ch) ==
  LET e == {x \in Escapes \ {<<BACKSLASH, BACKSLASH>>} : x[2] = ch}
  IN  IF e # {} THEN <<BACKSLASH, (CHOOSE x \in e : TRUE)[1]>>
      ELSE IF ch < 32 THEN <<BACKSLASH, 117, 48, 48, HexDigit(ch \div 16), HexDigit(ch % 16)>>
      ELSE <<ch>>

Escaped(ch) ==
  LET e == {x \in Escapes : x[2] = ch}
  IN  IF e # {} THEN <<BACKSLASH, (CHOOSE x \in e : TRUE)[1]>>
      ELSE IF ch < 32 THEN <<BACKSLASH, 117, 48, 48, HexDigit(ch \div 16), HexDigit(ch % 16)>>
      ELSE <<ch>>

InQuotes(body) == Chunk(Len(body) + 3, <<QUOTE>> \o body \o <<QUOTE>>, TRUE)
print_string_ptr(s) ==
  InQuotes(IF s = NOSTRING THEN << >> ELSE FlattenSeq([i \in DOMAIN s |-> Escaped(s[i])]))

\* printf of a natural number.
Decimal(n) ==
  LET left[k \in Nat] == IF k = 0 THEN n ELSE left[k - 1] \div 10
      many == CHOOSE k \in 1..20 : left[k] = 0 /\ (k = 1 \/ left[k - 1] # 0)
  IN  [i \in 1..many |-> Digit0 + (left[many - i] % 10)]

Signed(negative, s) == IF negative THEN <<MINUSSIGN>> \o s ELSE s
Abs(n) == IF n < 0 THEN -n ELSE n

Point(digits) == IF digits = << >> THEN << >> ELSE <<POINT>> \o digits
WithoutZeros(s) == SubSeq(s, 1, SelectLastInSeq(s, LAMBDA ch : ch # Digit0))
Digits2(n) == Tail(Decimal(100 + n))

\* a, of which only the first n digits are kept.
Rounded(a, n) ==
  LET unit == 10^(Len(Decimal(a)) - n)
  IN  IF Len(Decimal(a)) <= n THEN a ELSE ((a + unit \div 2) \div unit) * unit

\* %1.<n>g of a, which has no more digits than n: the exponent is printed when it is below
\* -4 or takes the point behind the last digit.
WithExponent(digits, x) ==
  <<Head(digits)>> \o Point(Tail(digits)) \o <<101, IF x < 0 THEN MINUSSIGN ELSE PLUS>> \o Digits2(Abs(x))
Printf(a, n) ==
  LET x == Len(Decimal(a)) - Len(Decimal(UNIT))
  IN  IF a > 0 /\ x \notin -4..(n - 1) THEN WithExponent(WithoutZeros(Decimal(a)), x)
      ELSE Decimal(a \div UNIT) \o Point(WithoutZeros(Tail(Decimal(UNIT + (a % UNIT)))))

\* The double that is read from a.
Held(a) == IF a > DBL_MAX THEN INFINITY ELSE a

\* The short form, unless the double cannot be recovered from it.
PrintDouble(a) ==
  IF compare_double(Held(Rounded(a, DBL_DIG)), a) THEN Printf(Rounded(a, DBL_DIG), DBL_DIG)
  ELSE Printf(a, DBL_DIG + 2)

\* Every number fits the buffer that it is printed to first.
AsPrinted(s) == Chunk(Len(s) + 1, s, TRUE)
print_number(x) ==
  AsPrinted(IF x.type = "Int" THEN Signed(x.int < 0, Decimal(Abs(x.int)))
            ELSE IF ~Finite(x.dbl) THEN NullText
            ELSE Signed(x.dbl < 0, PrintDouble(Abs(x.dbl))))

Tabs(n) == [i \in 1..n |-> TAB]

\* depth is that of the container printed.
RECURSIVE print_value(_, _, _)
print_array(x, fmt, depth) ==
  LET n == Len(x.kids)
      comma == IF fmt THEN Chunk(3, <<COMMA, SPACE>>, TRUE) ELSE Chunk(2, <<COMMA>>, TRUE)
      element(i) == print_value(x.kids[i], fmt, depth) \o (IF i < n THEN comma ELSE << >>)
  IN  Chunk(1, <<91>>, FALSE) \o FlattenSeq([i \in 1..n |-> element(i)]) \o Chunk(2, <<93>>, TRUE)

print_object(x, fmt, depth) ==
  LET n == Len(x.kids)
      when(b, s) == IF b THEN s ELSE << >>
      f == IF fmt THEN 1 ELSE 0
      more(i) == IF i < n THEN 1 ELSE 0
      member(i) ==
        when(fmt, Chunk(depth, Tabs(depth), FALSE))
          \o print_string_ptr(x.kids[i].name)
          \o Chunk(1 + f, <<COLON>> \o when(fmt, <<TAB>>), FALSE)
          \o print_value(x.kids[i], fmt, depth)
          \o Chunk(f + more(i) + 1, when(i < n, <<COMMA>>) \o when(fmt, <<NEWLINE>>), TRUE)
  IN  Chunk(2 + f, <<123>> \o when(fmt, <<NEWLINE>>), FALSE)
        \o FlattenSeq([i \in 1..n |-> member(i)])
        \o Chunk(IF fmt THEN depth + 1 ELSE 2, when(fmt, Tabs(depth - 1)) \o <<125>>, TRUE)

print_value(x, fmt, depth) ==
  CASE x.type = "NULL" -> Chunk(5, NullText, TRUE)
    [] x.type = "Bool" -> Chunk(6, IF x.int # 0 THEN TrueText ELSE FalseText, TRUE)
    [] x.type \in {"Int", "Number"} -> print_number(x)
    [] x.type = "Raw" -> AsPrinted(x.str)
    [] x.type = "String" -> print_string_ptr(x.str)
    [] x.type = "Array" -> print_array(x, fmt, depth + 1)
    [] OTHER -> print_object(x, fmt, depth + 1)

\* Room for need bytes more and a 0: in the buffer as it is, or in one twice as large.
ensure(p, need, noalloc) ==
  LET wanted == p.offset + need + 1
  IN  CASE p.length > 0 /\ p.offset >= p.length -> [p EXCEPT !.ok = FALSE]
        [] ~(p.length > 0 /\ p.offset >= p.length) /\ wanted <= p.length -> p
        [] OTHER -> IF noalloc THEN [p EXCEPT !.ok = FALSE] ELSE [p EXCEPT !.length = 2 * wanted]

\* The chunks go into a buffer of the given length; over tells of a byte outside it.
PrintInto(chunks, length, noalloc) ==
  LET Put(p, c) ==
        LET q == ensure(p, c.need, noalloc)
            end == q.offset + Len(c.text) + (IF c.nul THEN 1 ELSE 0)
        IN  IF ~p.ok THEN p
            ELSE IF ~q.ok THEN q
            ELSE [q EXCEPT !.offset = @ + Len(c.text), !.over = @ \/ end > q.length]
  IN  FoldLeft(Put, [ok |-> TRUE, offset |-> 0, length |-> length, over |-> FALSE], chunks)

TextOf(chunks) == FlattenSeq([i \in DOMAIN chunks |-> chunks[i].text])
Printed(x, fmt) == TextOf(print_value(x, fmt, 0))

------------------------------------------------------------------------------
(* Parsing.  Each part returns where it ends, and the item.                *)

Fail == [ok |-> FALSE, at |-> 0, x |-> New("Invalid")]
Parsed(at, x) == [ok |-> TRUE, at |-> at, x |-> x]

\* To the next character above the blank, or to the 0 at the end.
skip_whitespace(t, at) ==
  CHOOSE k \in at..(Len(t) + 1) :
    /\ \A j \in at..(k - 1) : t[j] <= SPACE
    /\ k = Len(t) + 1 \/ t[k] > SPACE

\* How many of the characters from at on satisfy P.
Run(t, at, P(_)) ==
  (CHOOSE k \in at..(Len(t) + 1) : (\A j \in at..(k - 1) : P(t[j])) /\ (k = Len(t) + 1 \/ ~P(t[k]))) - at

\* The double nearest to n * 10^tens of its parts.
Nearest(n, tens) ==
  LET unit == 10^(-tens)
      a == IF tens >= 0 THEN n * 10^tens ELSE (n + unit \div 2) \div unit
  IN  CASE n = 0 \/ tens < -9 -> 0
        [] n > 0 /\ Len(Decimal(n)) + tens > 9 -> INFINITY
        [] OTHER -> Held(Rounded(a, DBL_DIG + 2))

Natural(digits) == FoldLeft(LAMBDA v, ch : 10 * v + (ch - Digit0), 0, digits)

\* The double that digits, moved by tens places, are: the first nine say what it is.
DoubleOf(digits, tens) ==
  LET n == IF Len(digits) < 9 THEN Len(digits) ELSE 9
  IN  Nearest(Natural(SubSeq(digits, 1, n)), Len(digits) - n + tens + Len(Decimal(UNIT)) - 1)
WithoutLeading(digits) == SubSeq(digits, Run(digits, 1, LAMBDA ch : ch = Digit0) + 1, Len(digits))

\* An exponent of which the sign takes s characters and the digits n.
ExponentOf(run, from, s, n) ==
  LET beyond == FoldLeft(LAMBDA v, ch : IF v > 99 THEN v ELSE 10 * v + (ch - Digit0), 0,
                         SubSeq(run, from + s + 1, from + s + n))
  IN  IF n = 0 THEN [len |-> 0, tens |-> 0]
      ELSE [len |-> 1 + s + n, tens |-> IF At(run, from + 1) = MINUSSIGN THEN -beyond ELSE beyond]
SignAt(run, i) == IF At(run, i) \in {PLUS, MINUSSIGN} THEN 1 ELSE 0
ExponentAt(run, i) ==
  IF At(run, i) \notin {69, 101} THEN [len |-> 0, tens |-> 0]
  ELSE ExponentOf(run, i, SignAt(run, i + 1), Run(run, i + 1 + SignAt(run, i + 1), IsDigit))

\* strtod and strtoll of a sign, digits, digits behind a point and an exponent.  run is
\* what the two are given, s, whole and part count the characters of the sign, before the
\* point and behind it, m all of these.
NumberOf(run, at, s, whole, part, m, e) ==
  LET digits == SubSeq(run, s + 1, s + whole) \o SubSeq(run, s + whole + 2, s + whole + 1 + part)
      dbl == (IF run[1] = MINUSSIGN THEN -1 ELSE 1) * DoubleOf(WithoutLeading(digits), e.tens - part)
      type == IF ToSet(run) \intersect {POINT, 69, 101} = {} THEN "Int" ELSE "Number"
  IN  IF whole + part = 0 THEN Fail ELSE Parsed(at + m + e.len, [CreateNumber(dbl) EXCEPT !.type = type])

NumberTo(run, at, s, whole, part, m) ==
  NumberOf(run, at, s, whole, part, m, ExponentAt(run, m + 1))
WholeDigits(run, at, s, whole) ==
  LET part == Run(run, s + whole + 2, IsDigit)
  IN  IF At(run, s + whole + 1) = POINT THEN NumberTo(run, at, s, whole, part, s + whole + 1 + part)
      ELSE NumberTo(run, at, s, whole, 0, s + whole)
NumberIn(run, at) == WholeDigits(run, at, SignAt(run, 1), Run(run, SignAt(run, 1) + 1, IsDigit))

\* Only what fits the array of 64 is looked at.
NumberChars == 63
parse_number(t, at) ==
  LET n == Run(t, at, LAMBDA ch : IsDigit(ch) \/ ch \in {PLUS, MINUSSIGN, POINT, 69, 101})
  IN  NumberIn(SubSeq(t, at, at - 1 + IF n < NumberChars THEN n ELSE NumberChars), at)

HexValue(ch) ==
  CASE IsDigit(ch) -> ch - 48
    [] ch \in 65..70 -> ch - 55
    [] ch \in 97..102 -> ch - 87
    [] OTHER -> -1

\* Four characters of which one is no digit count as 0.
Hex4(d) == IF -1 \in ToSet(d) THEN 0 ELSE FoldLeft(LAMBDA v, h : 16 * v + h, 0, d)
parse_hex4(t, at) == Hex4([i \in 1..4 |-> HexValue(At(t, at + i - 1))])

Utf8(c) ==
  CASE c < 128 -> <<c>>
    [] c \in 128..2047 -> <<192 + (c \div 64), 128 + (c % 64)>>
    [] c \in 2048..65535 -> <<224 + (c \div 4096), 128 + ((c \div 64) % 64), 128 + (c % 64)>>
    [] OTHER -> <<240 + (c \div 262144), 128 + ((c \div 4096) % 64), 128 + ((c \div 64) % 64), 128 + (c % 64)>>

\* An escape: its length in the text, 0 if it is wrong, and the bytes it stands for.
Escape(len, bytes) == [len |-> len, bytes |-> bytes]

\* One or two escapes of the form \uXXXX at i.
SurrogatePair(t, i, end, first, second) ==
  IF end - i < 12 \/ <<At(t, i + 6), At(t, i + 7)>> # <<BACKSLASH, 117>> \/ second \notin 56320..57343
  THEN Escape(0, << >>)
  ELSE Escape(12, Utf8(65536 + (first % 1024) * 1024 + (second % 1024)))

Utf16Literal(t, i, end, first) ==
  CASE end - i < 6 \/ first \in 56320..57343 -> Escape(0, << >>)
    [] end - i >= 6 /\ first \in 55296..56319 ->
         SurrogatePair(t, i, end, first, parse_hex4(t, i + 8))
    [] OTHER -> Escape(6, Utf8(first))

utf16_literal_to_utf8(t, i, end) == Utf16Literal(t, i, end, parse_hex4(t, i + 2))

\* Where the string that begins before i ends, 0 if it does not.
RECURSIVE StringEnd(_, _)
StringEnd(t, i) ==
  CASE i > Len(t) -> 0
    [] i <= Len(t) /\ t[i] = QUOTE -> i
    [] OTHER -> StringEnd(t, IF t[i] = BACKSLASH THEN i + 2 ELSE i + 1)

EscapeAt(t, i, end) ==
  LET letter == {e \in Escapes \union {<<OVER, OVER>>} : e[1] = At(t, i + 1)}
  IN  IF letter # {} THEN Escape(2, <<(CHOOSE e \in letter : TRUE)[2]>>)
      ELSE IF At(t, i + 1) = 117 THEN utf16_literal_to_utf8(t, i, end)
      ELSE Escape(0, << >>)

\* The bytes from i to the quote at end.
RECURSIVE Unescaped(_, _, _, _)
AfterEscape(t, i, end, out, e) ==
  IF e.len = 0 THEN [ok |-> FALSE, bytes |-> << >>]
  ELSE Unescaped(t, i + e.len, end, out \o e.bytes)

Unescaped(t, i, end, out) ==
  CASE i >= end -> [ok |-> TRUE, bytes |-> out]
    [] i < end /\ t[i] # BACKSLASH -> Unescaped(t, i + 1, end, Append(out, t[i]))
    [] OTHER -> AfterEscape(t, i, end, out, EscapeAt(t, i, end))

\* A byte 0 in the middle ends the string for all that use it.
CString(s) == SubSeq(s, 1, Run(s, 1, LAMBDA ch : ch # 0))

StringOf(end, s) == IF s.ok THEN Parsed(end + 1, CreateString(CString(s.bytes))) ELSE Fail
StringUpTo(t, at, end) ==
  IF At(t, at) # QUOTE \/ end = 0 THEN Fail ELSE StringOf(end, Unescaped(t, at + 1, end, << >>))
parse_string(t, at) == StringUpTo(t, at, StringEnd(t, at + 1))

StartsWith(t, at, word) == at + Len(word) - 1 <= Len(t) /\ SubSeq(t, at, at + Len(word) - 1) = word

RECURSIVE parse_value(_, _, _)
RECURSIVE ParseElements(_, _, _, _, _)

\* A member: its name, a colon and its value.
MemberNamed(v, n) == IF v.ok THEN [v EXCEPT !.x.name = n] ELSE Fail
MemberValue(t, depth, n, colon) ==
  IF At(t, colon) # COLON THEN Fail
  ELSE MemberNamed(parse_value(t, skip_whitespace(t, colon + 1), depth), n)
ParseMember(t, depth, name) ==
  IF name.ok THEN MemberValue(t, depth, name.x.str, skip_whitespace(t, name.at)) ELSE Fail

\* What follows an element: a comma and the next one, or the end.
AfterElement(t, next, depth, type, kids) ==
  IF At(t, next) = COMMA THEN ParseElements(t, skip_whitespace(t, next + 1), depth, type, kids)
  ELSE IF At(t, next) = (IF type = "Array" THEN 93 ELSE 125) THEN Parsed(next + 1, Built(type, kids))
  ELSE Fail
AddElement(t, depth, type, kids, v) ==
  IF v.ok THEN AfterElement(t, skip_whitespace(t, v.at), depth, type, Append(kids, v.x)) ELSE Fail

\* The elements of an array or the members of an object, of which the next begins at at.
ParseElements(t, at, depth, type, kids) ==
  AddElement(t, depth, type, kids,
             IF type = "Array" THEN parse_value(t, at, depth)
             ELSE ParseMember(t, depth, parse_string(t, at)))

\* parse_array and parse_object.
ParseInside(t, first, depth, type, close) ==
  IF depth >= CJSON_NESTING_LIMIT THEN Fail
  ELSE IF At(t, first) = close THEN Parsed(first + 1, Built(type, << >>))
  ELSE ParseElements(t, first, depth + 1, type, << >>)
ParseContainer(t, at, depth, type, close) == ParseInside(t, skip_whitespace(t, at + 1), depth, type, close)

parse_value(t, at, depth) ==
  LET ch == At(t, at)
  IN  CASE StartsWith(t, at, NullText) -> Parsed(at + 4, CreateNull)
        [] StartsWith(t, at, FalseText) -> Parsed(at + 5, CreateBool(0))
        [] StartsWith(t, at, TrueText) -> Parsed(at + 4, CreateBool(1))
        [] ch = QUOTE -> parse_string(t, at)
        [] IsDigit(ch) \/ ch \in {PLUS, MINUSSIGN} -> parse_number(t, at)
        [] ch = 91 -> ParseContainer(t, at, depth, "Array", 93)
        [] ch = 123 -> ParseContainer(t, at, depth, "Object", 125)
        [] OTHER -> Fail

\* cJSON_ParseWithOpts: a byte order mark is skipped, if something follows it; when
\* asked for, nothing but blanks may follow the value.
AfterValue(t, require_null_terminated, r) ==
  IF r.ok /\ require_null_terminated /\ skip_whitespace(t, r.at) # Len(t) + 1 THEN Fail ELSE r
ParseWithOpts(t, require_null_terminated) ==
  LET bom == Len(t) >= 4 /\ StartsWith(t, 1, <<239, 187, 191>>)
  IN  AfterValue(t, require_null_terminated, parse_value(t, skip_whitespace(t, IF bom THEN 4 ELSE 1), 0))

------------------------------------------------------------------------------
(* Minifying.                                                              *)

\* Past the comment or string at i, whose n last bytes are those at the first of the places.
PastFirst(s, i, places, n) ==
  LET hits == places \intersect (i..Len(s))
  IN  IF hits = {} THEN Len(s) + 1 ELSE (CHOOSE j \in hits : \A k \in hits : j <= k) + n

\* A string is copied up to the first quote that no backslash precedes, even where that
\* backslash is itself escaped.
StringPast(s, i) ==
  LET skips == {j \in i..Len(s) : s[j] = BACKSLASH /\ At(s, j + 1) = QUOTE}
  IN  PastFirst(s, i, {j \in DOMAIN s : s[j] = QUOTE /\ j - 1 \notin skips}, 1)

RECURSIVE MinifiedFrom(_, _)
MinifiedFrom(s, i) ==
  LET ch == At(s, i)
      past == StringPast(s, i + 1)
  IN  CASE i > Len(s) -> << >>
        [] ch \in {SPACE, TAB, 13, NEWLINE} -> MinifiedFrom(s, i + 1)
        [] ch = OVER /\ At(s, i + 1) = OVER ->
             MinifiedFrom(s, PastFirst(s, i + 2, {j \in DOMAIN s : s[j] = NEWLINE}, 1))
        [] ch = OVER /\ At(s, i + 1) = STAR ->
             LET ends == {j \in DOMAIN s : s[j] = STAR /\ At(s, j + 1) = OVER}
             IN  MinifiedFrom(s, PastFirst(s, i + 2, ends, 2))
        [] ch = OVER /\ At(s, i + 1) \notin {OVER, STAR} -> MinifiedFrom(s, i + 1)
        [] ch = QUOTE -> SubSeq(s, i, past - 1) \o MinifiedFrom(s, past)
        [] OTHER -> <<ch>> \o MinifiedFrom(s, i + 1)

------------------------------------------------------------------------------
(* The client.                                                             *)

JtInit ==
  /\ tstep = "none" /\ tree = New("Invalid") /\ text = << >>
  /\ format = FALSE /\ back = New("Invalid")

Make ==
  /\ tstep = "none"
  /\ tree' \in Trees
  /\ tstep' = "tree"
  /\ UNCHANGED <<text, format, back>>

Parse ==
  /\ tstep = "none"
  /\ \E t \in Texts, strict \in BOOLEAN : \E r \in {ParseWithOpts(t, strict)} :
       /\ tree' = r.x
       /\ tstep' = IF r.ok THEN "tree" ELSE "rejected"
       /\ text' = t
  /\ UNCHANGED <<format, back>>

\* cJSON_SetNumberHelper leaves the type as it is.
SetNumberValue ==
  /\ tstep = "tree" /\ tree.type \in {"Int", "Number"}
  /\ \E y \in {x \in Trees : x.type = "Number"} : \E n \in ValueInts(y.dbl) :
       tree' = [tree EXCEPT !.int = n, !.dbl = y.dbl]
  /\ text' = << >>
  /\ UNCHANGED <<tstep, format, back>>

SetValuestring ==
  /\ tstep = "tree" /\ tree.type = "String"
  /\ \E y \in {x \in Trees : x.type = "String"} : tree' = [tree EXCEPT !.str = y.str]
  /\ text' = << >>
  /\ UNCHANGED <<tstep, format, back>>

PrintText ==
  /\ tstep = "tree"
  /\ format' \in BOOLEAN
  /\ text' = Printed(tree, format')
  /\ tstep' = "printed"
  /\ UNCHANGED <<tree, back>>

Minify ==
  /\ tstep = "printed" /\ format
  /\ text' = MinifiedFrom(text, 1)
  /\ format' = FALSE
  /\ UNCHANGED <<tstep, tree, back>>

ParseBack ==
  /\ tstep = "printed"
  /\ \E r \in {ParseWithOpts(text, TRUE)} :
       back' = r.x /\ tstep' = IF r.ok THEN "read" ELSE "rejected"
  /\ UNCHANGED <<tree, text, format>>

JtNext == Make \/ Parse \/ SetNumberValue \/ SetValuestring \/ PrintText \/ Minify \/ ParseBack

------------------------------------------------------------------------------
(* Properties.                                                             *)

RECURSIVE DepthOf(_)
DepthOf(x) ==
  LET below == {DepthOf(x.kids[i]) : i \in DOMAIN x.kids}
  IN  IF x.type \notin {"Array", "Object"} THEN 0
      ELSE 1 + (IF below = {} THEN 0 ELSE CHOOSE d \in below : \A e \in below : e <= d)

\* A string or name in x has a backslash at its end.
RECURSIVE EndsInBackslash(_)
EndsInBackslash(x) ==
  \/ \E s \in {x.str, x.name} : s # << >> /\ Last(s) = BACKSLASH
  \/ \E i \in DOMAIN x.kids : EndsInBackslash(x.kids[i])

\* The text is what the chunks say, and they fit into a buffer or are refused.
PrintedWell(chunks, minifiedWrong) ==
  /\ text = TextOf(chunks) \/ minifiedWrong
  /\ text = TextOf(chunks) =>
       /\ \A n \in 0..(Len(text) + 6) : \A p \in {PrintInto(chunks, n, TRUE)} :
            ~p.over /\ (n >= Len(text) + 6 => p.ok)
       /\ \A n \in {0, 1, 256} : \A p \in {PrintInto(chunks, n, FALSE)} : p.ok /\ ~p.over

\* What the text of x can say: there is no number in it that is not finite.
RECURSIVE Said(_)
Said(x) ==
  IF x.type = "Number" /\ ~Finite(x.dbl) THEN [CreateNull EXCEPT !.name = x.name]
  ELSE [x EXCEPT !.kids = [i \in DOMAIN @ |-> Said(@[i])]]

RECURSIVE DoublesIn(_)
DoublesIn(x) ==
  (IF x.type = "Number" THEN {x.dbl} ELSE {}) \union UNION {DoublesIn(x.kids[i]) : i \in DOMAIN x.kids}

RoundsUp(d) == Finite(d) /\ Rounded(Abs(d), DBL_DIG) > DBL_MAX

\* What is printed, formatted, unformatted or minified, parses to an item that
\* cJSON_Compare finds equal, whether the client built the item or a text was parsed
\* into it: escapes, UTF-16 literals, exponents, numbers that the short form does not say
\* and empty containers included (cJSON.c:352, 383, 599, 680, 930, 1396).  A number that
\* is not finite, as a text of 1e999 gives it, is printed as null and comes back as NULL
\* (592).  A finite one comes back finite, but for the few that the short form rounds to
\* more than DBL_MAX: an infinite number compares equal to every finite one (563), and so
\* the short form passes for them (602).  An item nested deeper than the limit is
\* rejected (1475, 1635), and minifying takes a string that ends in a backslash
\* to go on (2882).  Printing into a buffer (464, 1319) never writes beyond it, fails
\* only where it is too small, and succeeds with the five bytes more than needed that
\* cJSON.h:162 asks for; a buffer that may grow always suffices.
TextsReadBack ==
  /\ tstep = "printed" => PrintedWell(print_value(tree, format, 0), EndsInBackslash(tree))
  /\ tstep = "read" =>
       \/ /\ Compare(back, Said(tree), TRUE)
          /\ (\E d \in DoublesIn(back) : ~Finite(d)) => \E d \in DoublesIn(tree) : RoundsUp(d)
       \/ EndsInBackslash(tree)
  /\ tstep = "rejected" /\ tree.type # "Invalid" =>
       DepthOf(tree) > CJSON_NESTING_LIMIT \/ EndsInBackslash(tree)
=============================================================================
