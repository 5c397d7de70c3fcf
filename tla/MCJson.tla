------------------------------- MODULE MCJson --------------------------------
(***************************************************************************)
(* TLC instances of JsonText and MKey.  Of JsonText: what the client       *)
(* prints, and what it parses.  Of MKey: two fields, two addresses,        *)
(* strings of up to the size of an array, and texts in which each member   *)
(* is right, missing or of another type.                                   *)
(***************************************************************************)
EXTENDS JsonText, MKey

Under(x, n) == [x EXCEPT !.name = n]
SeqsTo(S, n) == UNION {[1..k -> S] : k \in 0..n}

\* Strings with what must be escaped in them; numbers on both sides of LLONG_MAX, of more
\* digits than the short form has, with and without an exponent, and not finite.
Chars == {QUOTE, BACKSLASH, NEWLINE, 31, 97, 195}
Scalars ==
  {CreateString(s) : s \in SeqsTo(Chars, 2)}
    \union {CreateNull, CreateBool(0), CreateBool(1), CreateInt(0), CreateInt(-12), CreateInt(-100)}
    \union {CreateNumber(d) : d \in {-150000, 200000, 12345000, -700, -70, 1, 10034, 99900000, 120000000, -123400000,
                                    DBL_MAX, -INFINITY, INFINITY, NAN}}

\* Containers: of scalars, of containers, and one level deeper than is parsed.
Small == {CreateBool(1), CreateInt(0), CreateString(<<QUOTE>>)}
Lists == {Built("Array", s) : s \in SeqsTo(Small, 2)}
ObjectsOf(S) ==
  {Built("Object", << >>)}
    \union {Built("Object", <<Under(x, <<97>>)>>) : x \in S}
    \union {Built("Object", <<Under(x, << >>), Under(y, <<NEWLINE>>)>>) : x \in S, y \in S}
Level1 == Lists \union ObjectsOf(Small)
Level2 == {Built("Array", <<x>> \o r) : x \in Level1, r \in {<< >>, <<CreateInt(1)>>}}
            \union ObjectsOf(Lists)
Level3 == {Built("Array", <<Built("Object", <<Under(x, <<97>>)>>)>>) : x \in Level1}
MCTrees == Scalars \union Level1 \union Level2 \union Level3

\* Every text of up to four of these characters, UTF-16 escapes and pairs of them, byte
\* order marks, and numbers: with exponents and as long as the array they are copied to.
Alphabet == {QUOTE, BACKSLASH, 117, COMMA, POINT, MINUSSIGN, 49, SPACE, 91, 93, 123, 125, COLON}
Utf16 == {<<BACKSLASH, 117>> \o h : h \in [1..4 -> {48, 56, 100, 68, 70, 122}]}
Low == {<<BACKSLASH, 117>> \o h : h \in [1..4 -> {48, 67, 70, 100}]}
Quoted(S) == {<<QUOTE>> \o s \o <<QUOTE>> : s \in S}
Zeros(n) == [i \in 1..n |-> Digit0]
Numbers ==
  {<<45, 49>> \o p \o e : p \in {<< >>, <<POINT>>, <<POINT, 50, 51>>, <<POINT, 48, 48, 48, 48, 49>>},
                          e \in {<<ch>> \o x : ch \in {69, 101},
                                   x \in {<< >>, <<PLUS>>, <<49>>, <<PLUS, 51>>, <<MINUSSIGN, 52>>, <<49, 101, 49>>,
                                          <<57, 57, 57>>, <<MINUSSIGN, 57, 57, 57>>}}}
    \union {Zeros(n) \o s : n \in 60..63, s \in {<<49>>, <<49, 101, 49>>, <<49, POINT, 53>>}}
    \union {<<57, 57, 57, 57, POINT, 57, ch, 54>> : ch \in {52, 53}}
MCTexts ==
  Numbers \union {<<91>> \o n \o <<93>> : n \in Numbers} \union
  SeqsTo(Alphabet, 4) \union Quoted(Utf16)
    \union Quoted({<<BACKSLASH, 117, 100, 56, 48, 48>> \o s : s \in Low})
    \union {<<239, 187, 191, 49>>, <<239, 187, 191>>}

------------------------------------------------------------------------------
(* MKey.                                                                   *)

MCFields == <<<<66>>, <<67>>>>

Short == {<< >>, <<QUOTE>>, <<97, BACKSLASH>>}
MCStructs ==
  [fields : [1..2 -> Short], url : Short, port : {-50, 0, 49}, live : {0, 1}, addr : [1..2 -> Short]]

Called(x, n) == [x EXCEPT !.name = n]
\* A member of the name n that is one of S, or none.
MemberOrNot(n, S) == {<< >>} \union {<<Called(x, n)>> : x \in S}
Long == CreateString(<<97, 97, 97, 97>>)
Fitting == CreateString(<<97>>)
Seven == CreateInt(7)

MqttMembers ==
  {u \o p \o l : u \in MemberOrNot(URL, {Fitting, Long, CreateNull}),
                 p \in MemberOrNot(PORT, {Seven, CreateInt(99), CreateNumber(150000)}),
                 l \in MemberOrNot(ISLIVE, {CreateBool(1), Seven})}
Mqtts == {Built("Object", m) : m \in MqttMembers} \union {Fitting}
Addrs == {Built("Array", a) : a \in UNION {[1..n -> {Fitting, Long, Seven}] : n \in 0..3}} \union {Fitting}

Config(f, g, m, a) == Built("Object", f \o g \o m \o a)
MCConfigs ==
  {Config(<<Called(Fitting, <<66>>)>>, g, m, a) :
     g \in MemberOrNot(<<67>>, {Fitting, Long, Seven}), m \in MemberOrNot(MQTTINFO, Mqtts),
     a \in MemberOrNot(ADDRESS, {Built("Array", << >>), Built("Array", <<Fitting>>)})}
  \union
  {Config(f, <<Called(Fitting, <<67>>)>>,
          <<Called(Built("Object", <<Called(Fitting, URL), Called(Seven, PORT), Called(CreateBool(0), ISLIVE)>>), MQTTINFO)>>, a) :
     f \in MemberOrNot(<<66>>, {Fitting, CreateNull}), a \in MemberOrNot(ADDRESS, Addrs)}
==============================================================================
