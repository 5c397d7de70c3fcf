-------------------------------- MODULE MKey ---------------------------------
(***************************************************************************)
(* json/mkey_str2j/parse.c: the key and MQTT settings of a device, a C     *)
(* struct, written as JSON text by marshal_mkey and read back by           *)
(* unmarshal_mkey, which is also given texts from elsewhere.               *)
(*                                                                         *)
(* A character array is the sequence of the characters before its first 0; *)
(* one that is full has no 0.  All arrays are of the same size here.  A    *)
(* name of one letter stands for each of the names in the text.            *)
(***************************************************************************)
EXTENDS JsonText, FiniteSets

CONSTANTS
  Fields,      \* the names of the strings before the MQTT settings, 5 in the source
  FieldSize,   \* of a character array
  AddrCount,   \* addresses in the struct, 10 in the source
  INT_MAX,     \* the largest int; valueint is wider
  Structs,     \* settings the client writes
  Configs      \* items whose text the client reads

ASSUME MKeyAssumption ==
  /\ Fields # << >> /\ FieldSize \in Nat \ {0} /\ AddrCount \in Nat /\ INT_MAX \in Nat

VARIABLES
  kstep,       \* "none", "written", "given", "read", "failed" or "fault"
  ksource,     \* history: the struct that was written, or the item whose text was given
  ktext,       \* the text
  mkey,        \* the struct that is read into, which main clears first
  kstatus      \* what unmarshal_mkey returned

mkVars == <<kstep, ksource, ktext, mkey, kstatus>>

MQTTINFO == <<77>>
URL == <<85>>
PORT == <<80>>
ISLIVE == <<76>>
ADDRESS == <<65>>

Cleared ==
  [fields |-> [i \in DOMAIN Fields |-> << >>], url |-> << >>, port |-> 0, live |-> 0,
   addr |-> [i \in 1..AddrCount |-> << >>]]

WholeStatus == Len(Fields) + 3

MkInit ==
  /\ kstep = "none" /\ ksource = Cleared /\ ktext = << >>
  /\ mkey = Cleared /\ kstatus = 0

------------------------------------------------------------------------------
(* Writing.                                                                *)

\* The addresses up to the first empty one.
Used(m) == SubSeq(m.addr, 1, Run(m.addr, 1, LAMBDA a : a # << >>))

marshal_mkey(m) ==
  LET AddString(o, i) == AddItemToObject(o, Fields[i], CreateString(m.fields[i]))
      AddAddress(a, s) == add_item_to_array(a, CreateString(s))
      strings == FoldLeft(AddString, New("Object"), [i \in DOMAIN Fields |-> i])
      mqtt == AddItemToObject(
                AddItemToObject(AddItemToObject(New("Object"), URL, CreateString(m.url)),
                                PORT, CreateInt(m.port)),
                ISLIVE, CreateBool(m.live))
      addresses == FoldLeft(AddAddress, New("Array"), Used(m))
  IN  AddItemToObject(AddItemToObject(strings, MQTTINFO, mqtt), ADDRESS, addresses)

------------------------------------------------------------------------------
(* Reading.                                                                *)

Get(o, n) ==
  LET k == get_object_item(o, n, TRUE)
  IN  IF k = 0 THEN New("Invalid") ELSE o.kids[k]

\* strncpy: a string as long as the array, or longer, leaves no room for the 0.
Copied(s) == SubSeq(s, 1, IF Len(s) < FieldSize THEN Len(s) ELSE FieldSize)
CopiedIf(x) == IF IsString(x) THEN Copied(x.str) ELSE << >>

\* From a long long to an int.
Narrowed(n) == ((n + INT_MAX + 1) % (2 * (INT_MAX + 1))) - (INT_MAX + 1)

\* Before the addresses are copied it is the string read last that is looked at: the
\* URL, or without MQTT settings the last of the fields.
LastRead(x) == IF IsObject(Get(x, MQTTINFO)) THEN Get(Get(x, MQTTINFO), URL) ELSE Get(x, Last(Fields))

Addresses(x) ==
  IF IsArray(Get(x, ADDRESS)) /\ IsString(LastRead(x)) THEN Get(x, ADDRESS).kids ELSE << >>

\* An element that is no string has no characters to copy, and an element too many is
\* copied behind the struct.
Faults(x) == Len(Addresses(x)) > AddrCount \/ \E a \in ToSet(Addresses(x)) : ~IsString(a)

\* Mutant of Settled: what could be read is kept.
SettledKeeps(status, m) == [status |-> IF status = WholeStatus THEN status ELSE 0, m |-> m]

\* Unless everything was there, the struct is cleared.
Settled(status, m) ==
  IF status = WholeStatus THEN [status |-> status, m |-> m] ELSE [status |-> 0, m |-> Cleared]

unmarshal_mkey(x) ==
  LET mqtt == Get(x, MQTTINFO)
      has == IsObject(mqtt)
      url == Get(mqtt, URL)
      port == Get(mqtt, PORT)
      live == Get(mqtt, ISLIVE)
      count(b) == IF b THEN 1 ELSE 0
      status == Cardinality({i \in DOMAIN Fields : IsString(Get(x, Fields[i]))})
                  + count(has /\ IsString(url)) + count(has /\ IsInt(port))
                  + count(has /\ IsBool(live))
      read == [fields |-> [i \in DOMAIN Fields |-> CopiedIf(Get(x, Fields[i]))],
               url |-> IF has THEN CopiedIf(url) ELSE << >>,
               port |-> IF has /\ IsInt(port) THEN Narrowed(port.int) ELSE 0,
               live |-> IF has /\ IsTrue(live) THEN 1 ELSE 0,
               addr |-> [i \in 1..AddrCount |->
                           IF i <= Len(Addresses(x)) THEN Copied(Addresses(x)[i].str) ELSE << >>]]
  IN  Settled(status, read)

------------------------------------------------------------------------------
(* The client.                                                             *)

Marshal ==
  /\ kstep = "none"
  /\ ksource' \in Structs
  /\ ktext' = Printed(marshal_mkey(ksource'), FALSE)
  /\ kstep' = "written"
  /\ UNCHANGED <<mkey, kstatus>>

\* An allocation fails: what was built is deleted and there is no text.
MarshalFails ==
  /\ kstep = "none"
  /\ ksource' \in Structs
  /\ kstep' = "failed"
  /\ UNCHANGED <<ktext, mkey, kstatus>>

\* A text from elsewhere; cut short it is not JSON.
Given ==
  /\ kstep = "none"
  /\ ksource' \in Configs
  /\ LET t == Printed(ksource', FALSE)
     IN  ktext' \in {t, Front(t)}
  /\ kstep' = "given"
  /\ UNCHANGED <<mkey, kstatus>>

Unmarshal ==
  /\ kstep \in {"written", "given"}
  /\ LET r == ParseWithOpts(ktext, FALSE)
         u == unmarshal_mkey(r.x)
     IN  IF ~r.ok THEN kstep' = "read" /\ UNCHANGED <<mkey, kstatus>>
         ELSE IF Faults(r.x) THEN kstep' = "fault" /\ UNCHANGED <<mkey, kstatus>>
         ELSE kstep' = "read" /\ mkey' = u.m /\ kstatus' = u.status
  /\ UNCHANGED <<ksource, ktext>>

MkNext == Marshal \/ MarshalFails \/ Given \/ Unmarshal

------------------------------------------------------------------------------
(* Properties.                                                             *)

StringsIn(x) == {x.kids[i].str : i \in DOMAIN x.kids}
Unterminated == \E s \in ToSet(mkey.fields) \union ToSet(mkey.addr) \union {mkey.url} : Len(s) = FieldSize

\* Settings that were written are read back as they were, down to the first empty
\* address (parse.c:78-81), through the text and the lists in between.  A text from
\* elsewhere gives all of the settings or none (parse.c:192-195): with the status 0 the
\* struct is clear, however much of it had been filled.  An array without its 0 comes
\* only of a text with a string that does not fit (strncpy, parse.c:129-187), and the
\* copying of addresses, which looks at the wrong item (parse.c:186) and never at the
\* count, goes wrong only with too many of them or one that is no string.
SettingsWhole ==
  LET written == "fields" \in DOMAIN ksource
      members == Get(ksource, MQTTINFO)
      list == Get(ksource, ADDRESS)
      used == Len(Used(ksource))
  IN  /\ kstep = "read" => kstatus \in {0, WholeStatus} /\ (kstatus = 0 => mkey = Cleared)
      /\ written /\ kstep \in {"read", "fault"} =>
           /\ kstep = "read" /\ kstatus = WholeStatus
           /\ mkey = [ksource EXCEPT !.addr = [i \in 1..AddrCount |-> IF i <= used THEN @[i] ELSE << >>]]
      /\ ~written /\ kstep = "read" /\ Unterminated =>
           \E s \in StringsIn(ksource) \union StringsIn(members) \union StringsIn(list) : Len(s) >= FieldSize
      /\ ~written /\ kstep = "fault" =>
           Len(list.kids) > AddrCount \/ NOSTRING \in StringsIn(list)
==============================================================================
