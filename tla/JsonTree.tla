------------------------------ MODULE JsonTree ------------------------------
(***************************************************************************)
(* json/mkey_str2j: the items of cJSON as values, for the modules about    *)
(* what their text and their patches say.  (CJson has them as pointers.)   *)
(* A string is the sequence of its character codes.                        *)
(*                                                                         *)
(* A double counts the 100000th parts of 1, up to DBL_MAX; it has two      *)
(* decimal digits more than the DBL_DIG with which it is printed first.    *)
(*                                                                         *)
(* The items of an array or object are the sequence kids.  Appending finds *)
(* the end of the list at prev of its first item, so an item remembers     *)
(* where that pointer leads: last is a position in kids, 0 for NULL, or    *)
(* GONE when the item it led to has been taken out of the list.            *)
(***************************************************************************)
EXTENDS Integers, Sequences, SequencesExt

CONSTANTS
  LLONG_MAX,   \* the largest valueint
  DBL_MAX,     \* the largest double that is finite
  DBL_DIG      \* 15 in the code

UNIT == 100000

ASSUME LLAssumption == LLONG_MAX \in Nat
ASSUME DoubleAssumption == DBL_DIG \in 1..7 /\ DBL_MAX \in (LLONG_MAX * UNIT)..(10^9 - 1)

NOSTRING == <<0>>   \* a string pointer that is NULL
GONE == -1

INFINITY == DBL_MAX + 1
NAN == DBL_MAX + 2
Finite(d) == d \in -DBL_MAX..DBL_MAX

tolower(ch) == IF ch \in 65..90 THEN ch + 32 ELSE ch

\* A character of a C string, the terminator included.
At(s, i) == IF i \in DOMAIN s THEN s[i] ELSE 0

\* compare_strings: the difference at the first place where the two differ.
compare_strings(s, t, cs) ==
  LET c(x, i) == IF cs THEN At(x, i) ELSE tolower(At(x, i))
      i == CHOOSE k \in 1..(Len(s) + 1) :
             /\ c(s, k) # c(t, k) \/ k = Len(s) + 1
             /\ \A j \in 1..(k - 1) : c(s, j) = c(t, j)
  IN  IF NOSTRING \in {s, t} THEN 1 ELSE c(s, i) - c(t, i)

------------------------------------------------------------------------------
(* Making items.                                                           *)

New(type) ==
  [type |-> type, int |-> 0, dbl |-> 0, str |-> NOSTRING, name |-> NOSTRING,
   kids |-> << >>, last |-> 0]

Saturated(n) ==
  IF n > LLONG_MAX THEN LLONG_MAX ELSE IF n < -LLONG_MAX - 1 THEN -LLONG_MAX - 1 ELSE n

\* (long long) of a double drops what is behind the point.
Truncated(d) == IF d < 0 THEN -((-d) \div UNIT) ELSE d \div UNIT

\* What valueint becomes; of a NaN the cast is undefined.
ValueInts(d) == IF d = NAN THEN {-LLONG_MAX - 1, 0} ELSE {Saturated(Truncated(d))}

CreateNull == New("NULL")
CreateBool(b) == [New("Bool") EXCEPT !.int = b]
CreateInt(n) == [New("Int") EXCEPT !.int = n, !.dbl = n * UNIT]
CreateNumber(d) == [New("Number") EXCEPT !.int = CHOOSE n \in ValueInts(d) : TRUE, !.dbl = d]
CreateString(s) == [New("String") EXCEPT !.str = s]

\* An array or object whose list has just been built: by parsing or by duplicating.
Built(type, kids) == [New(type) EXCEPT !.kids = kids, !.last = Len(kids)]

RECURSIVE Duplicate(_)
Duplicate(x) ==
  [x EXCEPT !.kids = [i \in DOMAIN @ |-> Duplicate(@[i])], !.last = Len(x.kids)]

------------------------------------------------------------------------------
(* Searching and comparing.                                                *)

\* An item pointer that is NULL is an item of type "Invalid" too.
IsInvalid(x) == x.type = "Invalid"
IsNull(x) == x.type = "NULL"
IsBool(x) == x.type = "Bool"
IsTrue(x) == IsBool(x) /\ x.int # 0
IsInt(x) == x.type = "Int"
IsString(x) == x.type = "String"
IsArray(x) == x.type = "Array"
IsObject(x) == x.type = "Object"

\* Two that differ do so by more than DBL_EPSILON.  The difference to an infinite one is
\* infinite, and so is what is allowed: it is equal to all but itself and a NaN.
compare_double(a, b) ==
  /\ NAN \notin {a, b}
  /\ IF Finite(a) /\ Finite(b) THEN a = b ELSE a # b

\* The position of a member, 0 if there is none; a member without a name ends a search
\* that regards case.
get_object_item(o, n, cs) ==
  LET i == SelectInSeq(o.kids, LAMBDA x : (cs /\ x.name = NOSTRING) \/ compare_strings(n, x.name, cs) = 0)
  IN  IF i = 0 \/ n = NOSTRING THEN 0 ELSE IF o.kids[i].name = NOSTRING THEN 0 ELSE i

RECURSIVE Compare(_, _, _)
Compare(a, b, cs) ==
  LET numbers == {a.type, b.type} = {"Int", "Number"}
      members(x, y) == \A i \in DOMAIN x.kids :
        LET j == get_object_item(y, x.kids[i].name, cs)
        IN  j # 0 /\ Compare(x.kids[i], y.kids[j], cs)
  IN  /\ ~IsInvalid(a) /\ (a.type = b.type \/ numbers)
      /\ CASE numbers \/ a.type = "Number" -> compare_double(a.dbl, b.dbl)
           [] a.type = "NULL" -> TRUE
           [] a.type \in {"Bool", "Int"} -> a.int = b.int
           [] a.type \in {"String", "Raw"} -> a.str = b.str /\ a.str # NOSTRING
           [] a.type = "Array" -> /\ Len(a.kids) = Len(b.kids)
                                  /\ \A i \in DOMAIN a.kids : Compare(a.kids[i], b.kids[i], cs)
           [] a.type = "Object" -> members(a, b) /\ members(b, a)
           [] OTHER -> FALSE

------------------------------------------------------------------------------
(* Changing a list.                                                        *)

\* The pointer of the first item leads to the end, or to a place that the end has left:
\* then what was behind it is cut off.  A NULL there drops the new item, and an
\* item that is gone is written to, whatever is there by now.
add_item_to_array(a, x) ==
  IF a.kids = << >> THEN [a EXCEPT !.kids = <<x>>, !.last = 1]
  ELSE CASE a.last = 0 -> a
         [] a.last = GONE -> [a EXCEPT !.type = "Undefined"]
         [] OTHER -> [a EXCEPT !.kids = Append(SubSeq(@, 1, a.last), x), !.last = a.last + 1]

AddItemToObject(o, n, x) == add_item_to_array(o, [x EXCEPT !.name = n])

\* Without the k-th item.  The pointer is handed on by a first item, set by the removal of
\* a last one, and left alone by all others.
Detached(a, k) ==
  [a EXCEPT !.kids = RemoveAt(@, k),
            !.last = IF k = Len(a.kids) /\ k > 1 THEN k - 1
                     ELSE IF a.last = k THEN GONE
                     ELSE IF a.last > k THEN a.last - 1 ELSE a.last]

\* The item goes before the which-th, counted from 0.
InsertedAt(a, which, x) ==
  [a EXCEPT !.kids = InsertAt(@, which + 1, x),
            !.last = IF a.last > which THEN a.last + 1 ELSE a.last]
=============================================================================
