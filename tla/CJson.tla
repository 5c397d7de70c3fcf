-------------------------------- MODULE CJson --------------------------------
(***************************************************************************)
(* json/mkey_str2j/cJSON.c: the trees of items that cJSON's calls build    *)
(* and change.  The items of an array or object are a list that begins at  *)
(* its child; next of the last is NULL and prev of the first is the last.  *)
(*                                                                         *)
(* One client calls: it holds items that are in no list (held), gives them *)
(* to arrays and objects, takes them back and deletes them.  It gives no   *)
(* item twice, puts none below itself and adds nothing to a reference.     *)
(* Any allocation may fail.  Values are left out, and names are abstract.  *)
(***************************************************************************)
EXTENDS Naturals, Sequences, FiniteSets, SequencesExt

CONSTANTS
  Items,     \* items that exist at a time
  NULL,
  Names,
  MaxSize    \* of all that exists: an array, an object or a reference counts twice

NoName == "NULL"

ASSUME CJsonAssumption ==
  /\ IsFiniteSet(Items) /\ NULL \notin Items
  /\ NoName \notin Names
  /\ MaxSize \in Nat

VARIABLES
  heap,      \* the items allocated and their fields
  held,      \* the items the client has in its hands
  dropped,   \* history: references that nothing points to
  nameless   \* history: items put into an object without a name

vars == <<heap, held, dropped, nameless>>

MaxItems == Cardinality(Items)

Init ==
  /\ heap = [live |-> {},
             kind |-> [x \in Items |-> "value"],  \* or "array", "object"
             ref  |-> [x \in Items |-> FALSE],    \* cJSON_IsReference
             name |-> [x \in Items |-> NoName],   \* string
             next |-> [x \in Items |-> NULL],
             prev |-> [x \in Items |-> NULL],
             child |-> [x \in Items |-> NULL]]
  /\ held = {} /\ dropped = {} /\ nameless = {}

------------------------------------------------------------------------------
(* Walking.                                                                *)

\* The items of a list, by following next.
Kids(h, a) ==
  LET upTo[k \in 0..MaxItems] ==
        IF k = 0 THEN << >>
        ELSE LET s == upTo[k - 1]
                 x == IF s = << >> THEN h.child[a] ELSE h.next[Last(s)]
             IN  IF x = NULL THEN s ELSE Append(s, x)
  IN  upTo[MaxItems]

\* The search by name gives up at a member without one.
GetObjectItem(h, o, n) ==
  LET stop == SelectInSeq(Kids(h, o), LAMBDA x : h.name[x] \in {n, NoName})
  IN  IF stop = 0 \/ h.name[Kids(h, o)[stop]] = NoName THEN NULL ELSE Kids(h, o)[stop]

\* What cJSON_Delete frees: the item, those that follow it and all below them, but
\* nothing below a reference.
Chain(h, x) ==
  LET reach[k \in 0..MaxItems] ==
        IF k = 0 THEN {x}
        ELSE LET S == reach[k - 1]
             IN  (S \union {h.next[y] : y \in S}
                    \union {h.child[y] : y \in {z \in S : ~h.ref[z]}}) \ {NULL}
  IN  reach[MaxItems]

------------------------------------------------------------------------------
(* Allocating and freeing.                                                 *)

Free(h) == Items \ h.live

\* Freed items are all alike.
Fresh(h) == CHOOSE x \in Free(h) : TRUE

NewItem(h, k) ==
  [h EXCEPT !.live = @ \union {Fresh(h)}, !.kind[Fresh(h)] = k]

Erase(h, S) ==
  [live |-> h.live \ S,
   kind |-> [x \in Items |-> IF x \in S THEN "value" ELSE h.kind[x]],
   ref  |-> [x \in Items |-> x \notin S /\ h.ref[x]],
   name |-> [x \in Items |-> IF x \in S THEN NoName ELSE h.name[x]],
   next |-> [x \in Items |-> IF x \in S THEN NULL ELSE h.next[x]],
   prev |-> [x \in Items |-> IF x \in S THEN NULL ELSE h.prev[x]],
   child |-> [x \in Items |-> IF x \in S THEN NULL ELSE h.child[x]]]

Delete(h, x) == Erase(h, Chain(h, x))

\* A reference is a copy of the item without its name, in no list.
CreateReference(h, x) ==
  LET r == Fresh(h)
  IN  [NewItem(h, h.kind[x]) EXCEPT !.ref[r] = TRUE, !.child[r] = h.child[x]]

------------------------------------------------------------------------------
(* Lists.                                                                  *)

\* The last item is found at prev of the first.
AddItemToArray(h, a, x) ==
  LET first == h.child[a]
      last == h.prev[first]
  IN  IF first = NULL
      THEN [h EXCEPT !.child[a] = x, !.prev[x] = x, !.next[x] = NULL]
      ELSE [h EXCEPT !.next[last] = x, !.prev = [@ EXCEPT ![x] = last, ![first] = x]]

AddItemToObject(h, o, n, x) == AddItemToArray([h EXCEPT !.name[x] = n], o, x)

DetachItemViaPointer(h, a, x) ==
  LET before == h.prev[x]
      after == h.next[x]
      first == h.child[a]
      nexts == IF x = first THEN h.next ELSE [h.next EXCEPT ![before] = after]
      prevs == IF after # NULL THEN [h.prev EXCEPT ![after] = before]
               ELSE IF x # first THEN [h.prev EXCEPT ![first] = before] ELSE h.prev
  IN  [h EXCEPT !.child[a] = IF x = first THEN after ELSE first,
                !.next = [nexts EXCEPT ![x] = NULL],
                !.prev = [prevs EXCEPT ![x] = NULL]]

InsertItemInArray(h, a, which, x) ==
  LET s == Kids(h, a)
      after == IF which < Len(s) THEN s[which + 1] ELSE NULL
      before == h.prev[after]
      first == h.child[a]
      nexts == [h.next EXCEPT ![x] = after]
  IN  IF after = NULL THEN AddItemToArray(h, a, x)
      ELSE [h EXCEPT !.prev = [@ EXCEPT ![x] = before, ![after] = x],
                     !.child[a] = IF after = first THEN x ELSE first,
                     !.next = IF after = first THEN nexts ELSE [nexts EXCEPT ![before] = x]]

ReplaceItemViaPointer(h, a, old, x) ==
  LET before == h.prev[old]
      after == h.next[old]
      first == h.child[a]
      links == [h EXCEPT
        !.child[a] = IF old = first THEN x ELSE first,
        !.next = LET nexts == [@ EXCEPT ![x] = after, ![old] = NULL]
                 IN  IF old # first THEN [nexts EXCEPT ![before] = x] ELSE nexts,
        !.prev = LET prevs == [@ EXCEPT ![x] = IF first = old /\ before = old THEN x ELSE before,
                                        ![old] = NULL]
                 IN  IF after # NULL THEN [prevs EXCEPT ![after] = x]
                     ELSE IF old # first THEN [prevs EXCEPT ![first] = x] ELSE prevs]
  IN  Delete(links, old)

------------------------------------------------------------------------------
(* The client's calls.                                                     *)

Containers == {a \in heap.live : heap.kind[a] # "value" /\ ~heap.ref[a]}
Arrays == {a \in Containers : heap.kind[a] = "array"}
Objects == {a \in Containers : heap.kind[a] = "object"}
MayHold(a, x) == a \notin Chain(heap, x)
Heavy == Containers \union {x \in heap.live : heap.ref[x]}
Room(kinds) ==
  /\ Cardinality(Free(heap)) >= Len(kinds)
  /\ Cardinality(heap.live) + Cardinality(Heavy) + Len(kinds)
       + Len(SelectSeq(kinds, LAMBDA k : k # "value")) <= MaxSize
MayRefer == Room(<<"reference">>)

\* What has gone is forgotten.
Set(h, holds) ==
  /\ heap' = h /\ held' = holds
  /\ nameless' = nameless \intersect h.live
  /\ UNCHANGED dropped

\* A failed allocation leaves all of these without effect, except where it is said:
\* an item made for a call that fails is deleted again.
Create(k) ==
  /\ Room(<<k>>)
  /\ Set(NewItem(heap, k), held \union {Fresh(heap)})

\* cJSON_CreateIntArray and its kin, of two numbers.
CreateArrayOfTwo ==
  /\ Room(<<"array", "value", "value">>)
  /\ LET a == Fresh(heap)
         h1 == NewItem(heap, "array")
         h2 == NewItem(h1, "value")
         h3 == NewItem(h2, "value")
         n1 == Fresh(h1)
         n2 == Fresh(h2)
     IN  Set([h3 EXCEPT !.child[a] = n1, !.next[n1] = n2,
                        !.prev = [@ EXCEPT ![n1] = n2, ![n2] = n1]],
             held \union {a})

AddToArray(a, x) ==
  /\ MayHold(a, x)
  /\ Set(AddItemToArray(heap, a, x), held \ {x})

AddToObject(o, n, x) ==
  /\ MayHold(o, x)
  /\ heap' = AddItemToObject(heap, o, n, x) /\ held' = held \ {x}
  /\ nameless' = nameless \ {x}
  /\ UNCHANGED dropped

\* cJSON_AddStringToObject and its kin, cJSON_AddArrayToObject among them.
AddNewToObject(o, n, k) ==
  /\ Room(<<k>>)
  /\ Set(AddItemToObject(NewItem(heap, k), o, n, Fresh(heap)), held)

AddReferenceToArray(a, x) ==
  /\ MayRefer
  /\ Set(AddItemToArray(CreateReference(heap, x), a, Fresh(heap)), held)

\* Mutant of AddReferenceToObject: the reference is added though its name is not there.
AddReferenceNameless(o, n, x) ==
  /\ MayRefer
  /\ \/ Set(AddItemToObject(CreateReference(heap, x), o, n, Fresh(heap)), held)
     \/ Set(AddItemToArray(CreateReference(heap, x), o, Fresh(heap)), held)

\* When the copy of the name cannot be allocated nothing frees the reference.
AddReferenceToObject(o, n, x) ==
  /\ MayRefer
  /\ \/ Set(AddItemToObject(CreateReference(heap, x), o, n, Fresh(heap)), held)
     \/ /\ heap' = CreateReference(heap, x)
        /\ dropped' = dropped \union {Fresh(heap)}
        /\ UNCHANGED <<held, nameless>>

\* From an array by index, from an object by name, or by pointer.
Detach(a, x) ==
  /\ x \in ToSet(Kids(heap, a))
  /\ Set(DetachItemViaPointer(heap, a, x), held \union {x})

DeleteItem(a, x) ==
  /\ x \in ToSet(Kids(heap, a))
  /\ Set(Delete(DetachItemViaPointer(heap, a, x), x), held)

DeleteHeld(x) == Set(Delete(heap, x), held \ {x})

Insert(a, which, x) ==
  /\ MayHold(a, x)
  /\ Set(InsertItemInArray(heap, a, which, x), held \ {x})

\* Mutant of ReplaceInArray: the item replaced is not deleted.
ReplaceInArrayKeeps(a, old, x) ==
  /\ MayHold(a, x) /\ old \in ToSet(Kids(heap, a))
  /\ LET h == ReplaceItemViaPointer(heap, a, old, x)
     IN  Set([h EXCEPT !.live = @ \union {old}], held \ {x})

ReplaceInArray(a, old, x) ==
  /\ MayHold(a, x) /\ old \in ToSet(Kids(heap, a))
  /\ Set(ReplaceItemViaPointer(heap, a, old, x), held \ {x})

\* replace_item_in_object: the replacement is renamed first, and keeps no name if the
\* copy cannot be allocated, which is not looked at.
ReplaceInObject(o, n, x) ==
  /\ MayHold(o, x)
  /\ \E copied \in {n, NoName} :
       LET h == [heap EXCEPT !.name[x] = copied]
           old == GetObjectItem(heap, o, n)
       IN  /\ IF old = NULL THEN heap' = h /\ held' = held
              ELSE heap' = ReplaceItemViaPointer(h, o, old, x) /\ held' = held \ {x}
           /\ nameless' = (IF copied = NoName THEN nameless \union {x} ELSE nameless \ {x})
                            \intersect heap'.live
  /\ UNCHANGED dropped

\* The copy of an item and of all below it; the client copies no references.  f maps
\* each item to its copy.
Duplicate(x) ==
  LET tree == {x} \union UNION {Chain(heap, y) : y \in {heap.child[x]} \ {NULL}}
      f == CHOOSE g \in [tree -> Free(heap)] : IsInjective(g)
      new == {f[y] : y \in tree}
      orig(y) == CHOOSE z \in tree : f[z] = y
      same(field) == [y \in Items |-> IF y \in new THEN field[orig(y)] ELSE field[y]]
      copy(field) == [y \in Items |-> IF y \notin new THEN field[y]
                                      ELSE IF same(field)[y] \in tree \ {x} THEN f[same(field)[y]]
                                      ELSE NULL]
  IN  /\ Room([i \in 1..Cardinality(tree) |-> heap.kind[SetToSeq(tree)[i]]])
      /\ \A y \in tree : ~heap.ref[y]
      /\ heap' = [heap EXCEPT !.live = @ \union new,
                              !.kind = same(@), !.name = same(@),
                              !.next = [copy(@) EXCEPT ![f[x]] = NULL],
                              !.prev = [copy(@) EXCEPT ![f[x]] = NULL],
                              !.child = copy(@)]
      /\ held' = held \union {f[x]}
      /\ nameless' = nameless \union {f[y] : y \in nameless \intersect tree}
      /\ UNCHANGED dropped

Next ==
  \/ \E k \in {"array", "object", "value"} : Create(k)
  \/ CreateArrayOfTwo
  \/ \E a \in Arrays, x \in held :
       \/ AddToArray(a, x)
       \/ \E which \in 0..Len(Kids(heap, a)) : Insert(a, which, x)
       \/ \E old \in heap.live : ReplaceInArray(a, old, x)
  \/ \E o \in Objects, n \in Names :
       \/ \E x \in held : AddToObject(o, n, x) \/ ReplaceInObject(o, n, x)
       \/ \E k \in {"array", "object", "value"} : AddNewToObject(o, n, k)
       \/ \E x \in heap.live \ dropped : AddReferenceToObject(o, n, x)
  \/ \E a \in Arrays, x \in heap.live \ dropped : AddReferenceToArray(a, x)
  \/ \E a \in Containers, x \in heap.live : Detach(a, x) \/ DeleteItem(a, x)
  \/ \E x \in held : DeleteHeld(x)
  \/ \E x \in heap.live \ dropped : Duplicate(x)

Spec == Init /\ [][Next]_vars

------------------------------------------------------------------------------
(* Properties.                                                             *)

\* The lists are rewired pointer by pointer, the first item's prev being the last
\* (cJSON.c:2008, 2243, 2254, 2322, 2354, 2371): each stays a list, whose prev leads
\* back and from the first to the last.
TypeOK ==
  /\ heap.live \subseteq Items /\ held \subseteq heap.live
  /\ dropped \subseteq heap.live /\ nameless \subseteq heap.live
  /\ \A a \in Containers :
       LET s == Kids(heap, a)
       IN  /\ ToSet(s) \subseteq heap.live /\ IsInjective(s)
           /\ s # << >> => heap.next[Last(s)] = NULL
           /\ \A i \in DOMAIN s : heap.prev[s[i]] = IF i = 1 THEN Last(s) ELSE s[i - 1]

\* An item has one owner, the client or the container it is in (cJSON.c:1985, 2258,
\* 2377): none is freed twice, and none is lost but the reference whose name could
\* not be allocated (cJSON.c:2105).
ItemsAccounted ==
  /\ \A x \in heap.live :
       Cardinality({a \in Containers : x \in ToSet(Kids(heap, a))})
         = IF x \in held \union dropped THEN 0 ELSE 1
  /\ heap.live = dropped \union UNION {Chain(heap, x) : x \in held}
  /\ \A x, y \in held : x # y => Chain(heap, x) \intersect Chain(heap, y) = {}

\* The search by name stops at a member without one (cJSON.c:1921): it finds every
\* name in the object, unless a member that a replacement put there without a name
\* (cJSON.c:2404) stands before it.
MembersFound ==
  \A o \in Containers : heap.kind[o] = "object" =>
    \A i \in DOMAIN Kids(heap, o) :
      LET s == Kids(heap, o)
          n == heap.name[s[i]]
      IN  \/ \E j \in 1..i : s[j] \in nameless
          \/ n # NoName /\ GetObjectItem(heap, o, n) # NULL
==============================================================================
