------------------------------ MODULE JsonPatch ------------------------------
(***************************************************************************)
(* json/mkey_str2j/cJSON_Utils.c: JSON pointers, patches (RFC 6902) and    *)
(* merge patches (RFC 7396).  A client generates the patch that leads from *)
(* one document to another and applies it to the first, or applies a patch *)
(* it has written itself.                                                  *)
(*                                                                         *)
(* Generating sorts the members of the objects of both documents, and so   *)
(* does comparing.  An item is found by the positions that lead to it from *)
(* the root.  Indices are below ten, numbers are finite, and no allocation *)
(* fails.                                                                  *)
(***************************************************************************)
EXTENDS JsonTree

CONSTANTS
  Documents,   \* what patches are generated for and applied to
  Pointers,    \* paths of the patches the client writes
  Additions    \* values of these patches

VARIABLES
  jstep,       \* "none", "generated", "written" or "merged"
  jfrom,       \* the document before
  jto,         \* where the patches lead
  jcs,         \* case_sensitive
  jdoc,        \* the document
  jpatches,    \* the patches to apply
  jwritten,    \* history: the patch the client wrote
  jstatus      \* what the last apply_patch returned

jpVars == <<jstep, jfrom, jto, jcs, jdoc, jpatches, jwritten, jstatus>>

SLASH == 47
TILDE == 126
DASH == 45
Digit(n) == 48 + n

------------------------------------------------------------------------------
(* Places in a document.                                                   *)

NOWHERE == <<0>>

RECURSIVE ItemAt(_, _)
ItemAt(doc, place) ==
  IF place = << >> THEN doc ELSE ItemAt(doc.kids[Head(place)], Tail(place))

RECURSIVE With(_, _, _)
With(doc, place, x) ==
  IF place = << >> THEN x
  ELSE [doc EXCEPT !.kids[Head(place)] = With(@, Tail(place), x)]

Without(doc, place) ==
  With(doc, Front(place), Detached(ItemAt(doc, Front(place)), Last(place)))

------------------------------------------------------------------------------
(* Pointers.                                                               *)

RECURSIVE compare_pointers(_, _, _)
compare_pointers(name, p, cs) ==
  LET ends == At(p, 1) \in {0, SLASH}
      fold(ch) == IF cs THEN ch ELSE tolower(ch)
  IN  IF name = NOSTRING THEN FALSE
      ELSE IF name = << >> \/ ends THEN name = << >> /\ ends
      ELSE IF p[1] = TILDE
      THEN /\ <<At(p, 2), name[1]>> \in {<<Digit(0), TILDE>>, <<Digit(1), SLASH>>}
           /\ compare_pointers(Tail(name), SubSeq(p, 3, Len(p)), cs)
      ELSE fold(name[1]) = fold(p[1]) /\ compare_pointers(Tail(name), Tail(p), cs)

encode_string_as_pointer(s) ==
  FlattenSeq([i \in DOMAIN s |-> CASE s[i] = SLASH -> <<TILDE, Digit(1)>>
                                    [] s[i] = TILDE -> <<TILDE, Digit(0)>>
                                    [] OTHER -> <<s[i]>>])

\* The pointer that cJSONUtils_FindPointerFromObjectTo makes for an item.
RECURSIVE FindPointer(_, _)
FindPointer(doc, place) ==
  LET k == Head(place)
      token == IF IsArray(doc) THEN <<Digit(k - 1)>> ELSE encode_string_as_pointer(doc.kids[k].name)
  IN  IF place = << >> THEN << >>
      ELSE <<SLASH>> \o token \o FindPointer(doc.kids[k], Tail(place))

\* The escapes are written where they stand, but nothing moves up to close the gap,
\* and "/" goes one place too far.  d is where the next character would go.
RECURSIVE DecodedFrom(_, _, _)
DecodedFrom(s, d, i) ==
  CASE i > Len(s) -> SubSeq(s, 1, d - 1)
    [] i <= Len(s) /\ s[i] # TILDE -> DecodedFrom(s, d + 1, i + 1)
    [] OTHER -> CASE At(s, i + 1) = Digit(0) -> DecodedFrom([s EXCEPT ![d] = TILDE], d + 1, i + 2)
                  [] At(s, i + 1) = Digit(1) -> DecodedFrom([s EXCEPT ![d + 1] = SLASH], d + 1, i + 2)
                  [] OTHER -> s

decode_pointer_inplace(s) == DecodedFrom(s, 1, 1)

\* The index at the start of a pointer, counted from 0, or -1.  Once the first
\* character is a digit, every character from "0" on counts as one.
ArrayIndex(p, digits) ==
  LET Shift(n, ch) == 10 * n + (ch - Digit(0))
  IN  IF \/ At(p, 1) = Digit(0) /\ At(p, 2) \notin {0, SLASH}
         \/ At(p, digits + 1) \notin {0, SLASH}
      THEN -1 ELSE FoldLeft(Shift, 0, SubSeq(p, 1, digits))

decode_array_index(p) ==
  ArrayIndex(p, IF At(p, 1) > Digit(9) THEN 0
                ELSE (CHOOSE k \in 1..(Len(p) + 1) :
                        At(p, k) < Digit(0) /\ \A j \in 1..(k - 1) : p[j] >= Digit(0)) - 1)

Member(o, p, cs) == SelectInSeq(o.kids, LAMBDA x : compare_pointers(x.name, p, cs))

\* The position among the kids that the first token of p names, 0 if there is none.
Child(x, p, cs) ==
  CASE IsArray(x) -> IF decode_array_index(p) < Len(x.kids) THEN decode_array_index(p) + 1 ELSE 0
    [] IsObject(x) -> Member(x, p, cs)
    [] OTHER -> 0

\* p from its first slash on.
FromSlash(p) == LET i == SelectInSeq(p, LAMBDA ch : ch = SLASH)
                IN  IF i = 0 THEN << >> ELSE SubSeq(p, i, Len(p))

RECURSIVE get_item_from_pointer(_, _, _)
PlaceBelow(k, below) == IF below = NOWHERE THEN NOWHERE ELSE <<k>> \o below
PlaceIn(doc, k, p, cs) ==
  IF k = 0 THEN NOWHERE ELSE PlaceBelow(k, get_item_from_pointer(doc.kids[k], p, cs))
get_item_from_pointer(doc, p, cs) ==
  IF At(p, 1) # SLASH THEN << >> ELSE PlaceIn(doc, Child(doc, Tail(p), cs), FromSlash(Tail(p)), cs)

\* strrchr: the parent's pointer and the decoded name in it.
LastSlash(p) == SelectLastInSeq(p, LAMBDA ch : ch = SLASH)
Parent(doc, p, cs) == get_item_from_pointer(doc, SubSeq(p, 1, LastSlash(p) - 1), cs)
Name(p) == decode_pointer_inplace(SubSeq(p, LastSlash(p) + 1, Len(p)))

\* The place of the item to detach; members are looked for without regard to case.
Detachable(x, name, cs) ==
  CASE IsArray(x) -> Child(x, name, cs)
    [] IsObject(x) -> get_object_item(x, name, FALSE)
    [] OTHER -> 0
IfFound(parent, k) == IF k = 0 THEN NOWHERE ELSE Append(parent, k)
DetachIn(doc, parent, name, cs) ==
  IF parent = NOWHERE THEN NOWHERE
  ELSE IfFound(parent, Detachable(ItemAt(doc, parent), name, cs))
detach_path(doc, p, cs) ==
  IF LastSlash(p) = 0 THEN NOWHERE ELSE DetachIn(doc, Parent(doc, p, cs), Name(p), cs)

------------------------------------------------------------------------------
(* Sorting and comparing.                                                  *)

RECURSIVE Merged(_, _, _, _)
Merged(s, t, kids, cs) ==
  IF s = << >> \/ t = << >> THEN s \o t
  ELSE IF compare_strings(kids[s[1]].name, kids[t[1]].name, cs) < 0
  THEN <<s[1]>> \o Merged(Tail(s), t, kids, cs)
  ELSE <<t[1]>> \o Merged(s, Tail(t), kids, cs)

Ascending(s, kids, cs) ==
  \A i \in 1..(Len(s) - 1) : compare_strings(kids[s[i]].name, kids[s[i + 1]].name, cs) < 0

\* The positions in kids in their new order, by merging the sorted halves.
RECURSIVE sort_list(_, _, _)
sort_list(s, kids, cs) ==
  LET half == (Len(s) + 1) \div 2
  IN  IF Ascending(s, kids, cs) THEN s
      ELSE Merged(sort_list(SubSeq(s, 1, half), kids, cs),
                  sort_list(SubSeq(s, half + 1, Len(s)), kids, cs), kids, cs)

\* Nobody tells the new first item where the list ends: it keeps what it had, which is
\* NULL if it was the first of a second half on its way.
InOrder(o, order) ==
  [o EXCEPT !.kids = [i \in DOMAIN @ |-> @[order[i]]],
            !.last = IF o.kids # << >> /\ order[1] # 1 THEN 0
                     ELSE IF @ \in DOMAIN order THEN SelectInSeq(order, LAMBDA i : i = o.last)
                     ELSE @]
sort_object(o, cs) == InOrder(o, sort_list([i \in DOMAIN o.kids |-> i], o.kids, cs))

\* Whether two items say the same, and the items with their objects sorted as far as
\* the comparison went.  The value of a Bool is not looked at.
RECURSIVE compare_json(_, _, _)
Answer(same, a, b) == [same |-> same, a |-> a, b |-> b]

\* r with its i-th pair of kids compared, and with the answer c for that pair.
PairCompared(r, i, c) ==
  Answer(c.same, [r.a EXCEPT !.kids[i] = c.a], [r.b EXCEPT !.kids[i] = c.b])
ComparePair(r, i, cs) ==
  IF ~r.same THEN r
  ELSE IF r.a.type = "Object" /\ compare_strings(r.a.kids[i].name, r.b.kids[i].name, cs) # 0
  THEN [r EXCEPT !.same = FALSE]
  ELSE PairCompared(r, i, compare_json(r.a.kids[i], r.b.kids[i], cs))
CompareKids(r, n, m, cs) ==
  LET all == FoldLeft(LAMBDA q, i : ComparePair(q, i, cs), r, [i \in 1..(IF n < m THEN n ELSE m) |-> i])
  IN  [all EXCEPT !.same = @ /\ n = m]

compare_json(a, b, cs) ==
  CASE a.type # b.type -> Answer(FALSE, a, b)
    [] a.type = b.type /\ a.type = "Number" -> Answer(a.int = b.int /\ compare_double(a.dbl, b.dbl), a, b)
    [] a.type = b.type /\ a.type = "Int" -> Answer(a.int = b.int, a, b)
    [] a.type = b.type /\ a.type = "String" -> Answer(a.str = b.str, a, b)
    [] a.type = b.type /\ a.type = "Array" ->
         CompareKids(Answer(TRUE, a, b), Len(a.kids), Len(b.kids), cs)
    [] a.type = b.type /\ a.type = "Object" ->
         CompareKids(Answer(TRUE, sort_object(a, cs), sort_object(b, cs)), Len(a.kids), Len(b.kids), cs)
    [] OTHER -> Answer(TRUE, a, b)

------------------------------------------------------------------------------
(* Applying a patch.  It has an op and a path; value holds at most one     *)
(* item; from may be missing.                                              *)

Patch(op, path, value, from) == [op |-> op, path |-> path, value |-> value, from |-> from]
Result(doc, status) == [doc |-> doc, status |-> status]

\* The last part of apply_patch: add a copy of the value, or the item moved, at the path.
AddToArrayAt(parent, x, name, index) ==
  IF name = <<DASH>> \/ index = Len(parent.kids) THEN Result(add_item_to_array(parent, x), 0)
  ELSE IF index = -1 THEN Result(parent, 11)
  ELSE IF index > Len(parent.kids) THEN Result(parent, 10)
  ELSE Result(InsertedAt(parent, index, x), 0)
AddMember(parent, x, name, old) ==
  Result(AddItemToObject(IF old = 0 THEN parent ELSE Detached(parent, old), name, x), 0)
AddIn(parent, x, name, cs) ==
  CASE IsArray(parent) -> AddToArrayAt(parent, x, name, decode_array_index(name))
    [] IsObject(parent) -> AddMember(parent, x, name, get_object_item(parent, name, cs))
    [] OTHER -> Result(parent, 9)
PutBack(doc, place, r) == Result(With(doc, place, r.doc), r.status)
AddAt(doc, x, place, name, cs) ==
  IF place = NOWHERE THEN Result(doc, 9) ELSE PutBack(doc, place, AddIn(ItemAt(doc, place), x, name, cs))
AddAtPath(doc, x, path, cs) ==
  IF LastSlash(path) = 0 THEN Result(doc, 9) ELSE AddAt(doc, x, Parent(doc, path, cs), Name(path), cs)

TestedAt(doc, place, c) == Result(With(doc, place, c.a), IF c.same THEN 0 ELSE 1)
TestAt(doc, place, x, cs) ==
  IF place = NOWHERE THEN Result(doc, 1) ELSE TestedAt(doc, place, compare_json(ItemAt(doc, place), x, cs))
ApplyTest(doc, p, cs) ==
  IF p.value = << >> THEN Result(doc, 1)
  ELSE TestAt(doc, get_item_from_pointer(doc, p.path, cs), p.value[1], cs)

ApplyToRoot(doc, p) ==
  IF p.op = "remove" THEN Result(New("Invalid"), 0)
  ELSE IF p.value = << >> THEN Result(doc, 7)
  ELSE Result([Duplicate(p.value[1]) EXCEPT !.name = NOSTRING], 0)

FromPlace(doc, p, place, cs) ==
  IF place = NOWHERE THEN Result(doc, 5)
  ELSE AddAtPath(IF p.op = "move" THEN Without(doc, place) ELSE doc,
                 IF p.op = "move" THEN ItemAt(doc, place) ELSE Duplicate(ItemAt(doc, place)), p.path, cs)
ApplyFrom(doc, p, cs) ==
  IF p.from = NOSTRING THEN Result(doc, 4)
  ELSE FromPlace(doc, p, IF p.op = "move" THEN detach_path(doc, p.from, cs)
                         ELSE get_item_from_pointer(doc, p.from, cs), cs)

\* What is to be replaced is deleted before anything else is looked at.
AddValue(doc, p, cs) ==
  IF p.value = << >> THEN Result(doc, 7) ELSE AddAtPath(doc, Duplicate(p.value[1]), p.path, cs)
AfterRemoval(doc, p, place, cs) ==
  IF place = NOWHERE THEN Result(doc, 13)
  ELSE IF p.op = "remove" THEN Result(Without(doc, place), 0)
  ELSE AddValue(Without(doc, place), p, cs)
ApplyValue(doc, p, cs) ==
  IF p.op = "add" THEN AddValue(doc, p, cs) ELSE AfterRemoval(doc, p, detach_path(doc, p.path, cs), cs)

apply_patch(doc, p, cs) ==
  CASE p.path = NOSTRING -> Result(doc, 2)
    [] p.path # NOSTRING /\ p.op = "invalid" -> Result(doc, 3)
    [] p.path # NOSTRING /\ p.op = "test" -> ApplyTest(doc, p, cs)
    [] p.path = << >> /\ p.op \in {"remove", "replace", "add"} -> ApplyToRoot(doc, p)
    [] p.path # NOSTRING /\ p.op \in {"move", "copy"} -> ApplyFrom(doc, p, cs)
    [] OTHER -> ApplyValue(doc, p, cs)

------------------------------------------------------------------------------
(* Generating patches.  from and to come back with their objects sorted.   *)

Below(path, name) == path \o <<SLASH>> \o encode_string_as_pointer(name)
Replace(path, x) == Patch("replace", path, <<x>>, NOSTRING)
Generated(from, to, patches) == [from |-> from, to |-> to, patches |-> patches]

\* Mutant of RestOfArrays: the index goes on with each leftover that is removed.
RestOfArraysRising(r, path, both) ==
  LET remove(i) == Patch("remove", path \o <<SLASH, Digit(both + i - 1)>>, << >>, NOSTRING)
      more(x) == Patch("add", path \o <<SLASH, DASH>>, <<x>>, NOSTRING)
  IN  [r EXCEPT !.patches = @ \o [i \in 1..(Len(r.from.kids) - both) |-> remove(i)]
                              \o [i \in 1..(Len(r.to.kids) - both) |-> more(r.to.kids[both + i])]]

\* Two arrays: r holds the result so far, for the first elements of both.
\* Leftovers are removed one after the other at the same index, or added at the end.
RestOfArrays(r, path, both) ==
  LET remove == Patch("remove", path \o <<SLASH, Digit(both)>>, << >>, NOSTRING)
      more(x) == Patch("add", path \o <<SLASH, DASH>>, <<x>>, NOSTRING)
  IN  [r EXCEPT !.patches = @ \o [i \in 1..(Len(r.from.kids) - both) |-> remove]
                              \o [i \in 1..(Len(r.to.kids) - both) |-> more(r.to.kids[both + i])]]

RECURSIVE create_patches(_, _, _, _)
RECURSIVE PatchMembers(_, _, _, _, _)

\* Two sorted objects: i and j are the next member of each; their names compare as diff.
MembersDiffer(r, i, j, cs) ==
  IF i > Len(r.from.kids) THEN 1
  ELSE IF j > Len(r.to.kids) THEN -1 ELSE compare_strings(r.from.kids[i].name, r.to.kids[j].name, cs)
MemberPatched(r, i, j, m) ==
  Generated([r.from EXCEPT !.kids[i] = m.from], [r.to EXCEPT !.kids[j] = m.to], r.patches \o m.patches)
PatchMember(r, path, i, j, diff, cs) ==
  CASE diff = 0 ->
         MemberPatched(r, i, j, create_patches(Below(path, r.from.kids[i].name), r.from.kids[i], r.to.kids[j], cs))
    [] diff < 0 -> [r EXCEPT !.patches = Append(@, Patch("remove", Below(path, r.from.kids[i].name), << >>, NOSTRING))]
    [] OTHER -> [r EXCEPT !.patches = Append(@, Patch("add", Below(path, r.to.kids[j].name), <<r.to.kids[j]>>, NOSTRING))]
PatchMembersBy(r, path, i, j, diff, cs) ==
  PatchMembers(PatchMember(r, path, i, j, diff, cs), path,
               IF diff <= 0 THEN i + 1 ELSE i, IF diff >= 0 THEN j + 1 ELSE j, cs)
PatchMembers(r, path, i, j, cs) ==
  IF i > Len(r.from.kids) /\ j > Len(r.to.kids) THEN r
  ELSE PatchMembersBy(r, path, i, j, MembersDiffer(r, i, j, cs), cs)

\* Two arrays with the results for the pairs of their first elements.
PatchArrays(path, from, to, both, pairs) ==
  LET kids(x, side) == [i \in DOMAIN x.kids |-> IF i <= both THEN side[i] ELSE x.kids[i]]
  IN  RestOfArrays(Generated([from EXCEPT !.kids = kids(from, [i \in 1..both |-> pairs[i].from])],
                             [to EXCEPT !.kids = kids(to, [i \in 1..both |-> pairs[i].to])],
                             FlattenSeq([i \in 1..both |-> pairs[i].patches])), path, both)

create_patches(path, from, to, cs) ==
  LET both == IF Len(from.kids) < Len(to.kids) THEN Len(from.kids) ELSE Len(to.kids)
      pair(i) == create_patches(path \o <<SLASH, Digit(i - 1)>>, from.kids[i], to.kids[i], cs)
      Unless(same) == Generated(from, to, IF same THEN << >> ELSE <<Replace(path, to)>>)
  IN  IF from.type # to.type THEN Unless(FALSE)
      ELSE CASE from.type = "Int" -> Unless(from.int = to.int)
             [] from.type = "Number" -> Unless(from.int = to.int /\ compare_double(from.dbl, to.dbl))
             [] from.type = "String" -> Unless(from.str = to.str)
             [] from.type = "Array" ->
                  PatchArrays(path, from, to, both, [i \in 1..both |-> pair(i)])
             [] from.type = "Object" ->
                  PatchMembers(Generated(sort_object(from, cs), sort_object(to, cs), << >>), path, 1, 1, cs)
             [] OTHER -> Unless(TRUE)

------------------------------------------------------------------------------
(* Merge patches.                                                          *)

NOITEM == New("Invalid")   \* an item pointer that is NULL

RECURSIVE merge_patch(_, _, _)
\* The member of the target at k, if there is one, makes room for what child makes of it.
MergeChild(t, child, k, cs) ==
  IF IsNull(child) THEN IF k = 0 THEN t ELSE Detached(t, k)
  ELSE AddItemToObject(IF k = 0 THEN t ELSE Detached(t, k), child.name,
                       merge_patch(IF k = 0 THEN NOITEM ELSE t.kids[k], child, cs))
merge_patch(target, patch, cs) ==
  IF ~IsObject(patch) THEN Duplicate(patch)
  ELSE FoldLeft(LAMBDA t, child : MergeChild(t, child, get_object_item(t, child.name, cs), cs),
                IF IsObject(target) THEN target ELSE New("Object"), patch.kids)

RECURSIVE generate_merge_patch(_, _, _)
RECURSIVE MergeMembers(_, _, _, _)
MergeAdd(r, n, x) == [r EXCEPT !.patch = AddItemToObject(@, n, x)]
MergeSides(r, i, j, x, y) == [r EXCEPT !.from.kids[i] = x, !.to.kids[j] = y]
MemberMerged(r, i, j, m) ==
  IF m.patch = NOITEM THEN MergeSides(r, i, j, m.from, m.to)
  ELSE MergeAdd(MergeSides(r, i, j, m.from, m.to), r.to.kids[j].name, m.patch)
MemberCompared(r, i, j, c) ==
  IF c.same THEN MergeSides(r, i, j, c.a, c.b)
  ELSE MemberMerged(r, i, j, generate_merge_patch(c.a, c.b, FALSE))
MergeMember(r, i, j, diff, cs) ==
  CASE diff < 0 -> MergeAdd(r, r.from.kids[i].name, CreateNull)
    [] diff > 0 -> MergeAdd(r, r.to.kids[j].name, Duplicate(r.to.kids[j]))
    [] OTHER -> MemberCompared(r, i, j, compare_json(r.from.kids[i], r.to.kids[j], cs))
MergeMembersBy(r, i, j, diff, cs) ==
  MergeMembers(MergeMember(r, i, j, diff, cs),
               IF diff <= 0 THEN i + 1 ELSE i, IF diff >= 0 THEN j + 1 ELSE j, cs)

\* The members are compared with strcmp though they may be sorted without regard to
\* case; the patch of a member never regards it.
MergeMembers(r, i, j, cs) ==
  IF i > Len(r.from.kids) /\ j > Len(r.to.kids) THEN r
  ELSE MergeMembersBy(r, i, j, MembersDiffer(r, i, j, TRUE), cs)

MergeResult(r) == [r EXCEPT !.patch = IF @.kids = << >> THEN NOITEM ELSE @]
generate_merge_patch(from, to, cs) ==
  IF ~IsObject(from) \/ ~IsObject(to)
  THEN [from |-> from, to |-> to, patch |-> Duplicate(to)]
  ELSE MergeResult(MergeMembers([from |-> sort_object(from, cs), to |-> sort_object(to, cs),
                                 patch |-> New("Object")], 1, 1, cs))

------------------------------------------------------------------------------
(* The client.                                                             *)

JpInit ==
  /\ jstep = "none" /\ jcs = FALSE
  /\ jfrom = NOITEM /\ jto = NOITEM /\ jdoc = NOITEM
  /\ jpatches = << >> /\ jwritten = << >> /\ jstatus = 0

GeneratePatches ==
  /\ jstep = "none"
  /\ \E from, to \in Documents, cs \in BOOLEAN :
       \E r \in {create_patches(<< >>, from, to, cs)} :
         /\ jfrom' = from /\ jto' = to /\ jcs' = cs
         /\ jdoc' = r.from /\ jpatches' = r.patches
  /\ jstep' = "generated"
  /\ UNCHANGED <<jwritten, jstatus>>

\* One turn of the loop of cJSONUtils_ApplyPatches, which stops at the first that fails.
ApplyPatches ==
  /\ jstep \in {"generated", "written"} /\ jpatches # << >> /\ jstatus = 0
  /\ \E r \in {apply_patch(jdoc, Head(jpatches), jcs)} :
       jdoc' = r.doc /\ jstatus' = r.status
  /\ jpatches' = Tail(jpatches)
  /\ UNCHANGED <<jstep, jfrom, jto, jcs, jwritten>>

\* A patch of the client's own, made with cJSONUtils_AddPatchToArray or by hand.
WritePatch ==
  /\ jstep = "none"
  /\ \E doc \in Documents, cs \in BOOLEAN :
       jfrom' = doc /\ jdoc' = doc /\ jcs' = cs
  /\ \E op \in {"add", "remove", "replace", "move", "copy", "test", "invalid"} :
       \E path \in Pointers \union {NOSTRING}, x \in Additions \union {NOITEM} :
         \E from \in IF op \in {"move", "copy"} THEN Pointers \union {NOSTRING} ELSE {NOSTRING} :
           /\ op \in {"move", "copy", "remove", "invalid"} => x = NOITEM
           /\ path = NOSTRING => op = "add"
           /\ jpatches' = <<Patch(op, path, IF x = NOITEM THEN << >> ELSE <<x>>, from)>>
  /\ jwritten' = jpatches' /\ jstep' = "written"
  /\ UNCHANGED <<jto, jstatus>>

\* The patch that leads from one to the other is applied to the first; none if they agree.
GenerateMergePatch ==
  /\ jstep = "none"
  /\ \E from, to \in Documents, cs \in BOOLEAN :
       \E r \in {generate_merge_patch(from, to, cs)} :
         /\ jfrom' = from /\ jto' = to /\ jcs' = cs
         /\ jdoc' = IF r.patch = NOITEM THEN r.from ELSE merge_patch(r.from, r.patch, cs)
  /\ jstep' = "merged"
  /\ UNCHANGED <<jpatches, jwritten, jstatus>>

JpNext == GeneratePatches \/ ApplyPatches \/ WritePatch \/ GenerateMergePatch

JpSpec == JpInit /\ [][JpNext]_jpVars

------------------------------------------------------------------------------
(* Properties.                                                             *)

RECURSIVE Items(_)
Items(x) == <<x>> \o FlattenSeq([i \in DOMAIN x.kids |-> Items(x.kids[i])])
Size(x) == Len(Items(x))
All(x, P(_)) == \A i \in DOMAIN Items(x) : P(Items(x)[i])

NamesIn(doc) == {i.name : i \in ToSet(Items(doc))}
\* Those of the members of members.
NamesBelow(doc) == UNION {UNION {NamesIn(y) : y \in ToSet(x.kids)} : x \in ToSet(doc.kids)}

NeedEscape(names) == \E n \in names : {SLASH, TILDE} \intersect ToSet(n) # {}

\* Two names that differ in case only.
Twins(names) == \E m, n \in names : m # n /\ compare_strings(m, n, FALSE) = 0
SameOrder(names) ==
  \A m, n \in names : compare_strings(m, n, TRUE) < 0 <=> compare_strings(m, n, FALSE) < 0

\* Sorting loses the end of the list of x.
LosesEnd(x, cs) == IsObject(x) /\ x.kids # << >> /\ sort_object(x, cs).last # Len(x.kids)

\* Something is added to a list that has lost its end, on the way from x to y.
RECURSIVE AddedToLost(_, _, _)
AddedToLost(x, y, cs) ==
  \/ /\ LosesEnd(x, cs) /\ IsObject(y)
     /\ \E i \in DOMAIN y.kids : \A k \in {get_object_item(x, y.kids[i].name, cs)} :
          k = 0 \/ ~Compare(x.kids[k], y.kids[i], cs)
  \/ /\ IsObject(x) /\ IsObject(y)
     /\ \E i \in DOMAIN x.kids : \E k \in {get_object_item(y, x.kids[i].name, cs)} :
          k # 0 /\ AddedToLost(x.kids[i], y.kids[k], cs)
  \/ /\ IsArray(x) /\ IsArray(y)
     /\ \E i \in DOMAIN x.kids \intersect DOMAIN y.kids : AddedToLost(x.kids[i], y.kids[i], cs)

\* Bools that differ are not told apart.
BoolsAgree(x, y) == \E b \in 0..1 : \A z \in {x, y} : All(z, LAMBDA i : i.type = "Bool" => i.int = b)

NoNullMembers(doc) ==
  All(doc, LAMBDA x : x.type = "Object" => \A i \in DOMAIN x.kids : x.kids[i].type # "NULL")

RECURSIVE Places(_)
Places(doc) == {<< >>} \union UNION {{<<k>> \o p : p \in Places(doc.kids[k])} : k \in DOMAIN doc.kids}

\* Where a successful patch has put its value.
PutAt(doc, p, cs) ==
  LET parent == Parent(doc, p, cs)
  IN  IF p # << >> /\ Name(p) = <<DASH>> /\ ItemAt(doc, parent).type = "Array"
      THEN Append(parent, Len(ItemAt(doc, parent).kids)) ELSE get_item_from_pointer(doc, p, cs)

WrittenPatchDone ==
  LET p == jwritten[1]
      x == IF p.op = "copy" \/ p.op = "move"
           THEN ItemAt(jfrom, get_item_from_pointer(jfrom, p.from, jcs)) ELSE p.value[1]
      found == ItemAt(jdoc, PutAt(jdoc, p.path, jcs))
      before == get_item_from_pointer(jfrom, p.path, jcs)
  IN  CASE jstatus # 0 -> jdoc = jfrom \/ (p.op \in {"replace", "move"} /\ Size(jdoc) < Size(jfrom))
        [] jstatus = 0 /\ p.op = "test" -> jdoc = jfrom /\ Compare(ItemAt(jfrom, before), x, jcs)
        [] jstatus = 0 /\ p.op = "remove" -> Size(jdoc) = IF p.path = << >> THEN 1
                                                         ELSE Size(jfrom) - Size(ItemAt(jfrom, before))
        [] OTHER -> /\ Compare(found, x, jcs)
                    /\ p.op = "replace" => Size(jdoc) = Size(jfrom) - Size(ItemAt(jfrom, before)) + Size(x)

\* What is left out of the patches that are generated.
GeneratedRight ==
  /\ ~AddedToLost(jfrom, jto, jcs) /\ BoolsAgree(jfrom, jto)
  /\ ~NeedEscape(NamesIn(jfrom) \union NamesIn(jto))
  /\ ~Twins(NamesIn(jfrom)) /\ (jcs \/ ~Twins(NamesIn(jto)))

\* Likewise of merge patches, but for the Bools.
MergedRight ==
  /\ ~AddedToLost(jfrom, jto, jcs) /\ NoNullMembers(jto)
  /\ SameOrder(IF jcs THEN NamesBelow(jfrom) \union NamesBelow(jto) ELSE NamesIn(jfrom) \union NamesIn(jto))

\* Likewise of a patch that is written.
WrittenRight ==
  LET p == jwritten[1]
      detached == CASE p.op \in {"remove", "replace"} -> {Name(p.path)}
                    [] p.op = "move" -> {Name(p.from)}
                    [] OTHER -> {}
  IN  /\ BoolsAgree(jfrom, jfrom)
      /\ TILDE \notin ToSet(p.path \o p.from)
      /\ ~jcs \/ detached # {} => ~Twins(NamesIn(jfrom) \union (IF jcs THEN detached ELSE {}))
      /\ p.op = "test" => All(jfrom, LAMBDA x : IsObject(x) => sort_object(x, jcs) = x)

\* The patches generated from one document to another, applied one after the other to
\* the first (cJSON_Utils.c:1161, 1221, 1227), and the merge patch (1339, 1408), give the
\* second, and a written patch puts its value where it says or leaves the document alone,
\* but for what a replace or move that fails halfway has deleted (907, 929, 958); the
\* pointer made for an item leads to it, whatever its name (198-258).  Left out:
\*   - what is added to a list that has lost its end by sorting (484-593); a written test
\*     that sorts is no change of the document only where it was sorted before (667);
\*   - names that need an escape, unless the patch is a merge patch (359-390);
\*   - Bools that differ (695, 1294), and null members, which a merge patch cannot say;
\*   - names in a document that differ in case only, when case is not regarded, and where
\*     an item is detached, as detach_path never regards it (466);
\*   - merge patches of names that come in another order when case is not regarded, as in
\*     cJSONUtils_GenerateMergePatch and in its patches for members of members (1472): the
\*     members are sorted and merged without case (1368, 1382, 1423), but compared by
\*     strcmp (1440).  From {"b":1} to {"B":1} the result is {}.
PatchesLead ==
  /\ jstep = "merged" =>
       \A p \in Places(jto) : get_item_from_pointer(jto, FindPointer(jto, p), TRUE) = p
  /\ CASE jstep = "generated" /\ GeneratedRight ->
            jstatus = 0 /\ (jpatches = << >> => Compare(jdoc, jto, jcs))
       [] jstep = "merged" /\ MergedRight /\ BoolsAgree(jfrom, jto) -> Compare(jdoc, jto, jcs)
       [] jstep = "written" /\ jpatches = << >> /\ WrittenRight -> WrittenPatchDone
       [] OTHER -> TRUE

\* cJSON_Utils.h:72 says of cJSONUtils_GenerateMergePatch that it "generates a patch to
\* move from -> to": merged into from, it gives to.  Bools that differ are not left out.
MergePatchMoves == jstep = "merged" /\ MergedRight => Compare(jdoc, jto, jcs)
==============================================================================
