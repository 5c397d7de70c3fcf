----------------------------- MODULE MCJsonPatch -----------------------------
(***************************************************************************)
(* TLC instance of JsonPatch: documents with at most three members or two  *)
(* elements, one level nested.  Of the letters that are names two come in  *)
(* the same order whether case is regarded or not (a, b), two in different *)
(* ones (a, B), and two differ in case only (b, B); the slash needs an     *)
(* escape.                                                                 *)
(***************************************************************************)
EXTENDS JsonPatch

NameA == <<97>>
NameB == <<98>>
NameCapital == <<66>>
NameSlash == <<SLASH>>
Names == {NameA, NameB, NameCapital}

Leaves == {CreateInt(1), CreateBool(0), CreateBool(1), CreateNull}
Few == {CreateInt(1), CreateBool(1)}
Named(x, n) == [x EXCEPT !.name = n]

Arrays(S) == {Built("Array", s) : s \in UNION {[1..n -> S] : n \in 0..2}}
Object1(S) == {Built("Object", <<Named(x, n)>>) : x \in S, n \in Names \union {NameSlash}}
Object2(S) == {Built("Object", <<Named(x[1], n[1]), Named(x[2], n[2])>>) :
                 x \in S \X S, n \in {m \in Names \X Names : m[1] # m[2]}}
Object3(x) == {Built("Object", [i \in 1..3 |-> Named(x, n[i])]) :
                 n \in {m \in [1..3 -> Names] : IsInjective(m)}}

Slashes == {Built("Object", <<Named(CreateInt(1), n), Named(CreateInt(1), NameSlash)>>) : n \in Names}

Flat == Leaves \union {Built("Object", << >>)} \union Arrays(Few \union {CreateNull})
          \union Object1(Leaves) \union Object2(Few) \union Slashes \union Object3(CreateInt(1))
Nested == {Built("Object", <<Named(x, NameA)>>) :
             x \in Arrays(Few) \union Object1({CreateInt(1)}) \union Object2({CreateInt(1)})}
            \union {Built("Object", <<Named(x, NameA), Named(CreateInt(1), NameB)>>) :
                      x \in Object1({CreateInt(1)}) \union Object2({CreateInt(1)})}
MCDocuments == Flat \union Nested

MCPointers == {<< >>, <<SLASH, 97>>, <<SLASH, 98>>, <<SLASH, 66>>, <<SLASH, TILDE, 49>>, <<SLASH, 48>>,
               <<SLASH, DASH>>, <<SLASH, 97, SLASH, 48>>}
MCAdditions == {CreateInt(1), Built("Array", << >>), Built("Object", <<Named(CreateInt(1), NameB)>>)}
==============================================================================
